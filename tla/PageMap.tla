------------------------------ MODULE PageMap ------------------------------
(***************************************************************************)
(* PageMap.h: the map from page numbers to descriptors as one array, as a  *)
(* tree of two levels and as one of three.  Arrays are functions; a level  *)
(* that has not been allocated is Null.  PageCache uses the first.         *)
(***************************************************************************)
EXTENDS Integers

CONSTANTS Root,       \* ROOT_LENGTH of the tree of two levels
          Leaf2,      \* its LEAF_LENGTH
          Interior,   \* INTERIOR_LENGTH of the tree of three levels
          Leaf3,      \* its LEAF_LENGTH
          Null

ASSUME LengthsAssumption ==
  /\ {Root, Leaf2, Interior, Leaf3} \subseteq Nat \ {0}
  /\ Root * Leaf2 = Interior * Interior * Leaf3

Size == Root * Leaf2   \* page numbers: 1 << BITS

(* One level. *)
New1 == [k \in 0 .. Size - 1 |-> Null]
Get1(a, k) == IF k >= Size THEN Null ELSE a[k]
Set1(a, k, v) == [a EXCEPT ![k] = v]

(* Two: i1 and i2, of which the constructor allocates all. *)
At2(k) == <<k \div Leaf2, k % Leaf2>>
New2 == [i \in 0 .. Root - 1 |-> [j \in 0 .. Leaf2 - 1 |-> Null]]

Get2(t, k) ==
  IF k >= Size THEN Null
  ELSE IF t[At2(k)[1]] = Null THEN Null
  ELSE t[At2(k)[1]][At2(k)[2]]

Set2(t, k, v) == [t EXCEPT ![At2(k)[1]][At2(k)[2]] = v]

\* Wrong form: the second index keeps the bits of the first.
At3Unmasked(k) == <<k \div (Leaf3 * Interior), k \div Leaf3, k % Leaf3>>

(* Three: i1, i2 and i3, of which the constructor allocates the root. *)
At3(k) == <<k \div (Leaf3 * Interior), (k \div Leaf3) % Interior, k % Leaf3>>
New3 == [i \in 0 .. Interior - 1 |-> Null]

Get3(t, k) ==
  IF k >= Size THEN Null
  ELSE IF t[At3(k)[1]] = Null THEN Null
  ELSE IF t[At3(k)[1]][At3(k)[2]] = Null THEN Null
  ELSE t[At3(k)[1]][At3(k)[2]][At3(k)[3]]

(* Ensure(k, 1): the node and the leaf of page k. *)
Ensure3(t, k) ==
  LET node == IF t[At3(k)[1]] = Null THEN [i \in 0 .. Interior - 1 |-> Null]
                                     ELSE t[At3(k)[1]]
      leaf == IF node[At3(k)[2]] = Null THEN [i \in 0 .. Leaf3 - 1 |-> Null]
                                        ELSE node[At3(k)[2]]
  IN  [t EXCEPT ![At3(k)[1]] = [node EXCEPT ![At3(k)[2]] = leaf]]

Set3(t, k, v) ==
  [Ensure3(t, k) EXCEPT ![At3(k)[1]][At3(k)[2]][At3(k)[3]] = v]

-----------------------------------------------------------------------------
(* Ensure(start, count) steps from leaf to leaf, until a page has no place *)
(* in a tree of so many leaves; these are the leaves it still goes to when *)
(* it is at page `key'.                                                    *)
Visits(leafLength, leaves, start, count) ==
  LET last == start + count - 1
      Leaves[key \in 0 .. last + leafLength] ==
        IF key > last \/ key \div leafLength >= leaves THEN {}
        ELSE {key \div leafLength} \cup Leaves[((key \div leafLength) + 1) * leafLength]
  IN  Leaves[start]

-----------------------------------------------------------------------------
(* No two page numbers share a place in a tree, and each has one. *)
PlacesExact(k) ==
  /\ At2(k)[1] \in 0 .. Root - 1 /\ At2(k)[2] \in 0 .. Leaf2 - 1
  /\ At2(k)[1] * Leaf2 + At2(k)[2] = k
  /\ At3(k)[1] \in 0 .. Interior - 1
  /\ At3(k)[2] \in 0 .. Interior - 1
  /\ At3(k)[3] \in 0 .. Leaf3 - 1
  /\ (At3(k)[1] * Interior + At3(k)[2]) * Leaf3 + At3(k)[3] = k

(* Ensure allocates the leaf of every page it is asked for that the tree   *)
(* has a leaf for, and no other.                                           *)
EnsureExact(leafLength, leaves, start, count) ==
  Visits(leafLength, leaves, start, count) =
    {key \div leafLength : key \in start .. start + count - 1} \cap 0 .. leaves - 1
=============================================================================
