----------------------------- MODULE ListLemmas -----------------------------
(***************************************************************************)
(* Linked lists as sequences: what pushing, popping, cutting off a batch   *)
(* and joining two lists do to the set of things on them.  Sums and folds, *)
(* by induction on the subsets of a finite set.                            *)
(***************************************************************************)
EXTENDS Integers, Sequences, SequencesExt, FiniteSetTheorems, SequenceTheorems,
        WellFoundedInduction, TLAPS

(* What is on a list is what it has at some place. *)
LEMMA OnList ==
  ASSUME NEW S, NEW q \in Seq(S)
  PROVE  /\ \A x : x \in ToSet(q) <=> \E i \in 1 .. Len(q) : q[i] = x
         /\ ToSet(q) \subseteq S
         /\ Len(q) \in Nat
         /\ DOMAIN q = 1 .. Len(q)
<1>1. Len(q) \in Nat /\ DOMAIN q = 1 .. Len(q)
  BY LenProperties
<1>2. \A x : x \in ToSet(q) <=> \E i \in 1 .. Len(q) : q[i] = x
  BY <1>1 DEF ToSet
<1>3. \A i \in 1 .. Len(q) : q[i] \in S
  BY ElementOfSeq
<1> QED  BY <1>1, <1>2, <1>3

(* The empty list, and any other. *)
LEMMA EmptyList ==
  /\ ToSet(<<>>) = {}
  /\ IsInjective(<<>>)
  /\ Len(<<>>) = 0
  /\ \A S : <<>> \in Seq(S)
  /\ \A S : \A q \in Seq(S) : /\ q # <<>> <=> Len(q) > 0
                              /\ q # <<>> <=> ToSet(q) # {}
<1>1. Len(<<>>) = 0 /\ \A S : <<>> \in Seq(S)
  BY EmptySeq
<1>2. DOMAIN <<>> = {}
  <2>1. DOMAIN <<>> = 1 .. 0
    BY <1>1, LenProperties
  <2> QED  BY <2>1
<1>3. ToSet(<<>>) = {}
  BY <1>2 DEF ToSet
<1>4. IsInjective(<<>>)
  BY <1>2, Zenon DEF IsInjective
<1>5. ASSUME NEW S, NEW q \in Seq(S)
      PROVE  (q # <<>> <=> Len(q) > 0) /\ (q # <<>> <=> ToSet(q) # {})
  <2>1. Len(q) \in Nat /\ (Len(q) = 0 <=> q = <<>>)
    BY EmptySeq, LenProperties
  <2>2. Len(q) > 0 => q[1] \in ToSet(q)
    BY <2>1, OnList
  <2> QED  BY <1>3, <2>1, <2>2
<1> QED  BY <1>1, <1>3, <1>4, <1>5

(* A function of nothing is the empty list. *)
LEMMA EmptyFunction ==
  ASSUME NEW f, DOMAIN f = {}, f = [x \in DOMAIN f |-> f[x]]
  PROVE  f = <<>>
<1>1. f \in [1 .. 0 -> {}]
  OBVIOUS
<1>2. f \in Seq({}) /\ Len(f) = 0
  BY <1>1, SeqDef, LenProperties
<1> QED  BY <1>2, EmptySeq

(* What stands at a place is on the list. *)
LEMMA Placed ==
  ASSUME NEW S, NEW q \in Seq(S), NEW i \in 1 .. Len(q)
  PROVE  q[i] \in ToSet(q)
BY OnList

(* PushFront. *)
LEMMA Pushed ==
  ASSUME NEW S, NEW q \in Seq(S), NEW x \in S
  PROVE  /\ <<x>> \o q \in Seq(S)
         /\ Len(<<x>> \o q) = Len(q) + 1
         /\ Head(<<x>> \o q) = x
         /\ <<x>> \o q # <<>>
         /\ ToSet(<<x>> \o q) = ToSet(q) \cup {x}
         /\ IsInjective(q) /\ x \notin ToSet(q) => IsInjective(<<x>> \o q)
<1> DEFINE r == <<x>> \o q
<1>1. /\ r \in Seq(S) /\ Len(r) = Len(q) + 1 /\ r[1] = x /\ Len(q) \in Nat
      /\ \A i \in 1 .. Len(q) : r[i + 1] = q[i]
      /\ Head(r) = x /\ r # <<>>
  OBVIOUS
<1> HIDE DEF r
<1>2. DOMAIN r = 1 .. Len(q) + 1 /\ DOMAIN q = 1 .. Len(q)
  BY <1>1, LenProperties
<1>3. \A i \in 1 .. Len(q) + 1 : i = 1 \/ (i - 1 \in 1 .. Len(q) /\ r[i] = q[i - 1])
  <2> TAKE i \in 1 .. Len(q) + 1
  <2>1. CASE i # 1
    <3>1. i - 1 \in 1 .. Len(q) /\ (i - 1) + 1 = i
      BY <1>1, <2>1
    <3> QED  BY <1>1, <3>1
  <2> QED  BY <2>1
<1>4. ToSet(r) = ToSet(q) \cup {x}
  <2>1. ASSUME NEW y \in ToSet(r) PROVE y \in ToSet(q) \cup {x}
    <3>1. PICK i \in 1 .. Len(q) + 1 : r[i] = y  BY <1>1, OnList
    <3>2. CASE i = 1  BY <1>1, <3>1, <3>2
    <3>3. CASE i - 1 \in 1 .. Len(q) /\ y = q[i - 1]  BY <3>3, Placed
    <3> QED  BY <1>3, <3>1, <3>2, <3>3
  <2>2. ASSUME NEW y \in ToSet(q) PROVE y \in ToSet(r)
    <3>1. PICK i \in 1 .. Len(q) : q[i] = y  BY OnList
    <3>2. i + 1 \in 1 .. Len(r) /\ r[i + 1] = y  BY <1>1, <3>1
    <3>3. r \in Seq(S)  BY <1>1
    <3> QED  BY <3>2, <3>3, Placed, ZenonT(20)
  <2>3. x \in ToSet(r)
    <3>1. 1 \in 1 .. Len(r)  BY <1>1
    <3> QED  BY <1>1, <3>1, OnList
  <2> QED  BY <2>1, <2>2, <2>3
<1>5. ASSUME IsInjective(q), x \notin ToSet(q), NEW i \in DOMAIN r, NEW j \in DOMAIN r,
             r[i] = r[j]
      PROVE  i = j
  <2>1. CASE i = 1 /\ j # 1
    BY <1>1, <1>2, <1>3, <1>5, <2>1, OnList
  <2>2. CASE i # 1 /\ j = 1
    BY <1>1, <1>2, <1>3, <1>5, <2>2, OnList
  <2>3. CASE i # 1 /\ j # 1
    <3>1. i - 1 \in DOMAIN q /\ j - 1 \in DOMAIN q /\ q[i - 1] = q[j - 1]
      BY <1>2, <1>3, <1>5, <2>3
    <3>2. i - 1 = j - 1
      BY <1>5, <3>1, Zenon DEF IsInjective
    <3> QED  BY <1>1, <1>2, <3>2
  <2> QED  BY <2>1, <2>2, <2>3
<1>6. IsInjective(q) /\ x \notin ToSet(q) => IsInjective(r)
  BY <1>5, Zenon DEF IsInjective
<1> QED  BY <1>1, <1>4, <1>6 DEF r

(* A batch cut off the front, and what it leaves. *)
LEMMA CutOff ==
  ASSUME NEW S, NEW q \in Seq(S), NEW k \in 0 .. Len(q)
  PROVE  /\ SubSeq(q, 1, k) \in Seq(S) /\ Len(SubSeq(q, 1, k)) = k
         /\ SubSeq(q, k + 1, Len(q)) \in Seq(S)
         /\ Len(SubSeq(q, k + 1, Len(q))) = Len(q) - k
         /\ ToSet(q) = ToSet(SubSeq(q, 1, k)) \cup ToSet(SubSeq(q, k + 1, Len(q)))
         /\ IsInjective(q) => /\ IsInjective(SubSeq(q, 1, k))
                              /\ IsInjective(SubSeq(q, k + 1, Len(q)))
                              /\ ToSet(SubSeq(q, 1, k)) \cap
                                   ToSet(SubSeq(q, k + 1, Len(q))) = {}
<1> DEFINE a == SubSeq(q, 1, k)
           b == SubSeq(q, k + 1, Len(q))
<1>1. Len(q) \in Nat /\ k \in Nat /\ k <= Len(q) /\ DOMAIN q = 1 .. Len(q)
  BY LenProperties
<1>2. /\ a \in Seq(S) /\ Len(a) = k /\ \A i \in 1 .. k : a[i] = q[i]
      /\ b \in Seq(S) /\ Len(b) = Len(q) - k
      /\ \A i \in 1 .. Len(q) - k : b[i] = q[i + k]
  <2>1. a \in Seq(S) /\ Len(a) = k /\ \A i \in 1 .. k : a[i] = q[i]
    BY <1>1
  <2>2. b \in Seq(S) /\ Len(b) = Len(q) - k
    <3> HIDE DEF a
    <3>1. k + 1 \in Int /\ Len(q) \in Int /\ \A i \in k + 1 .. Len(q) : q[i] \in S
      BY <1>1, ElementOfSeq
    <3>2. /\ b \in Seq(S)
          /\ Len(b) = IF k + 1 <= Len(q) THEN Len(q) - (k + 1) + 1 ELSE 0
      BY <3>1, SubSeqProperties
    <3>3. ASSUME NEW x \in Nat, NEW y \in Nat, x <= y
          PROVE  y - (x + 1) + 1 = y - x /\ (~(x + 1 <= y) => y - x = 0)
      BY <3>3
    <3> HIDE DEF b
    <3>4. Len(q) - (k + 1) + 1 = Len(q) - k /\ (~(k + 1 <= Len(q)) => Len(q) - k = 0)
      BY <1>1, <3>3, Zenon
    <3> QED  BY <3>2, <3>4, Zenon
  <2>3. \A i \in 1 .. Len(q) - k : b[i] = q[i + k]
    BY <1>1
  <2> QED  BY <2>1, <2>2, <2>3
<1> HIDE DEF a, b
<1>3. ToSet(a) \cup ToSet(b) \subseteq ToSet(q)
  <2>1. ASSUME NEW x \in ToSet(a) PROVE x \in ToSet(q)
    <3>1. PICK i \in 1 .. k : a[i] = x  BY <1>2, OnList
    <3>2. i \in 1 .. Len(q) /\ q[i] = x  BY <1>1, <1>2, <3>1
    <3> QED  BY <3>2, Placed
  <2>2. ASSUME NEW x \in ToSet(b) PROVE x \in ToSet(q)
    <3>1. PICK i \in 1 .. Len(q) - k : b[i] = x  BY <1>2, OnList
    <3>2. i + k \in 1 .. Len(q) /\ q[i + k] = x  BY <1>1, <1>2, <3>1
    <3> QED  BY <3>2, Placed
  <2> QED  BY <2>1, <2>2
<1>4. ASSUME NEW x \in ToSet(q) PROVE x \in ToSet(a) \cup ToSet(b)
  <2>1. PICK i \in 1 .. Len(q) : q[i] = x
    BY OnList
  <2>2. CASE i <= k
    <3>1. i \in 1 .. k /\ a[i] = x  BY <1>1, <1>2, <2>1, <2>2
    <3> QED  BY <1>2, <3>1, OnList
  <2>3. CASE i > k
    <3>1. i - k \in 1 .. Len(q) - k /\ (i - k) + k = i  BY <1>1, <2>3
    <3>2. b[i - k] = x  BY <1>2, <2>1, <3>1
    <3> QED  BY <1>2, <3>1, <3>2, OnList
  <2> QED  BY <1>1, <2>2, <2>3
<1>5. ASSUME IsInjective(q) PROVE IsInjective(a)
  <2>1. ASSUME NEW i \in DOMAIN a, NEW j \in DOMAIN a, a[i] = a[j] PROVE i = j
    <3>1. DOMAIN a = 1 .. k  BY <1>2, LenProperties
    <3>2. i \in DOMAIN q /\ j \in DOMAIN q /\ q[i] = q[j]  BY <1>1, <1>2, <2>1, <3>1
    <3> QED  BY <1>5, <3>2, Zenon DEF IsInjective
  <2> QED  BY <2>1, Zenon DEF IsInjective
<1>6. ASSUME IsInjective(q) PROVE IsInjective(b)
  <2>1. ASSUME NEW i \in DOMAIN b, NEW j \in DOMAIN b, b[i] = b[j] PROVE i = j
    <3>1. DOMAIN b = 1 .. Len(q) - k  BY <1>2, LenProperties
    <3>2. i + k \in DOMAIN q /\ j + k \in DOMAIN q /\ q[i + k] = q[j + k]
      BY <1>1, <1>2, <2>1, <3>1
    <3>3. i + k = j + k  BY <1>6, <3>2, Zenon DEF IsInjective
    <3> QED  BY <1>1, <3>1, <3>3
  <2> QED  BY <2>1, Zenon DEF IsInjective
<1>7. ASSUME IsInjective(q), NEW x \in ToSet(a), x \in ToSet(b) PROVE FALSE
  <2>1. PICK i \in 1 .. k : q[i] = x
    BY <1>2, OnList
  <2>2. PICK j \in 1 .. Len(q) - k : q[j + k] = x
    <3>1. PICK j \in 1 .. Len(q) - k : b[j] = x  BY <1>2, <1>7, OnList
    <3> QED  BY <1>2, <3>1
  <2>3. i \in DOMAIN q /\ j + k \in DOMAIN q /\ q[i] = q[j + k]
    BY <1>1, <2>1, <2>2
  <2>4. i = j + k
    BY <1>7, <2>3, Zenon DEF IsInjective
  <2> QED  BY <1>1, <2>4
<1> QED  BY <1>2, <1>3, <1>4, <1>5, <1>6, <1>7 DEF a, b

(* PopFront. *)
LEMMA Popped ==
  ASSUME NEW S, NEW q \in Seq(S), q # <<>>
  PROVE  /\ Head(q) \in ToSet(q) /\ Head(q) \in S
         /\ Tail(q) \in Seq(S) /\ Len(Tail(q)) = Len(q) - 1
         /\ ToSet(q) = ToSet(Tail(q)) \cup {Head(q)}
         /\ IsInjective(q) => IsInjective(Tail(q)) /\ Head(q) \notin ToSet(Tail(q))
<1> DEFINE r == Tail(q)
           h == Head(q)
<1>1. /\ Len(q) \in Nat /\ Len(q) > 0 /\ h = q[1] /\ r \in Seq(S)
      /\ Len(r) = Len(q) - 1
      /\ \A i \in 1 .. Len(q) - 1 : r[i] = q[i + 1]
  OBVIOUS
<1> HIDE DEF r, h
<1>2. /\ 1 \in 1 .. Len(q) /\ DOMAIN q = 1 .. Len(q)
      /\ DOMAIN r = 1 .. Len(q) - 1
  BY <1>1, LenProperties
<1>3. h \in ToSet(q) /\ h \in S
  BY <1>1, <1>2, OnList
<1>4. ASSUME NEW x \in ToSet(r) PROVE x \in ToSet(q)
  <2>1. PICK i \in 1 .. Len(q) - 1 : r[i] = x  BY <1>1, OnList
  <2>2. i + 1 \in 1 .. Len(q) /\ q[i + 1] = x  BY <1>1, <2>1
  <2> QED  BY <2>2, Placed
<1>5. ASSUME NEW x \in ToSet(q) PROVE x = h \/ x \in ToSet(r)
  <2>1. PICK i \in 1 .. Len(q) : q[i] = x
    BY OnList
  <2>2. CASE i # 1
    <3>1. i - 1 \in 1 .. Len(q) - 1 /\ (i - 1) + 1 = i  BY <1>1, <2>2
    <3>2. i - 1 \in 1 .. Len(r) /\ r[i - 1] = x  BY <1>1, <2>1, <3>1
    <3> QED  BY <1>1, <3>2, Placed
  <2> QED  BY <1>1, <2>1, <2>2
<1>6. ASSUME IsInjective(q) PROVE IsInjective(r)
  <2>1. ASSUME NEW i \in DOMAIN r, NEW j \in DOMAIN r, r[i] = r[j] PROVE i = j
    <3>1. i + 1 \in DOMAIN q /\ j + 1 \in DOMAIN q /\ q[i + 1] = q[j + 1]
      BY <1>1, <1>2, <2>1
    <3>2. i + 1 = j + 1  BY <1>6, <3>1, Zenon DEF IsInjective
    <3> QED  BY <1>1, <1>2, <3>2
  <2> QED  BY <2>1, Zenon DEF IsInjective
<1>7. ASSUME IsInjective(q), h \in ToSet(r) PROVE FALSE
  <2>1. PICK i \in 1 .. Len(q) - 1 : r[i] = h
    BY <1>1, <1>7, OnList
  <2>2. i + 1 \in DOMAIN q /\ 1 \in DOMAIN q /\ q[i + 1] = q[1]
    BY <1>1, <1>2, <2>1
  <2>3. i + 1 = 1
    BY <1>7, <2>2, Zenon DEF IsInjective
  <2> QED  BY <2>3
<1>8. ToSet(q) = ToSet(r) \cup {h}
  BY <1>3, <1>4, <1>5
<1> QED  BY <1>1, <1>3, <1>6, <1>7, <1>8 DEF r, h

(* PushRange. *)
LEMMA Joined ==
  ASSUME NEW S, NEW p \in Seq(S), NEW q \in Seq(S)
  PROVE  /\ p \o q \in Seq(S) /\ Len(p \o q) = Len(p) + Len(q)
         /\ ToSet(p \o q) = ToSet(p) \cup ToSet(q)
         /\ IsInjective(p) /\ IsInjective(q) /\ ToSet(p) \cap ToSet(q) = {} =>
              IsInjective(p \o q)
<1> DEFINE r == p \o q
<1>1. /\ r \in Seq(S) /\ Len(r) = Len(p) + Len(q) /\ Len(p) \in Nat /\ Len(q) \in Nat
      /\ \A i \in 1 .. Len(p) + Len(q) : r[i] = IF i <= Len(p) THEN p[i] ELSE q[i - Len(p)]
  BY ConcatProperties, LenProperties
<1> HIDE DEF r
<1>2. /\ DOMAIN p = 1 .. Len(p) /\ DOMAIN q = 1 .. Len(q)
      /\ DOMAIN r = 1 .. Len(p) + Len(q)
  BY <1>1, LenProperties
<1>3. /\ \A i \in 1 .. Len(p) : i \in 1 .. Len(r) /\ r[i] = p[i]
      /\ \A i \in 1 .. Len(q) : i + Len(p) \in 1 .. Len(r) /\ r[i + Len(p)] = q[i]
  <2>1. ASSUME NEW i \in 1 .. Len(p) PROVE i \in 1 .. Len(r) /\ r[i] = p[i]
    BY <1>1
  <2>2. ASSUME NEW i \in 1 .. Len(q)
        PROVE  i + Len(p) \in 1 .. Len(r) /\ r[i + Len(p)] = q[i]
    <3>1. /\ i + Len(p) \in 1 .. Len(p) + Len(q) /\ ~(i + Len(p) <= Len(p))
          /\ (i + Len(p)) - Len(p) = i
      BY <1>1
    <3> QED  BY <1>1, <3>1
  <2> QED  BY <2>1, <2>2
<1>4. ASSUME NEW i \in 1 .. Len(r)
      PROVE  \/ i \in 1 .. Len(p) /\ r[i] = p[i]
             \/ i - Len(p) \in 1 .. Len(q) /\ r[i] = q[i - Len(p)] /\ i > Len(p)
  BY <1>1
<1>5. ToSet(r) = ToSet(p) \cup ToSet(q)
  <2>1. ASSUME NEW x \in ToSet(r) PROVE x \in ToSet(p) \cup ToSet(q)
    BY <1>1, <1>4, OnList, SMTT(20)
  <2>2. ASSUME NEW x \in ToSet(p) PROVE x \in ToSet(r)
    <3>1. PICK i \in 1 .. Len(p) : p[i] = x  BY OnList
    <3> QED  BY <1>1, <1>3, <3>1, Placed
  <2>3. ASSUME NEW x \in ToSet(q) PROVE x \in ToSet(r)
    <3>1. PICK i \in 1 .. Len(q) : q[i] = x  BY OnList
    <3>2. i + Len(p) \in 1 .. Len(r) /\ r[i + Len(p)] = x  BY <1>3, <3>1
    <3> QED  BY <1>1, <3>2, Placed
  <2> QED  BY <2>1, <2>2, <2>3
<1>6. ASSUME IsInjective(p), IsInjective(q), ToSet(p) \cap ToSet(q) = {},
             NEW i \in 1 .. Len(r), NEW j \in 1 .. Len(r), r[i] = r[j]
      PROVE  i = j
  <2>1. CASE i \in 1 .. Len(p) /\ r[i] = p[i] /\ j \in 1 .. Len(p) /\ r[j] = p[j]
    <3>1. i \in DOMAIN p /\ j \in DOMAIN p /\ p[i] = p[j]  BY <1>2, <1>6, <2>1
    <3> QED  BY <1>6, <3>1, Zenon DEF IsInjective
  <2>2. CASE /\ i - Len(p) \in 1 .. Len(q) /\ r[i] = q[i - Len(p)]
             /\ j - Len(p) \in 1 .. Len(q) /\ r[j] = q[j - Len(p)]
    <3>1. i - Len(p) \in DOMAIN q /\ j - Len(p) \in DOMAIN q
          /\ q[i - Len(p)] = q[j - Len(p)]
      BY <1>2, <1>6, <2>2
    <3>2. i - Len(p) = j - Len(p)
      BY <1>6, <3>1, Zenon DEF IsInjective
    <3> QED  BY <1>1, <3>2
  <2>3. CASE i \in 1 .. Len(p) /\ r[i] = p[i]
             /\ j - Len(p) \in 1 .. Len(q) /\ r[j] = q[j - Len(p)]
    <3>1. r[i] \in ToSet(p) /\ r[j] \in ToSet(q)  BY <2>3, OnList
    <3> QED  BY <1>6, <3>1
  <2>4. CASE j \in 1 .. Len(p) /\ r[j] = p[j]
             /\ i - Len(p) \in 1 .. Len(q) /\ r[i] = q[i - Len(p)]
    <3>1. r[j] \in ToSet(p) /\ r[i] \in ToSet(q)  BY <2>4, OnList
    <3> QED  BY <1>6, <3>1
  <2> QED  BY <1>4, <2>1, <2>2, <2>3, <2>4
<1>7. IsInjective(p) /\ IsInjective(q) /\ ToSet(p) \cap ToSet(q) = {} => IsInjective(r)
  BY <1>1, <1>2, <1>6, Zenon DEF IsInjective
<1> QED  BY <1>1, <1>5, <1>7 DEF r

(* A list without repetition has as many things on it as it is long. *)
LEMMA HowMany ==
  ASSUME NEW S, NEW q \in Seq(S), IsInjective(q)
  PROVE  IsFiniteSet(ToSet(q)) /\ Cardinality(ToSet(q)) = Len(q)
<1>1. Len(q) \in Nat /\ DOMAIN q = 1 .. Len(q)
  BY LenProperties
<1>2. q \in Bijection(1 .. Len(q), ToSet(q))
  <2>1. q \in [1 .. Len(q) -> ToSet(q)]
    BY <1>1, OnList, SeqDef
  <2>2. \A i, j \in 1 .. Len(q) : q[i] = q[j] => i = j
    BY <1>1, Zenon DEF IsInjective
  <2>3. \A x \in ToSet(q) : \E i \in 1 .. Len(q) : q[i] = x
    BY OnList
  <2> QED  BY <2>1, <2>2, <2>3 DEF Bijection, Injection, Surjection, IsInjective
<1>3. IsFiniteSet(1 .. Len(q)) /\ Cardinality(1 .. Len(q)) = Len(q)
  BY <1>1, FS_Interval, SMTT(20)
<1> QED  BY <1>2, <1>3, FS_Bijection DEF ExistsBijection

-----------------------------------------------------------------------------
(* Induction, with sets in the place of predicates *)

(* A set of numbers that is not empty has a least one. *)
LEMMA LeastNumber ==
  ASSUME NEW T, T \subseteq Nat, T # {}
  PROVE  \E x \in T : \A y \in T : x <= y
<1>1. PICK R : R = OpToRel(<, Nat)
  BY Zenon
<1>2. PICK x \in T : \A y \in T : ~(<<y, x>> \in R)
  BY <1>1, NatLessThanWellFounded, WFMin, Zenon
<1>3. R = {ss \in Nat \X Nat : ss[1] < ss[2]}
  BY <1>1, Zenon DEF OpToRel
<1>4. ASSUME NEW y \in T PROVE x <= y
  <2>1. x \in Nat /\ y \in Nat
    OBVIOUS
  <2>2. <<y, x>> \in Nat \X Nat /\ <<y, x>>[1] = y /\ <<y, x>>[2] = x
    BY <2>1
  <2>3. ~(y < x)
    BY <1>2, <1>3, <2>1, <2>2
  <2> QED  BY <2>1, <2>3
<1> QED  BY <1>4

(* A set of finite sets that has each one whose smaller subsets it has has *)
(* them all.                                                               *)
LEMMA SubsetInduction ==
  ASSUME NEW S, IsFiniteSet(S), NEW G,
         \A s \in SUBSET S : (\A r \in SUBSET S : r \subseteq s /\ r # s => r \in G)
                               => s \in G
  PROVE  SUBSET S \subseteq G
<1> DEFINE Bad == (SUBSET S) \ G
           Counts == {Cardinality(s) : s \in Bad}
<1>1. \A s \in SUBSET S : IsFiniteSet(s) /\ Cardinality(s) \in Nat
  BY FS_Subset, FS_CardinalityType
<1> SUFFICES ASSUME Bad # {} PROVE FALSE
  OBVIOUS
<1>2. Counts \subseteq Nat /\ Counts # {}
  BY <1>1
<1> HIDE DEF Counts
<1>3. PICK m \in Counts : \A x \in Counts : m <= x
  BY <1>2, LeastNumber, Zenon
<1>4. PICK s \in Bad : m = Cardinality(s)
  BY DEF Counts
<1>5. ASSUME NEW r \in SUBSET S, r \subseteq s, r # s PROVE r \in G
  <2>1. Cardinality(r) <= Cardinality(s) /\ Cardinality(r) # Cardinality(s)
    BY <1>1, <1>5, FS_Subset
  <2>2. r \notin Bad
    <3>1. ASSUME r \in Bad PROVE FALSE
      <4>1. Cardinality(r) \in Counts
        BY <3>1 DEF Counts
      <4>2. Cardinality(s) <= Cardinality(r)
        BY <1>3, <1>4, <4>1
      <4> QED  BY <1>1, <2>1, <4>2
    <3> QED  BY <3>1
  <2> QED  BY <2>2
<1> QED  BY <1>4, <1>5

(* Places have a last one. *)
LEMMA LastPlace ==
  ASSUME NEW k \in Nat, NEW s \in SUBSET (1 .. k), s # {}
  PROVE  Max(s) \in s /\ \A x \in s : x <= Max(s)
<1> DEFINE Back == {k - x : x \in s}
<1>1. Back \subseteq Nat
  OBVIOUS
<1>2. Back # {}
  <2>1. PICK x \in s : TRUE
    OBVIOUS
  <2>2. k - x \in Back
    BY <2>1
  <2> QED  BY <2>2
<1>3. PICK m \in Back : \A b \in Back : m <= b
  BY <1>1, <1>2, LeastNumber, Zenon
<1>4. PICK x \in s : m = k - x
  OBVIOUS
<1>5. ASSUME NEW y \in s PROVE y <= x
  <2>1. k - y \in Back
    OBVIOUS
  <2>2. k - x <= k - y
    BY <1>3, <1>4, <2>1
  <2> QED  BY <2>2
<1>6. \E z \in s : \A y \in s : z >= y
  BY <1>5
<1>7. Max(s) \in s /\ \A y \in s : Max(s) >= y
  BY <1>6, Zenon DEF Max
<1> QED  BY <1>7

(* Two folds from left to right agree when each of their steps does.       *)
LEMMA FoldsAgree ==
  ASSUME NEW k \in Nat, NEW f, NEW g, f[{}] = g[{}],
         \A s \in SUBSET (1 .. k) :
           s # {} /\ f[s \ {Max(s)}] = g[s \ {Max(s)}] => f[s] = g[s]
  PROVE  f[1 .. k] = g[1 .. k]
<1>0. PICK D : D = 1 .. k
  OBVIOUS
<1> DEFINE G == {s \in SUBSET D : f[s] = g[s]}
<1>1. ASSUME NEW s \in SUBSET D,
             \A r \in SUBSET D : r \subseteq s /\ r # s => r \in G
      PROVE  s \in G
  <2>1. CASE s = {}
    BY <2>1
  <2>2. CASE s # {}
    <3>1. Max(s) \in s
      BY <1>0, <2>2, LastPlace
    <3>2. s \ {Max(s)} \in G
      BY <1>1, <3>1
    <3> QED  BY <1>0, <2>2, <3>2
  <2> QED  BY <2>1, <2>2
<1>2. IsFiniteSet(D)
  BY <1>0, k \in Int, 1 \in Int, FS_Interval, Zenon
<1> HIDE DEF G
<1>3. SUBSET D \subseteq G
  BY <1>1, <1>2, SubsetInduction
<1> QED  BY <1>0, <1>3 DEF G

-----------------------------------------------------------------------------
(* Sums *)

(* As many units for each of s as h says: their number is the sum.         *)
Units(h, s) == {u \in s \X Nat : 1 <= u[2] /\ u[2] <= h[u[1]]}

(* Any of s may be taken last. *)
LEMMA OneMore ==
  ASSUME NEW S, IsFiniteSet(S), NEW h \in [S -> Nat]
  PROVE  /\ Cardinality(Units(h, {})) = 0
         /\ \A s \in SUBSET S :
              /\ Cardinality(Units(h, s)) \in Nat
              /\ Cardinality(Units(h, s)) = 0 <=> \A x \in s : h[x] = 0
              /\ \A x \in s : Cardinality(Units(h, s))
                                = h[x] + Cardinality(Units(h, s \ {x}))
<1> DEFINE Fin(s) == IsFiniteSet(Units(h, s)) /\ Cardinality(Units(h, s)) \in Nat
           Of(x) == {x} \X (1 .. h[x])
<1>1. Units(h, {}) = {}
  BY DEF Units
<1>2. ASSUME NEW x \in S
      PROVE  IsFiniteSet(Of(x)) /\ Cardinality(Of(x)) = h[x]
  <2>1. h[x] \in Nat
    OBVIOUS
  <2>2. IsFiniteSet(1 .. h[x]) /\ Cardinality(1 .. h[x]) = h[x]
    BY <2>1, FS_Interval
  <2>3. IsFiniteSet({x}) /\ Cardinality({x}) = 1
    BY FS_Singleton
  <2>4. IsFiniteSet(Of(x)) /\ Cardinality(Of(x)) = Cardinality({x}) * Cardinality(1 .. h[x])
    BY <2>2, <2>3, FS_Product, Zenon
  <2> QED  BY <2>1, <2>2, <2>3, <2>4
<1>3. ASSUME NEW s \in SUBSET S, NEW x \in s
      PROVE  /\ Units(h, s) = Units(h, s \ {x}) \cup Of(x)
             /\ Units(h, s \ {x}) \cap Of(x) = {}
  <2>0. h[x] \in Nat
    OBVIOUS
  <2>1. ASSUME NEW u \in Units(h, s) PROVE u \in Units(h, s \ {x}) \cup Of(x)
    BY <2>0, <2>1 DEF Units
  <2>2. ASSUME NEW u \in Units(h, s \ {x}) PROVE u \in Units(h, s) /\ u \notin Of(x)
    BY <2>2 DEF Units
  <2>3. ASSUME NEW u \in Of(x) PROVE u \in Units(h, s)
    BY <2>0, <2>3 DEF Units
  <2> QED  BY <2>1, <2>2, <2>3
<1>4. ASSUME NEW s \in SUBSET S, NEW x \in s, Fin(s \ {x})
      PROVE  /\ Fin(s)
             /\ Cardinality(Units(h, s)) = h[x] + Cardinality(Units(h, s \ {x}))
  <2>1. PICK a, b, c : /\ a = Units(h, s \ {x}) /\ b = Of(x) /\ c = Units(h, s)
    OBVIOUS
  <2>2. IsFiniteSet(a) /\ IsFiniteSet(b) /\ c = a \cup b /\ a \cap b = {}
    BY <1>2, <1>3, <1>4, <2>1
  <2>3. /\ IsFiniteSet(c)
        /\ Cardinality(c) = Cardinality(a) + Cardinality(b) - Cardinality({})
    BY <2>2, FS_Union
  <2>4. Cardinality({}) = 0 /\ Cardinality(b) = h[x] /\ h[x] \in Nat
    BY <1>2, <2>1, FS_EmptySet
  <2> QED  BY <1>4, <2>1, <2>3, <2>4
<1> DEFINE G == {s \in SUBSET S : Fin(s)}
<1>5. ASSUME NEW s \in SUBSET S,
             \A r \in SUBSET S : r \subseteq s /\ r # s => r \in G
      PROVE  s \in G
  <2>1. CASE s = {}
    BY <1>1, <2>1, FS_EmptySet
  <2>2. CASE s # {}
    <3>1. PICK x \in s : TRUE
      BY <2>2
    <3>2. s \ {x} \in G
      BY <1>5, <3>1
    <3> QED  BY <1>4, <3>1, <3>2
  <2> QED  BY <2>1, <2>2
<1>6. \A s \in SUBSET S : Fin(s)
  <2> HIDE DEF G, Fin
  <2>1. SUBSET S \subseteq G
    BY <1>5, SubsetInduction
  <2> QED  BY <2>1 DEF G
<1>7. ASSUME NEW s \in SUBSET S
      PROVE  Cardinality(Units(h, s)) = 0 <=> \A x \in s : h[x] = 0
  <2>1. Cardinality(Units(h, s)) = 0 <=> Units(h, s) = {}
    BY <1>6, FS_EmptySet
  <2>2. ASSUME NEW x \in s, h[x] # 0 PROVE Units(h, s) # {}
    <3>1. <<x, 1>> \in Units(h, s)
      BY <2>2 DEF Units
    <3> QED  BY <3>1
  <2>3. ASSUME NEW u \in Units(h, s) PROVE u[1] \in s /\ h[u[1]] # 0
    BY <2>3 DEF Units
  <2> QED  BY <2>1, <2>2, <2>3
<1>8. Cardinality(Units(h, {})) = 0
  BY <1>1, FS_EmptySet
<1> QED  BY <1>4, <1>6, <1>7, <1>8

(* The same, of one. *)
Adds(h, s, x) == Cardinality(Units(h, s)) = h[x] + Cardinality(Units(h, s \ {x}))
LEMMA OneTaken ==
  ASSUME NEW S, IsFiniteSet(S), NEW h \in [S -> Nat],
         NEW s \in SUBSET S, NEW x \in s
  PROVE  Adds(h, s, x)
BY OneMore DEF Adds

(* The community modules' sum, whichever it takes next. *)
LEMMA Summed ==
  ASSUME NEW S, IsFiniteSet(S), NEW h \in [S -> Nat], NEW f,
         f = CHOOSE g : g = [s \in SUBSET S |->
               IF s = {} THEN 0
               ELSE h[CHOOSE x \in s : TRUE] + g[s \ {CHOOSE x \in s : TRUE}]]
  PROVE  f[S] = Cardinality(Units(h, S))
<1> DEFINE Pick(s) == CHOOSE x \in s : TRUE
           Turn(g) == [s \in SUBSET S |->
                         IF s = {} THEN 0 ELSE h[Pick(s)] + g[s \ {Pick(s)}]]
           sum == [s \in SUBSET S |-> Cardinality(Units(h, s))]
<1>1. \A s \in SUBSET S : s # {} => Pick(s) \in s
  OBVIOUS
<1>2. ASSUME NEW s \in SUBSET S
      PROVE  Cardinality(Units(h, s))
               = IF s = {} THEN 0 ELSE h[Pick(s)] + sum[s \ {Pick(s)}]
  <2>1. CASE s = {}
    BY <2>1, OneMore
  <2>2. CASE s # {}
    <3>1. PICK x : x = Pick(s)
      OBVIOUS
    <3>2. x \in s /\ s \ {x} \in SUBSET S
      BY <1>1, <2>2, <3>1
    <3>3. Cardinality(Units(h, s)) = h[x] + Cardinality(Units(h, s \ {x}))
      BY <3>2, OneMore
    <3>4. sum[s \ {x}] = Cardinality(Units(h, s \ {x}))
      BY <3>2
    <3> QED  BY <2>2, <3>1, <3>3, <3>4
  <2> QED  BY <2>1, <2>2
<1>3. sum = Turn(sum)
  BY <1>2, Zenon
<1>4. f = Turn(f)
  <2>1. f = CHOOSE g : g = Turn(g)
    OBVIOUS
  <2> HIDE DEF sum, Turn
  <2> QED  BY <1>3, <2>1, Zenon
<1> DEFINE G == {s \in SUBSET S : f[s] = Cardinality(Units(h, s))}
<1>5. ASSUME NEW s \in SUBSET S,
             \A r \in SUBSET S : r \subseteq s /\ r # s => r \in G
      PROVE  s \in G
  <2>1. f[s] = IF s = {} THEN 0 ELSE h[Pick(s)] + f[s \ {Pick(s)}]
    BY <1>4, Zenon
  <2>2. CASE s = {}
    BY <2>1, <2>2, OneMore
  <2>3. CASE s # {}
    <3>1. PICK x : x = Pick(s)
      OBVIOUS
    <3>2. x \in s /\ s \ {x} \in SUBSET S
      BY <1>1, <2>3, <3>1
    <3>3. s \ {x} \in G
      BY <1>5, <3>2
    <3>4. Cardinality(Units(h, s)) = h[x] + Cardinality(Units(h, s \ {x}))
      BY <3>2, OneMore
    <3> QED  BY <2>1, <2>3, <3>1, <3>3, <3>4
  <2> QED  BY <2>2, <2>3
<1> HIDE DEF G
<1>6. SUBSET S \subseteq G
  BY <1>5, SubsetInduction
<1> QED  BY <1>6 DEF G

(* What a thing has as soon as all things below it have it, all have.      *)
LEMMA Descent ==
  ASSUME NEW D, NEW m \in [D -> Nat], NEW G,
         \A x \in D : (\A y \in D : m[y] < m[x] => y \in G) => x \in G
  PROVE  D \subseteq G
<1> DEFINE Bad == D \ G
           Levels == {m[x] : x \in Bad}
<1> SUFFICES ASSUME Bad # {} PROVE FALSE
  OBVIOUS
<1>1. Levels \subseteq Nat /\ Levels # {}
  OBVIOUS
<1> HIDE DEF Levels
<1>2. PICK v \in Levels : \A w \in Levels : v <= w
  BY <1>1, LeastNumber, Zenon
<1>3. PICK x \in Bad : v = m[x]
  BY DEF Levels
<1>4. ASSUME NEW y \in D, m[y] < m[x] PROVE y \in G
  <2>1. CASE y \in Bad
    <3>1. m[y] \in Levels
      BY <2>1 DEF Levels
    <3>2. m[x] <= m[y] /\ m[x] \in Nat /\ m[y] \in Nat
      BY <1>2, <1>3, <3>1
    <3> QED  BY <1>4, <3>2
  <2> QED  BY <2>1
<1> QED  BY <1>3, <1>4

(* step makes of a place and a function what the function is there; it     *)
(* looks only at the places below.                                         *)
LooksBelow(D, R, m, step) ==
  /\ step \in [D \X [D -> R] -> R]
  /\ \A x \in D : \A f, g \in [D -> R] :
       (\A y \in D : m[y] < m[x] => f[y] = g[y]) => step[<<x, f>>] = step[<<x, g>>]
Solution(D, R, step, g) == g \in [D -> R] /\ \A x \in D : g[x] = step[<<x, g>>]

(* A recursive function exists when what it is at a place depends only on  *)
(* what it is at the places below.                                         *)
LEMMA Solved ==
  ASSUME NEW D, NEW R, NEW k \in Nat, NEW m \in [D -> 0 .. k],
         NEW step, LooksBelow(D, R, m, step), NEW r \in R
  PROVE  \E g : Solution(D, R, step, g)
<1>0. PICK start : start = [x \in D |-> r]
  OBVIOUS
<1> DEFINE Upto(v, g) == \A x \in D : m[x] < v => g[x] = step[<<x, g>>]
           N == 0 .. k + 1
           G == {v \in N : \E g \in [D -> R] : Upto(v, g)}
<1>1. ASSUME NEW v \in N, \A w \in N : w < v => w \in G
      PROVE  v \in G
  <2>1. CASE v = 0
    <3>1. Upto(v, start) /\ start \in [D -> R]
      BY <1>0, <2>1
    <3> QED  BY <3>1
  <2>2. CASE v # 0
    <3>1. v - 1 \in G
      <4>1. v - 1 \in N /\ v - 1 < v
        BY <2>2
      <4> HIDE DEF G
      <4> QED  BY <1>1, <4>1
    <3>2. PICK g \in [D -> R] : Upto(v - 1, g)
      BY <3>1
    <3>3. PICK next : next = [x \in D |-> step[<<x, g>>]]
      OBVIOUS
    <3>4. next \in [D -> R]
      <4>1. \A x \in D : <<x, g>> \in D \X [D -> R]
        OBVIOUS
      <4>2. \A x \in D : step[<<x, g>>] \in R
        BY <4>1 DEF LooksBelow
      <4> QED  BY <3>3, <4>2
    <3>5. \A x \in D : m[x] < v - 1 => next[x] = g[x]
      BY <3>2, <3>3
    <3>6. ASSUME NEW x \in D, m[x] < v PROVE next[x] = step[<<x, next>>]
      <4>1. \A y \in D : m[y] < m[x] => g[y] = next[y]
        <5> SUFFICES ASSUME NEW y \in D, m[y] < m[x] PROVE g[y] = next[y]
          OBVIOUS
        <5>1. m[y] \in Int /\ m[x] \in Int /\ v \in Int
          OBVIOUS
        <5>2. m[y] < v - 1
          BY <3>6, <5>1
        <5> QED  BY <3>5, <5>2
      <4>2. step[<<x, g>>] = step[<<x, next>>]
        BY <3>4, <4>1 DEF LooksBelow
      <4> QED  BY <3>3, <4>2
    <3> QED  BY <3>4, <3>6
  <2> QED  BY <2>1, <2>2
<1>2. N \subseteq G
  <2>1. PICK id : id = [v \in N |-> v]
    OBVIOUS
  <2>2. id \in [N -> Nat] /\ \A v \in N : id[v] = v
    BY <2>1
  <2> HIDE DEF G, N
  <2>3. \A v \in N : (\A w \in N : id[w] < id[v] => w \in G) => v \in G
    BY <1>1, <2>2
  <2> QED  BY <2>2, <2>3, Descent
<1>3. PICK g \in [D -> R] : Upto(k + 1, g)
  BY <1>2, k + 1 \in N
<1>4. \A x \in D : m[x] < k + 1
  OBVIOUS
<1> QED  BY <1>3, <1>4 DEF Solution

(* The same along numbers. *)
LEMMA Counting ==
  ASSUME NEW k \in Nat, NEW G, 0 \in G, \A v \in 0 .. k - 1 : v \in G => v + 1 \in G
  PROVE  0 .. k \subseteq G
<1>1. PICK N : N = 0 .. k
  OBVIOUS
<1>2. PICK id : id = [v \in N |-> v]
  OBVIOUS
<1>3. id \in [N -> Nat] /\ \A v \in N : id[v] = v
  BY <1>1, <1>2
<1>4. ASSUME NEW v \in N, \A w \in N : id[w] < id[v] => w \in G
      PROVE  v \in G
  <2>1. CASE v # 0
    <3>1. v - 1 \in 0 .. k - 1 /\ v - 1 \in N /\ v - 1 < v /\ (v - 1) + 1 = v
      BY <1>1, <2>1
    <3>2. v - 1 \in G
      BY <1>3, <1>4, <3>1
    <3> QED  BY <3>1, <3>2
  <2> QED  BY <2>1
<1>5. \A v \in N : (\A w \in N : id[w] < id[v] => w \in G) => v \in G
  BY <1>4
<1>6. N \subseteq G
  BY <1>3, <1>5, Descent
<1> QED  BY <1>1, <1>6

-----------------------------------------------------------------------------
(* FlattenSeq *)

(* Which two of three are joined first does not matter. *)
Grouped(a, b, c) == (a \o b) \o c = a \o (b \o c)
LEMMA Grouping ==
  ASSUME NEW X, NEW a \in Seq(X), NEW b \in Seq(X), NEW c \in Seq(X)
  PROVE  Grouped(a, b, c)
BY ConcatAssociative DEF Grouped

(* What it is built from. *)
FlatBy(X, ss, f) ==
  /\ f \in [1 .. Len(ss) -> Seq(X)]
  /\ FlattenSeq(ss) = f[Len(ss)]
  /\ f[1] = ss[1]
  /\ \A i \in 1 .. Len(ss) : i # 1 => f[i] = f[i - 1] \o ss[i]

(* The recursive function in FlattenSeq has a solution, which it takes.    *)
LEMMA Flat ==
  ASSUME NEW X, NEW ss \in Seq(Seq(X)), ss # <<>>
  PROVE  \E f : FlatBy(X, ss, f)
<1>1. PICK n : n = Len(ss)
  OBVIOUS
<1>2. n \in Nat \ {0} /\ \A i \in 1 .. n : ss[i] \in Seq(X)
  BY <1>1, EmptySeq, ElementOfSeq
<1> DEFINE D == 1 .. n
           R == Seq(X)
           Turn(g) == [i \in D |-> IF i = 1 THEN ss[i] ELSE g[i - 1] \o ss[i]]
<1>3. PICK f : FlattenSeq(ss) = f[n] /\ f = CHOOSE g : g = Turn(g)
  <2>1. PICK v : v = FlattenSeq(ss)
    OBVIOUS
  <2> QED  BY <1>1, <1>2, <2>1, Zenon DEF FlattenSeq
<1>4. PICK step : step = [x \in D \X [D -> R] |->
                            IF x[1] = 1 THEN ss[x[1]] ELSE x[2][x[1] - 1] \o ss[x[1]]]
  OBVIOUS
<1>5. ASSUME NEW i \in D, NEW g \in [D -> R]
      PROVE  /\ step[<<i, g>>] = IF i = 1 THEN ss[i] ELSE g[i - 1] \o ss[i]
             /\ step[<<i, g>>] \in R
  <2>1. <<i, g>> \in D \X [D -> R] /\ <<i, g>>[1] = i /\ <<i, g>>[2] = g
    OBVIOUS
  <2>2. step[<<i, g>>] = IF i = 1 THEN ss[i] ELSE g[i - 1] \o ss[i]
    BY <1>4, <2>1, Zenon
  <2>3. CASE i # 1
    <3>1. g[i - 1] \in Seq(X)
      BY <1>2, <2>3
    <3> QED  BY <1>2, <2>2, <2>3, <3>1, ConcatProperties
  <2> QED  BY <1>2, <2>2, <2>3
<1>6. \E g : Solution(D, R, step, g)
  <2>1. PICK id : id = [i \in D |-> i]
    OBVIOUS
  <2>2. id \in [D -> 0 .. n] /\ (\A i \in D : id[i] = i) /\ <<>> \in R
    BY <1>2, <2>1, EmptySeq
  <2>3. step \in [D \X [D -> R] -> R]
    <3>1. \A x \in D \X [D -> R] : step[x] \in R
      <4> SUFFICES ASSUME NEW x \in D \X [D -> R] PROVE step[x] \in R
        OBVIOUS
      <4>1. x = <<x[1], x[2]>> /\ x[1] \in D /\ x[2] \in [D -> R]
        OBVIOUS
      <4> QED  BY <1>5, <4>1
    <3> QED  BY <1>4, <3>1
  <2>4. ASSUME NEW i \in D, NEW g \in [D -> R], NEW h \in [D -> R],
               \A j \in D : id[j] < id[i] => g[j] = h[j]
        PROVE  step[<<i, g>>] = step[<<i, h>>]
    <3>1. CASE i # 1
      <4>1. i - 1 \in D /\ i - 1 < i
        BY <1>2, <3>1
      <4>2. g[i - 1] = h[i - 1]
        BY <2>2, <2>4, <4>1
      <4>3. step[<<i, g>>] = g[i - 1] \o ss[i] /\ step[<<i, h>>] = h[i - 1] \o ss[i]
        BY <1>5, <3>1
      <4> QED  BY <4>2, <4>3
    <3> QED  BY <1>5, <3>1
  <2>5. n \in Nat
    BY <1>2
  <2>6. LooksBelow(D, R, id, step)
    BY <2>3, <2>4 DEF LooksBelow
  <2> HIDE DEF D, R
  <2> QED  BY <2>2, <2>5, <2>6, Solved
<1>7. PICK g \in [D -> R] : g = Turn(g)
  <2>1. PICK g \in [D -> R] : \A i \in D : g[i] = step[<<i, g>>]
    BY <1>6 DEF Solution
  <2>2. \A i \in D : g[i] = IF i = 1 THEN ss[i] ELSE g[i - 1] \o ss[i]
    BY <1>5, <2>1
  <2> HIDE DEF D, R
  <2>3. g = [i \in D |-> g[i]]
    OBVIOUS
  <2> QED  BY <2>2, <2>3, Zenon
<1>8. f = Turn(f)
  <2> HIDE DEF Turn, R, D
  <2> QED  BY <1>3, <1>7, Zenon
<1> DEFINE G == {i \in 0 .. n : i = 0 \/ f[i] \in R}
<1>9. \A i \in D : f[i] = IF i = 1 THEN ss[i] ELSE f[i - 1] \o ss[i]
  BY <1>8, Zenon
<1>10. 0 .. n \subseteq G
  <2>1. ASSUME NEW v \in 0 .. n - 1, v \in G PROVE v + 1 \in G
    <3>1. v + 1 \in D /\ v + 1 \in 0 .. n /\ (v + 1 # 1 => f[(v + 1) - 1] \in Seq(X))
      BY <1>2, <2>1
    <3>2. f[v + 1] \in Seq(X)
      <4>1. f[v + 1] = IF v + 1 = 1 THEN ss[v + 1] ELSE f[(v + 1) - 1] \o ss[v + 1]
        BY <1>9, <3>1
      <4>2. ss[v + 1] \in Seq(X)
        BY <1>2, <3>1
      <4> QED  BY <3>1, <4>1, <4>2, ConcatProperties
    <3> QED  BY <3>1, <3>2
  <2>2. 0 \in G
    BY <1>2
  <2> HIDE DEF G
  <2> QED  BY <1>2, <2>1, <2>2, Counting
<1>11. f \in [D -> R]
  <2>1. \A i \in D : f[i] \in R
    BY <1>2, <1>10
  <2>2. f = [i \in D |-> f[i]]
    BY <1>8, Zenon
  <2> HIDE DEF D, R
  <2> QED  BY <2>1, <2>2
<1>12. 1 \in D
  BY <1>2
<1> QED  BY <1>1, <1>3, <1>9, <1>11, <1>12 DEF FlatBy

(* The empty list of lists, and any. *)
LEMMA FlatTyped ==
  ASSUME NEW X
  PROVE  FlattenSeq(<<>>) = <<>> /\ \A ss \in Seq(Seq(X)) : FlattenSeq(ss) \in Seq(X)
<1>1. FlattenSeq(<<>>) = <<>>
  BY EmptyList, Zenon DEF FlattenSeq
<1>2. ASSUME NEW ss \in Seq(Seq(X)), ss # <<>> PROVE FlattenSeq(ss) \in Seq(X)
  <2>1. Len(ss) \in 1 .. Len(ss)
    BY <1>2, EmptySeq
  <2>2. PICK f : FlatBy(X, ss, f)
    BY <1>2, Flat
  <2> QED  BY <2>1, <2>2 DEF FlatBy
<1> QED  BY <1>1, <1>2, EmptySeq

(* One list more. *)
LEMMA FlatAppended ==
  ASSUME NEW X, NEW ss \in Seq(Seq(X)), NEW x \in Seq(X)
  PROVE  FlattenSeq(Append(ss, x)) = FlattenSeq(ss) \o x
<1>1. PICK n, tt : n = Len(ss) /\ tt = Append(ss, x)
  OBVIOUS
<1>2. /\ n \in Nat /\ tt \in Seq(Seq(X)) /\ tt # <<>> /\ Len(tt) = n + 1
      /\ (\A i \in 1 .. n : tt[i] = ss[i]) /\ tt[n + 1] = x
  BY <1>1, AppendProperties, LenProperties
<1>3. PICK f :
        /\ FlattenSeq(tt) = f[n + 1]
        /\ f[1] = tt[1]
        /\ \A i \in 1 .. n + 1 : i # 1 => f[i] = f[i - 1] \o tt[i]
  <2>1. PICK f : FlatBy(X, tt, f)
    BY <1>2, Flat
  <2> QED  BY <1>2, <2>1 DEF FlatBy
<1>4. CASE ss = <<>>
  <2>1. n = 0 /\ FlattenSeq(ss) = <<>>
    BY <1>1, <1>4, FlatTyped, EmptyList
  <2> QED  BY <1>1, <1>2, <1>3, <2>1, ConcatEmptySeq
<1>5. CASE ss # <<>>
  <2>1. PICK g :
          /\ FlattenSeq(ss) = g[n]
          /\ g[1] = ss[1]
          /\ \A i \in 1 .. n : i # 1 => g[i] = g[i - 1] \o ss[i]
    <3>1. PICK g : FlatBy(X, ss, g)
      BY <1>5, Flat
    <3> QED  BY <1>1, <3>1 DEF FlatBy
  <2>2. n > 0
    BY <1>1, <1>5, EmptySeq
  <2> DEFINE G == {i \in 0 .. n : i = 0 \/ f[i] = g[i]}
  <2>3. ASSUME NEW v \in 0 .. n - 1, v \in G PROVE v + 1 \in G
    <3>1. v + 1 \in 1 .. n /\ v + 1 \in 1 .. n + 1 /\ v + 1 \in 0 .. n /\ (v + 1) - 1 = v
      BY <1>2, <2>3
    <3>2. CASE v = 0
      BY <1>2, <1>3, <2>1, <3>1, <3>2
    <3>3. CASE v # 0
      <4>1. f[v] = g[v] /\ tt[v + 1] = ss[v + 1] /\ v + 1 # 1
        BY <1>2, <2>3, <3>1, <3>3
      <4>2. f[v + 1] = f[v] \o tt[v + 1] /\ g[v + 1] = g[v] \o ss[v + 1]
        BY <1>3, <2>1, <3>1, <4>1
      <4> QED  BY <3>1, <4>1, <4>2
    <3> QED  BY <3>2, <3>3
  <2>4. 0 .. n \subseteq G
    <3>1. 0 \in G
      BY <1>2
    <3> HIDE DEF G
    <3> QED  BY <1>2, <2>3, <3>1, Counting
  <2>5. f[n] = g[n]
    BY <1>2, <2>2, <2>4
  <2>6. f[n + 1] = f[n] \o x
    <3>1. n + 1 \in 1 .. n + 1 /\ n + 1 # 1 /\ (n + 1) - 1 = n
      BY <1>2, <2>2
    <3> QED  BY <1>2, <1>3, <3>1, Zenon
  <2> QED  BY <1>1, <1>3, <2>1, <2>5, <2>6
<1> QED  BY <1>4, <1>5

(* A list alone. *)
LEMMA FlatOne ==
  ASSUME NEW X, NEW x \in Seq(X)
  PROVE  FlattenSeq(<<x>>) = x
<1>1. <<>> \in Seq(Seq(X)) /\ Append(<<>>, x) = <<x>>
  BY EmptySeq
<1>2. FlattenSeq(<<x>>) = <<>> \o x
  BY <1>1, FlatAppended, FlatTyped
<1> QED  BY <1>2, ConcatEmptySeq

(* Lists of lists behind each other. *)
LEMMA FlatJoined ==
  ASSUME NEW X, NEW aa \in Seq(Seq(X)), NEW bb \in Seq(Seq(X))
  PROVE  FlattenSeq(aa \o bb) = FlattenSeq(aa) \o FlattenSeq(bb)
<1>1. PICK n, a : n = Len(bb) /\ a = FlattenSeq(aa)
  OBVIOUS
<1>2. n \in Nat /\ a \in Seq(X)
  BY <1>1, FlatTyped, LenProperties
<1> DEFINE Upto(v) == SubSeq(bb, 1, v)
           G == {v \in 0 .. n : FlattenSeq(aa \o Upto(v)) = a \o FlattenSeq(Upto(v))}
<1>3. ASSUME NEW v \in 0 .. n
      PROVE  /\ Upto(v) \in Seq(Seq(X)) /\ aa \o Upto(v) \in Seq(Seq(X))
             /\ FlattenSeq(Upto(v)) \in Seq(X)
  <2>1. \A i \in 1 .. v : bb[i] \in Seq(X)
    BY <1>1, <1>2, ElementOfSeq
  <2>2. Upto(v) \in Seq(Seq(X))
    BY <2>1, v \in Int, 1 \in Int, SubSeqProperties
  <2> QED  BY <2>2, FlatTyped, ConcatProperties
<1>4. 0 \in G
  <2>1. Upto(0) = <<>>
    BY SubSeqEmpty
  <2>2. aa \o <<>> = aa /\ a \o <<>> = a
    BY <1>2, ConcatEmptySeq
  <2>3. FlattenSeq(<<>>) = <<>> /\ 0 \in 0 .. n
    BY <1>2, FlatTyped
  <2> QED  BY <1>1, <2>1, <2>2, <2>3, Zenon
<1>5. ASSUME NEW v \in 0 .. n - 1, v \in G PROVE v + 1 \in G
  <2>1. PICK p, x : p = Upto(v) /\ x = bb[v + 1]
    OBVIOUS
  <2>2. v + 1 \in 1 .. n /\ 1 \in 1 .. n /\ v \in 0 .. n /\ v + 1 \in 0 .. n
    BY <1>2
  <2>3. p \in Seq(Seq(X)) /\ aa \o p \in Seq(Seq(X)) /\ x \in Seq(X)
    BY <1>1, <1>3, <2>1, <2>2, ElementOfSeq
  <2>4. Upto(v + 1) = p \o <<x>>
    <3>1. v + 1 \in 1 .. Len(bb) /\ (v + 1) - 1 = v
      BY <1>1, <2>2
    <3> QED  BY <1>1, <2>1, <2>2, <3>1, SubSeqRecursiveSecond
  <2>5. Upto(v + 1) = Append(p, x) /\ aa \o Upto(v + 1) = Append(aa \o p, x)
    <3>1. <<x>> \in Seq(Seq(X))
      BY <2>3
    <3>2. (aa \o p) \o <<x>> = aa \o (p \o <<x>>)
      <4>1. Grouped(aa, p, <<x>>)
        BY <2>3, <3>1, Grouping
      <4> QED  BY <4>1 DEF Grouped
    <3>3. Append(p, x) = p \o <<x>> /\ Append(aa \o p, x) = (aa \o p) \o <<x>>
      BY <2>3, AppendIsConcat
    <3> QED  BY <2>4, <3>2, <3>3
  <2>6. FlattenSeq(p) \in Seq(X) /\ FlattenSeq(aa \o p) = a \o FlattenSeq(p)
    BY <1>3, <1>5, <2>1, <2>2
  <2>7. (a \o FlattenSeq(p)) \o x = a \o (FlattenSeq(p) \o x)
    <3>1. Grouped(a, FlattenSeq(p), x)
      BY <1>2, <2>3, <2>6, Grouping
    <3> QED  BY <3>1 DEF Grouped
  <2>8. /\ FlattenSeq(Append(p, x)) = FlattenSeq(p) \o x
        /\ FlattenSeq(Append(aa \o p, x)) = FlattenSeq(aa \o p) \o x
    BY <2>3, FlatAppended
  <2> QED  BY <2>2, <2>5, <2>6, <2>7, <2>8
<1>6. n \in G
  <2> HIDE DEF G
  <2>1. 0 .. n \subseteq G
    BY <1>2, <1>4, <1>5, Counting
  <2> QED  BY <1>2, <2>1
<1>7. Upto(n) = bb
  BY <1>1, SubSeqFull
<1> QED  BY <1>1, <1>6, <1>7

-----------------------------------------------------------------------------
(* Runs over a list from left to right *)

(* step makes of a state and what comes next the next state; h is the      *)
(* states on the way along q.                                              *)
Steps(X, C, step) == step \in [X \X C -> X]
RunOf(X, step, a, q, h) ==
  /\ h \in [0 .. Len(q) -> X]
  /\ h[0] = a
  /\ \A i \in 1 .. Len(q) : h[i] = step[<<h[i - 1], q[i]>>]
EndsIn(X, step, a, q, b) == \E h : RunOf(X, step, a, q, h) /\ h[Len(q)] = b

(* Where a run ends that goes nowhere. *)
LEMMA RunNowhere ==
  ASSUME NEW X, NEW step, NEW a \in X
  PROVE  EndsIn(X, step, a, <<>>, a)
<1>1. PICK h : h = [i \in 0 .. 0 |-> a]
  OBVIOUS
<1>2. Len(<<>>) = 0 /\ h[0] = a /\ h \in [0 .. 0 -> X]
  BY <1>1, EmptyList
<1>3. RunOf(X, step, a, <<>>, h) /\ h[Len(<<>>)] = a
  BY <1>2 DEF RunOf
<1> QED  BY <1>3 DEF EndsIn

(* A run goes a step further. *)
LEMMA RunFurther ==
  ASSUME NEW X, NEW C, NEW step, Steps(X, C, step), NEW a, NEW b, NEW q \in Seq(C),
         EndsIn(X, step, a, q, b), NEW c \in C
  PROVE  EndsIn(X, step, a, Append(q, c), step[<<b, c>>])
<1>1. PICK h : RunOf(X, step, a, q, h) /\ h[Len(q)] = b
  BY DEF EndsIn
<1>2. PICK n, r, d : n = Len(q) /\ r = Append(q, c) /\ d = step[<<b, c>>]
  OBVIOUS
<1>3. /\ n \in Nat /\ Len(r) = n + 1 /\ r[n + 1] = c
      /\ \A i \in 1 .. n : r[i] = q[i]
  BY <1>2, AppendProperties, LenProperties
<1>4. /\ h \in [0 .. n -> X] /\ h[0] = a /\ h[n] = b
      /\ \A i \in 1 .. n : h[i] = step[<<h[i - 1], q[i]>>]
  BY <1>1, <1>2 DEF RunOf
<1>5. d \in X
  <2>1. b \in X
    BY <1>3, <1>4
  <2> QED  BY <1>2, <2>1 DEF Steps
<1>6. PICK g : g = [i \in 0 .. n + 1 |-> IF i = n + 1 THEN d ELSE h[i]]
  OBVIOUS
<1>7. g[n + 1] = d /\ \A i \in 0 .. n : g[i] = h[i]
  BY <1>3, <1>6
<1>8. g \in [0 .. n + 1 -> X]
  <2>1. \A i \in 0 .. n + 1 : i = n + 1 \/ i \in 0 .. n
    BY <1>3
  <2>2. \A i \in 0 .. n + 1 : g[i] \in X
    BY <1>4, <1>5, <1>7, <2>1
  <2> QED  BY <1>6, <2>2
<1>9. ASSUME NEW i \in 1 .. n + 1 PROVE g[i] = step[<<g[i - 1], r[i]>>]
  <2>1. CASE i = n + 1
    <3>1. i - 1 = n /\ n \in 0 .. n
      BY <1>3, <2>1
    <3> QED  BY <1>2, <1>3, <1>4, <1>7, <2>1, <3>1
  <2>2. CASE i \in 1 .. n
    <3>1. i - 1 \in 0 .. n /\ i \in 0 .. n
      BY <1>3, <2>2
    <3> QED  BY <1>3, <1>4, <1>7, <2>2, <3>1
  <2> QED  BY <1>3, <2>1, <2>2
<1>10. g[0] = a
  BY <1>3, <1>4, <1>7
<1>11. RunOf(X, step, a, r, g) /\ g[Len(r)] = d
  BY <1>3, <1>7, <1>8, <1>9, <1>10 DEF RunOf
<1> QED  BY <1>2, <1>11 DEF EndsIn

(* A run goes on along another list. *)
LEMMA RunOn ==
  ASSUME NEW X, NEW C, NEW step, Steps(X, C, step), NEW a, NEW b, NEW d,
         NEW p \in Seq(C), NEW q \in Seq(C),
         EndsIn(X, step, a, p, b), EndsIn(X, step, b, q, d)
  PROVE  EndsIn(X, step, a, p \o q, d)
<1>1. PICK h : RunOf(X, step, b, q, h) /\ h[Len(q)] = d
  BY DEF EndsIn
<1>2. PICK n : n = Len(q)
  OBVIOUS
<1>3. /\ n \in Nat
      /\ h \in [0 .. n -> X] /\ h[0] = b /\ h[n] = d
      /\ \A i \in 1 .. n : h[i] = step[<<h[i - 1], q[i]>>]
  BY <1>1, <1>2, LenProperties DEF RunOf
<1> DEFINE Upto(v) == SubSeq(q, 1, v)
           G == {v \in 0 .. n : EndsIn(X, step, a, p \o Upto(v), h[v])}
<1>4. 0 \in G
  <2>1. p \o Upto(0) = p
    BY SubSeqEmpty, ConcatEmptySeq
  <2> QED  BY <1>3, <2>1
<1>5. ASSUME NEW v \in 0 .. n - 1, v \in G PROVE v + 1 \in G
  <2>1. PICK s, c : s = Upto(v) /\ c = q[v + 1]
    OBVIOUS
  <2>2. v + 1 \in 1 .. n /\ 1 \in 1 .. n /\ v \in 0 .. n /\ v + 1 \in 0 .. n
        /\ (v + 1) - 1 = v
    BY <1>3
  <2>3. c \in C
    BY <1>2, <2>1, <2>2, ElementOfSeq
  <2>4. s \in Seq(C)
    <3>1. \A i \in 1 .. v : q[i] \in C
      BY <1>2, <1>3, ElementOfSeq
    <3> QED  BY <2>1, <3>1, v \in Int, 1 \in Int, SubSeqProperties
  <2>5. Upto(v + 1) = s \o <<c>>
    <3>1. v + 1 \in 1 .. Len(q) /\ 1 \in 1 .. Len(q) /\ v + 1 \in 1 .. Len(q)
      BY <1>2, <2>2
    <3>2. Upto(v + 1) = SubSeq(q, 1, (v + 1) - 1) \o <<q[v + 1]>>
      BY <2>2, <3>1, SubSeqRecursiveSecond
    <3> QED  BY <2>1, <2>2, <3>2
  <2>6. p \o Upto(v + 1) = Append(p \o s, c)
    <3>1. <<c>> \in Seq(C) /\ p \o s \in Seq(C)
      BY <2>3, <2>4, ConcatProperties
    <3>2. Grouped(p, s, <<c>>)
      BY <2>4, <3>1, Grouping
    <3>3. Append(p \o s, c) = (p \o s) \o <<c>>
      BY <2>3, <3>1, AppendIsConcat
    <3> QED  BY <2>5, <3>2, <3>3 DEF Grouped
  <2>7. EndsIn(X, step, a, p \o s, h[v])
    BY <1>5, <2>1
  <2>8. EndsIn(X, step, a, Append(p \o s, c), step[<<h[v], c>>])
    <3>1. p \o s \in Seq(C)
      BY <2>4, ConcatProperties
    <3> QED  BY <2>3, <2>7, <3>1, RunFurther
  <2>9. h[v + 1] = step[<<h[v], c>>]
    BY <1>3, <2>1, <2>2
  <2> QED  BY <2>2, <2>6, <2>8, <2>9
<1>6. n \in G
  <2> HIDE DEF G
  <2>1. 0 .. n \subseteq G
    BY <1>3, <1>4, <1>5, Counting
  <2> QED  BY <1>3, <2>1
<1>7. Upto(n) = q
  BY <1>2, SubSeqFull
<1> QED  BY <1>3, <1>6, <1>7

(* A run ends in one state. *)
LEMMA RunEndsOnce ==
  ASSUME NEW X, NEW step, NEW a, NEW C, NEW q \in Seq(C), NEW b, NEW d,
         EndsIn(X, step, a, q, b), EndsIn(X, step, a, q, d)
  PROVE  b = d
<1>1. PICK g : RunOf(X, step, a, q, g) /\ g[Len(q)] = b
  BY DEF EndsIn
<1>2. PICK h : RunOf(X, step, a, q, h) /\ h[Len(q)] = d
  BY DEF EndsIn
<1>3. PICK n : n = Len(q) /\ n \in Nat
  BY LenProperties
<1> DEFINE G == {v \in 0 .. n : g[v] = h[v]}
<1>4. 0 \in G
  BY <1>1, <1>2, <1>3 DEF RunOf
<1>5. ASSUME NEW v \in 0 .. n - 1, v \in G PROVE v + 1 \in G
  <2>1. v + 1 \in 1 .. n /\ v + 1 \in 0 .. n /\ (v + 1) - 1 = v
    BY <1>3
  <2> QED  BY <1>1, <1>2, <1>3, <1>5, <2>1 DEF RunOf
<1>6. n \in G
  <2> HIDE DEF G
  <2>1. 0 .. n \subseteq G
    BY <1>3, <1>4, <1>5, Counting
  <2> QED  BY <1>3, <2>1
<1> QED  BY <1>1, <1>2, <1>3, <1>6

(* What FoldLeft of the community modules makes of the places s of q, when *)
(* it begins with a.                                                       *)
FoldOf(X, step, a, q, g) ==
  /\ g \in [SUBSET (1 .. Len(q)) -> X]
  /\ g[{}] = a
  /\ \A s \in SUBSET (1 .. Len(q)) :
       s # {} => g[s] = step[<<g[s \ {Max(s)}], q[Max(s)]>>]

(* There is such a fold. *)
LEMMA FoldExists ==
  ASSUME NEW X, NEW C, NEW step, Steps(X, C, step), NEW a \in X, NEW q \in Seq(C)
  PROVE  \E g : FoldOf(X, step, a, q, g)
<1>1. PICK n : n = Len(q) /\ n \in Nat
  BY LenProperties
<1> DEFINE D == SUBSET (1 .. n)
           Size == [s \in D |-> Cardinality(s)]
<1>2. PICK turn : turn = [x \in D \X [D -> X] |->
        IF x[1] = {} THEN a ELSE step[<<x[2][x[1] \ {Max(x[1])}], q[Max(x[1])]>>]]
  OBVIOUS
<1>3. ASSUME NEW s \in D, s # {}
      PROVE  Max(s) \in s /\ Max(s) \in 1 .. n /\ s \ {Max(s)} \in D /\ q[Max(s)] \in C
  <2>1. Max(s) \in s
    BY <1>1, <1>3, LastPlace
  <2> QED  BY <1>1, <2>1, ElementOfSeq
<1>4. ASSUME NEW s \in D, NEW g \in [D -> X]
      PROVE  /\ turn[<<s, g>>] = IF s = {} THEN a
                                 ELSE step[<<g[s \ {Max(s)}], q[Max(s)]>>]
             /\ turn[<<s, g>>] \in X
  <2>1. <<s, g>> \in D \X [D -> X] /\ <<s, g>>[1] = s /\ <<s, g>>[2] = g
    OBVIOUS
  <2>2. turn[<<s, g>>] = IF s = {} THEN a
                         ELSE step[<<g[s \ {Max(s)}], q[Max(s)]>>]
    <3>1. PICK x : x = <<s, g>>
      OBVIOUS
    <3>2. turn[x] = IF x[1] = {} THEN a
                    ELSE step[<<x[2][x[1] \ {Max(x[1])}], q[Max(x[1])]>>]
      BY <1>2, <2>1, <3>1, Zenon
    <3>3. x[1] = s /\ x[2] = g
      BY <2>1, <3>1, Zenon
    <3> QED  BY <3>1, <3>2, <3>3, Zenon
  <2>3. CASE s # {}
    <3>1. g[s \ {Max(s)}] \in X /\ q[Max(s)] \in C
      BY <1>3, <2>3
    <3>2. step[<<g[s \ {Max(s)}], q[Max(s)]>>] \in X
      BY <3>1 DEF Steps
    <3> QED  BY <2>2, <2>3, <3>2
  <2> QED  BY <2>2, <2>3
<1>5. IsFiniteSet(1 .. n) /\ Cardinality(1 .. n) = n
  <2>1. n \in Int /\ 1 \in Int /\ n - 1 + 1 = n
    BY <1>1
  <2>2. IsFiniteSet(1 .. n) /\ Cardinality(1 .. n) = IF 1 > n THEN 0 ELSE n - 1 + 1
    BY <2>1, FS_Interval
  <2> QED  BY <1>1, <2>1, <2>2
<1>6. ASSUME NEW s \in D PROVE IsFiniteSet(s) /\ Cardinality(s) \in 0 .. n
  <2>1. IsFiniteSet(s) /\ Cardinality(s) <= Cardinality(1 .. n)
    BY <1>5, FS_Subset
  <2>2. Cardinality(s) \in Nat
    BY <2>1, FS_CardinalityType
  <2> QED  BY <1>1, <1>5, <2>1, <2>2
<1>7. Size \in [D -> 0 .. n]
  BY <1>6
<1>8. turn \in [D \X [D -> X] -> X]
  <2>1. \A x \in D \X [D -> X] : turn[x] \in X
    <3> SUFFICES ASSUME NEW x \in D \X [D -> X] PROVE turn[x] \in X
      OBVIOUS
    <3>1. x = <<x[1], x[2]>> /\ x[1] \in D /\ x[2] \in [D -> X]
      OBVIOUS
    <3> HIDE DEF D
    <3> QED  BY <1>4, <3>1
  <2> QED  BY <1>2, <2>1
<1>9. ASSUME NEW s \in D, NEW g \in [D -> X], NEW h \in [D -> X],
             \A r \in D : Size[r] < Size[s] => g[r] = h[r]
      PROVE  turn[<<s, g>>] = turn[<<s, h>>]
  <2>1. CASE s # {}
    <3>1. PICK m, r : m = Max(s) /\ r = s \ {m}
      OBVIOUS
    <3>2. m \in s /\ r \in D
      BY <1>3, <2>1, <3>1
    <3>3. Cardinality(r) = Cardinality(s) - 1
      BY <1>6, <3>1, <3>2, FS_RemoveElement
    <3>4. Size[r] < Size[s]
      BY <1>6, <3>2, <3>3
    <3>5. g[r] = h[r]
      BY <1>9, <3>2, <3>4
    <3> QED  BY <1>4, <2>1, <3>1, <3>5
  <2> QED  BY <1>4, <2>1
<1>10. LooksBelow(D, X, Size, turn)
  <2> HIDE DEF D, Size
  <2> QED  BY <1>8, <1>9 DEF LooksBelow
<1>11. PICK g : Solution(D, X, turn, g)
  <2> HIDE DEF D, Size
  <2> QED  BY <1>1, <1>7, <1>10, Solved
<1>12. g \in [D -> X] /\ \A s \in D : g[s] = turn[<<s, g>>]
  BY <1>11 DEF Solution
<1>13. g[{}] = a
  BY <1>4, <1>12, {} \in D
<1>14. \A s \in D : s # {} => g[s] = step[<<g[s \ {Max(s)}], q[Max(s)]>>]
  BY <1>4, <1>12
<1> QED  BY <1>1, <1>12, <1>13, <1>14 DEF FoldOf

(* A fold runs through the list. *)
LEMMA FoldRuns ==
  ASSUME NEW X, NEW C, NEW step, Steps(X, C, step), NEW a \in X, NEW q \in Seq(C),
         NEW g, FoldOf(X, step, a, q, g)
  PROVE  EndsIn(X, step, a, q, g[1 .. Len(q)])
<1>1. PICK n : n = Len(q) /\ n \in Nat
  BY LenProperties
<1>2. PICK h : h = [i \in 0 .. n |-> g[1 .. i]]
  OBVIOUS
<1>3. \A i \in 0 .. n : 1 .. i \in SUBSET (1 .. n)
  BY <1>1
<1>4. h \in [0 .. n -> X]
  BY <1>1, <1>2, <1>3 DEF FoldOf
<1>5. h[0] = a
  <2>1. 1 .. 0 = {} /\ 0 \in 0 .. n
    BY <1>1
  <2> QED  BY <1>2, <2>1 DEF FoldOf
<1>6. ASSUME NEW i \in 1 .. n PROVE h[i] = step[<<h[i - 1], q[i]>>]
  <2>1. PICK s : s = 1 .. i
    OBVIOUS
  <2>2. s \in SUBSET (1 .. n) /\ s # {} /\ i \in s
    BY <1>1, <2>1
  <2>3. Max(s) = i
    <3>1. Max(s) \in s /\ \A x \in s : x <= Max(s)
      BY <1>1, <2>2, LastPlace
    <3> QED  BY <1>1, <2>1, <2>2, <3>1
  <2>4. s \ {i} = 1 .. i - 1 /\ i - 1 \in 0 .. n /\ i \in 0 .. n
    BY <1>1, <2>1
  <2>5. g[s] = step[<<g[s \ {i}], q[i]>>]
    BY <1>1, <2>2, <2>3 DEF FoldOf
  <2> QED  BY <1>2, <2>1, <2>4, <2>5
<1>7. RunOf(X, step, a, q, h)
  BY <1>1, <1>4, <1>5, <1>6 DEF RunOf
<1>8. h[n] = g[1 .. n]
  BY <1>1, <1>2
<1> QED  BY <1>1, <1>7, <1>8 DEF EndsIn

-----------------------------------------------------------------------------
(* First parts, maps and their flattening *)

(* A first part grows by what comes next. *)
LEMMA Grown ==
  ASSUME NEW S, NEW q \in Seq(S), NEW v \in 0 .. Len(q) - 1
  PROVE  /\ SubSeq(q, 1, v) \in Seq(S) /\ q[v + 1] \in S
         /\ SubSeq(q, 1, v + 1) = Append(SubSeq(q, 1, v), q[v + 1])
<1>1. PICK n : n = Len(q) /\ n \in Nat
  BY LenProperties
<1>2. v + 1 \in 1 .. n /\ 1 \in 1 .. v + 1 /\ 1 \in 1 .. n /\ v \in 0 .. n /\ (v + 1) - 1 = v
  BY <1>1
<1>3. SubSeq(q, 1, v) \in Seq(S) /\ q[v + 1] \in S
  BY <1>1, <1>2, CutOff, ElementOfSeq
<1>4. SubSeq(q, 1, v + 1) = SubSeq(q, 1, (v + 1) - 1) \o <<q[v + 1]>>
  <2>1. v + 1 \in 1 .. Len(q) /\ 1 \in 1 .. Len(q)
    BY <1>1, <1>2
  <2> QED  BY <2>1, SubSeqRecursiveSecond
<1>5. Append(SubSeq(q, 1, v), q[v + 1]) = SubSeq(q, 1, v) \o <<q[v + 1]>>
  BY <1>3, AppendIsConcat
<1> QED  BY <1>2, <1>3, <1>4, <1>5

(* A first part of two lists behind each other. *)
FirstPart(p, q, m) ==
  /\ m <= Len(p) => SubSeq(p \o q, 1, m) = SubSeq(p, 1, m)
  /\ m >= Len(p) => SubSeq(p \o q, 1, m) = p \o SubSeq(q, 1, m - Len(p))
LEMMA CutJoined ==
  ASSUME NEW S, NEW p \in Seq(S), NEW q \in Seq(S), NEW m \in 0 .. Len(p) + Len(q)
  PROVE  FirstPart(p, q, m)
<1>1. PICK r, a : r = p \o q /\ a = SubSeq(r, 1, m)
  OBVIOUS
<1>2. Len(p) \in Nat /\ Len(q) \in Nat /\ m \in Nat
  BY LenProperties
<1>3. /\ r \in Seq(S) /\ Len(r) = Len(p) + Len(q)
      /\ \A i \in 1 .. Len(p) + Len(q) : r[i] = IF i <= Len(p) THEN p[i] ELSE q[i - Len(p)]
  BY <1>1, ConcatProperties
<1>4. /\ a \in Seq(S) /\ Len(a) = m
      /\ \A i \in 1 .. m : a[i] = r[i]
  <2>1. m \in 0 .. Len(r)
    BY <1>3
  <2>2. a \in Seq(S) /\ Len(a) = m
    BY <1>1, <1>3, <2>1, CutOff
  <2>3. \A i \in 1 .. m : a[i] = r[i]
    BY <1>1, <1>2, <1>3, <2>1
  <2> QED  BY <2>2, <2>3
<1>5. ASSUME m <= Len(p) PROVE a = SubSeq(p, 1, m)
  <2>1. PICK b : b = SubSeq(p, 1, m)
    OBVIOUS
  <2>2. m \in 0 .. Len(p)
    BY <1>2, <1>5
  <2>3. b \in Seq(S) /\ Len(b) = m
    BY <2>1, <2>2, CutOff
  <2>4. \A i \in 1 .. m : b[i] = p[i]
    BY <1>2, <2>1, <2>2
  <2>5. \A i \in 1 .. m : a[i] = b[i]
    <3> SUFFICES ASSUME NEW i \in 1 .. m PROVE a[i] = b[i]
      OBVIOUS
    <3>1. i \in 1 .. Len(p) + Len(q) /\ i <= Len(p)
      BY <1>2, <1>5
    <3> QED  BY <1>3, <1>4, <2>4, <3>1
  <2> QED  BY <1>4, <2>1, <2>3, <2>5, SeqEqual
<1>6. ASSUME m >= Len(p) PROVE a = p \o SubSeq(q, 1, m - Len(p))
  <2>1. PICK b, k, c : k = m - Len(p) /\ b = SubSeq(q, 1, k) /\ c = p \o b
    OBVIOUS
  <2>2. k \in 0 .. Len(q) /\ Len(p) + k = m
    BY <1>2, <1>6, <2>1
  <2>3. b \in Seq(S) /\ Len(b) = k
    BY <2>1, <2>2, CutOff
  <2>4. \A i \in 1 .. k : b[i] = q[i]
    BY <1>2, <2>1, <2>2
  <2>5. /\ c \in Seq(S) /\ Len(c) = m
        /\ \A i \in 1 .. m : c[i] = IF i <= Len(p) THEN p[i] ELSE b[i - Len(p)]
    BY <2>1, <2>2, <2>3, ConcatProperties
  <2>6. \A i \in 1 .. m : a[i] = c[i]
    <3> SUFFICES ASSUME NEW i \in 1 .. m PROVE a[i] = c[i]
      OBVIOUS
    <3>1. i \in 1 .. Len(p) + Len(q) /\ (~(i <= Len(p)) => i - Len(p) \in 1 .. k)
      BY <1>2, <2>2
    <3>2. a[i] = IF i <= Len(p) THEN p[i] ELSE q[i - Len(p)]
      BY <1>3, <1>4, <3>1
    <3>3. c[i] = IF i <= Len(p) THEN p[i] ELSE b[i - Len(p)]
      BY <2>5
    <3> QED  BY <2>4, <3>1, <3>2, <3>3
  <2> QED  BY <1>4, <2>1, <2>5, <2>6, SeqEqual
<1> QED  BY <1>1, <1>5, <1>6 DEF FirstPart

(* F of each thing on a list, and these behind each other. *)
Mapped(F, q) == [k \in DOMAIN q |-> F[q[k]]]
FlatMap(F, q) == FlattenSeq(Mapped(F, q))

(* Mapping is pushing the image of what is pushed. *)
MapsPushed(F, q, x) == Mapped(F, Append(q, x)) = Append(Mapped(F, q), F[x])
LEMMA MappedAppended ==
  ASSUME NEW S, NEW T, NEW F \in [S -> T], NEW q \in Seq(S)
  PROVE  /\ Mapped(F, q) \in Seq(T) /\ Len(Mapped(F, q)) = Len(q)
         /\ \A x \in S : MapsPushed(F, q, x)
<1>1. ASSUME NEW p \in Seq(S) PROVE Mapped(F, p) \in Seq(T) /\ Len(Mapped(F, p)) = Len(p)
  <2>1. PICK n : n = Len(p) /\ n \in Nat /\ DOMAIN p = 1 .. n
    BY LenProperties
  <2>2. \A k \in 1 .. n : p[k] \in S
    BY <2>1, ElementOfSeq
  <2>3. Mapped(F, p) = [k \in 1 .. n |-> F[p[k]]]
    BY <2>1 DEF Mapped
  <2>4. Mapped(F, p) \in [1 .. n -> T]
    BY <2>2, <2>3
  <2>5. Mapped(F, p) \in Seq(T)
    BY <2>1, <2>4, SeqDef
  <2>6. DOMAIN Mapped(F, p) = 1 .. n /\ Len(Mapped(F, p)) \in Nat
        /\ DOMAIN Mapped(F, p) = 1 .. Len(Mapped(F, p))
    BY <2>3, <2>5, LenProperties
  <2> QED  BY <2>1, <2>5, <2>6
<1>2. ASSUME NEW x \in S PROVE MapsPushed(F, q, x)
  <2>1. PICK r, n : r = Append(q, x) /\ n = Len(q)
    OBVIOUS
  <2>2. /\ r \in Seq(S) /\ n \in Nat /\ Len(r) = n + 1 /\ r[n + 1] = x
        /\ \A i \in 1 .. n : r[i] = q[i]
        /\ DOMAIN q = 1 .. n /\ DOMAIN r = 1 .. n + 1
    BY <2>1, AppendProperties, LenProperties
  <2>3. PICK a, b : a = Mapped(F, r) /\ b = Mapped(F, q)
    OBVIOUS
  <2>4. a \in Seq(T) /\ Len(a) = n + 1 /\ b \in Seq(T) /\ Len(b) = n
    BY <1>1, <2>1, <2>2, <2>3
  <2>5. F[x] \in T
    OBVIOUS
  <2>6. PICK c : c = Append(b, F[x])
    OBVIOUS
  <2>7. /\ c \in Seq(T) /\ Len(c) = n + 1 /\ c[n + 1] = F[x]
        /\ \A i \in 1 .. n : c[i] = b[i]
    BY <2>4, <2>5, <2>6, AppendProperties
  <2>8. /\ \A i \in 1 .. n : b[i] = F[q[i]]
        /\ \A i \in 1 .. n + 1 : a[i] = F[r[i]]
    BY <2>2, <2>3 DEF Mapped
  <2>9. \A i \in 1 .. n + 1 : a[i] = c[i]
    <3> SUFFICES ASSUME NEW i \in 1 .. n + 1 PROVE a[i] = c[i]
      OBVIOUS
    <3>1. i = n + 1 \/ i \in 1 .. n
      BY <2>2
    <3> QED  BY <2>2, <2>7, <2>8, <3>1
  <2>10. a = c
    BY <2>4, <2>7, <2>9, SeqEqual
  <2> QED  BY <2>1, <2>3, <2>6, <2>10 DEF MapsPushed
<1> QED  BY <1>1, <1>2

(* Of the empty list. *)
LEMMA MappedNone == \A F : Mapped(F, <<>>) = <<>>
<1> SUFFICES ASSUME NEW F PROVE Mapped(F, <<>>) = <<>>
  OBVIOUS
<1>1. DOMAIN <<>> = {}
  BY EmptyList, LenProperties
<1>2. PICK f : f = Mapped(F, <<>>)
  OBVIOUS
<1>3. DOMAIN f = {} /\ f = [x \in DOMAIN f |-> f[x]]
  BY <1>1, <1>2 DEF Mapped
<1> QED  BY <1>2, <1>3, EmptyFunction

(* The same with the images behind each other. *)
FlatMaps(F, q, x) == FlatMap(F, Append(q, x)) = FlatMap(F, q) \o F[x]
LEMMA FlatMapped ==
  ASSUME NEW S, NEW X, NEW F \in [S -> Seq(X)], NEW q \in Seq(S)
  PROVE  /\ FlatMap(F, q) \in Seq(X)
         /\ FlatMap(F, <<>>) = <<>>
         /\ \A x \in S : FlatMaps(F, q, x)
<1>1. Mapped(F, q) \in Seq(Seq(X))
  BY MappedAppended
<1>2. Mapped(F, <<>>) = <<>>
  BY MappedNone
<1>3. FlatMap(F, q) \in Seq(X) /\ FlatMap(F, <<>>) = <<>>
  BY <1>1, <1>2, FlatTyped DEF FlatMap
<1>4. ASSUME NEW x \in S PROVE FlatMaps(F, q, x)
  <2>1. MapsPushed(F, q, x) /\ F[x] \in Seq(X)
    BY MappedAppended
  <2>2. FlattenSeq(Append(Mapped(F, q), F[x])) = FlattenSeq(Mapped(F, q)) \o F[x]
    BY <1>1, <2>1, FlatAppended
  <2> QED  BY <2>1, <2>2 DEF FlatMaps, FlatMap, MapsPushed
<1> QED  BY <1>3, <1>4

(* What a first part flattens to is a first part of what the list does.    *)
Grows(X, p, q) == \E z \in Seq(X) : q = p \o z
LEMMA FlatGrows ==
  ASSUME NEW S, NEW X, NEW F \in [S -> Seq(X)], NEW q \in Seq(S), NEW v \in 0 .. Len(q)
  PROVE  Grows(X, FlatMap(F, SubSeq(q, 1, v)), FlatMap(F, q))
<1>1. PICK n : n = Len(q) /\ n \in Nat
  BY LenProperties
<1> DEFINE Upto(w) == FlatMap(F, SubSeq(q, 1, w))
           G == {w \in 0 .. n : w >= v => \E z \in Seq(X) : Upto(w) = Upto(v) \o z}
<1>2. \A w \in 0 .. n : SubSeq(q, 1, w) \in Seq(S) /\ Upto(w) \in Seq(X)
  <2> SUFFICES ASSUME NEW w \in 0 .. n PROVE SubSeq(q, 1, w) \in Seq(S) /\ Upto(w) \in Seq(X)
    OBVIOUS
  <2>1. SubSeq(q, 1, w) \in Seq(S)
    BY <1>1, CutOff
  <2> QED  BY <2>1, FlatMapped
<1>3. ASSUME NEW w \in 0 .. n, w = v PROVE w \in G
  <2>1. <<>> \in Seq(X) /\ Upto(v) \o <<>> = Upto(v)
    BY <1>1, <1>2, EmptySeq, ConcatEmptySeq
  <2> HIDE DEF Upto
  <2> QED  BY <1>3, <2>1
<1>4. 0 \in G
  <2>1. CASE v = 0
    BY <1>1, <1>3, <2>1, 0 \in 0 .. n
  <2>2. CASE v # 0
    BY <1>1, <2>2
  <2> QED  BY <2>1, <2>2
<1>5. ASSUME NEW w \in 0 .. n - 1, w \in G PROVE w + 1 \in G
  <2>1. w \in 0 .. n /\ w + 1 \in 0 .. n /\ v \in 0 .. n
    BY <1>1
  <2>2. CASE w + 1 <= v
    <3>1. CASE w + 1 = v
      BY <1>3, <2>1, <3>1
    <3>2. CASE w + 1 # v
      BY <2>1, <2>2, <3>2
    <3> QED  BY <3>1, <3>2
  <2>3. CASE w >= v
    <3>1. PICK z \in Seq(X) : Upto(w) = Upto(v) \o z
      BY <1>5, <2>3
    <3>2. PICK p, x : p = SubSeq(q, 1, w) /\ x = q[w + 1]
      OBVIOUS
    <3>3. p \in Seq(S) /\ x \in S /\ SubSeq(q, 1, w + 1) = Append(p, x)
      <4>1. w \in 0 .. Len(q) - 1
        BY <1>1
      <4> QED  BY <3>2, <4>1, Grown
    <3>4. FlatMaps(F, p, x) /\ F[x] \in Seq(X)
      BY <3>3, FlatMapped
    <3>5. Upto(w + 1) = (Upto(v) \o z) \o F[x]
      BY <3>1, <3>2, <3>3, <3>4 DEF FlatMaps
    <3>6. Grouped(Upto(v), z, F[x])
      <4>1. Upto(v) \in Seq(X)
        BY <1>2, <2>1
      <4> HIDE DEF Upto
      <4> QED  BY <3>4, <4>1, Grouping
    <3>7. z \o F[x] \in Seq(X) /\ Upto(w + 1) = Upto(v) \o (z \o F[x])
      BY <3>4, <3>5, <3>6, ConcatProperties DEF Grouped
    <3> HIDE DEF Upto
    <3> QED  BY <2>1, <3>7
  <2>4. w + 1 <= v \/ w >= v
    BY <1>1
  <2> QED  BY <2>2, <2>3, <2>4
<1>6. 0 .. n \subseteq G
  <2> HIDE DEF G
  <2> QED  BY <1>1, <1>4, <1>5, Counting
<1>7. SubSeq(q, 1, n) = q
  BY <1>1, SubSeqFull
<1>8. n \in 0 .. n /\ n >= v
  BY <1>1
<1>9. n \in G
  <2> HIDE DEF G
  <2> QED  BY <1>6, <1>8
<1>10. \E z \in Seq(X) : Upto(n) = Upto(v) \o z
  BY <1>8, <1>9
<1>11. Upto(n) = FlatMap(F, q)
  BY <1>7
<1> QED  BY <1>10, <1>11 DEF Grows

(* Appending to the empty list. *)
LEMMA AppendedToNone ==
  ASSUME NEW T, NEW a \in T
  PROVE  Append(<<>>, a) = <<a>>
<1>1. <<>> \in Seq(T) /\ Len(<<>>) = 0
  BY EmptyList
<1>2. PICK e, r, s : e = <<>> /\ r = Append(e, a) /\ s = <<a>>
  OBVIOUS
<1>3. r \in Seq(T) /\ Len(r) = 1 /\ r[1] = a
  BY <1>1, <1>2, AppendProperties
<1>4. s \in Seq(T) /\ Len(s) = 1 /\ s[1] = a
  BY <1>2
<1>5. \A i \in 1 .. 1 : r[i] = s[i]
  BY <1>3, <1>4
<1>6. r = s
  BY <1>3, <1>4, <1>5, SeqEqual
<1> QED  BY <1>2, <1>6

(* Appending to a list of one. *)
LEMMA AppendedToOne ==
  ASSUME NEW T, NEW a \in T, NEW b \in T
  PROVE  Append(<<a>>, b) = <<a, b>>
<1>2. PICK e, r, s : e = <<a>> /\ r = Append(e, b) /\ s = <<a, b>>
  OBVIOUS
<1>1. e \in Seq(T) /\ Len(e) = 1 /\ e[1] = a
  BY <1>2
<1>3. r \in Seq(T) /\ Len(r) = 2 /\ r[1] = a /\ r[2] = b
  BY <1>1, <1>2, AppendProperties
<1>4. s \in Seq(T) /\ Len(s) = 2 /\ s[1] = a /\ s[2] = b
  BY <1>2
<1>5. \A i \in 1 .. 2 : r[i] = s[i]
  BY <1>3, <1>4
<1>6. r = s
  BY <1>3, <1>4, <1>5, SeqEqual
<1> QED  BY <1>2, <1>6

(* Appending to a list of two. *)
LEMMA AppendedToTwo ==
  ASSUME NEW T, NEW a \in T, NEW b \in T, NEW c \in T
  PROVE  Append(<<a, b>>, c) = <<a, b, c>>
<1>2. PICK e, r, s : e = <<a, b>> /\ r = Append(e, c) /\ s = <<a, b, c>>
  OBVIOUS
<1>1. e \in Seq(T) /\ Len(e) = 2 /\ e[1] = a /\ e[2] = b
  BY <1>2
<1>3. r \in Seq(T) /\ Len(r) = 3 /\ r[1] = a /\ r[2] = b /\ r[3] = c
  BY <1>1, <1>2, AppendProperties
<1>4. s \in Seq(T) /\ Len(s) = 3 /\ s[1] = a /\ s[2] = b /\ s[3] = c
  BY <1>2
<1>5. \A i \in 1 .. 3 : r[i] = s[i]
  BY <1>3, <1>4
<1>6. r = s
  BY <1>3, <1>4, <1>5, SeqEqual
<1> QED  BY <1>2, <1>6

-----------------------------------------------------------------------------
(* A list may have more kinds of things on it. *)
LEMMA Wider ==
  ASSUME NEW S, NEW T, S \subseteq T, NEW q \in Seq(S)
  PROVE  q \in Seq(T)
BY SeqMonotonic

-----------------------------------------------------------------------------
(* Walks along places, each going on behind the end of what it takes       *)

(* What holds at a place as soon as it holds at all behind holds at all.   *)
LEMMA Backwards ==
  ASSUME NEW n \in Nat, NEW G,
         \A i \in 1 .. n : (\A j \in i + 1 .. n : j \in G) => i \in G
  PROVE  1 .. n \subseteq G
<1>1. PICK D : D = 1 .. n
  OBVIOUS
<1>2. PICK m : m = [i \in D |-> n - i]
  OBVIOUS
<1>3. m \in [D -> Nat] /\ \A i \in D : m[i] = n - i
  BY <1>1, <1>2
<1>4. ASSUME NEW i \in D, \A j \in D : m[j] < m[i] => j \in G PROVE i \in G
  <2>1. ASSUME NEW j \in i + 1 .. n PROVE j \in G
    <3>1. j \in D /\ n - j < n - i
      BY <1>1
    <3> QED  BY <1>3, <1>4, <3>1
  <2> QED  BY <1>1, <2>1
<1>5. D \subseteq G
  BY <1>3, <1>4, Descent
<1> QED  BY <1>1, <1>5

(* At i the walk takes word[i] and goes on behind end[i].                  *)
Walkable(X, n, word, end) ==
  /\ n \in Nat
  /\ word \in [1 .. n -> Seq(X)]
  /\ end \in [1 .. n -> 1 .. n]
  /\ \A i \in 1 .. n : i <= end[i]
WalkTurn(n, word, end, g) ==
  [i \in 1 .. n + 1 |-> IF i > n THEN <<>> ELSE word[i] \o g[end[i] + 1]]
Walk(X, n, word, end, f) ==
  /\ f \in [1 .. n + 1 -> Seq(X)]
  /\ f[n + 1] = <<>>
  /\ \A i \in 1 .. n : f[i] = word[i] \o f[end[i] + 1]

(* There is such a walk. *)
LEMMA WalkExists ==
  ASSUME NEW X, NEW n, NEW word, NEW end, Walkable(X, n, word, end)
  PROVE  \E g : g = WalkTurn(n, word, end, g)
<1> DEFINE D == 1 .. n + 1
           R == Seq(X)
<1>1. PICK step : step = [x \in D \X [D -> R] |->
                            IF x[1] > n THEN <<>> ELSE word[x[1]] \o x[2][end[x[1]] + 1]]
  OBVIOUS
<1>2. n \in Nat /\ \A i \in 1 .. n : word[i] \in R /\ end[i] \in 1 .. n /\ i <= end[i]
  BY DEF Walkable
<1>3. ASSUME NEW i \in D, NEW g \in [D -> R]
      PROVE  /\ step[<<i, g>>] = IF i > n THEN <<>> ELSE word[i] \o g[end[i] + 1]
             /\ step[<<i, g>>] \in R
  <2>1. <<i, g>> \in D \X [D -> R] /\ <<i, g>>[1] = i /\ <<i, g>>[2] = g
    OBVIOUS
  <2>2. step[<<i, g>>] = IF i > n THEN <<>> ELSE word[i] \o g[end[i] + 1]
    BY <1>1, <2>1, Zenon
  <2>3. CASE ~(i > n)
    <3>1. i \in 1 .. n
      BY <1>2, <2>3
    <3>2. end[i] + 1 \in D
      BY <1>2, <3>1
    <3>3. g[end[i] + 1] \in Seq(X) /\ word[i] \in Seq(X)
      BY <1>2, <3>1, <3>2
    <3> QED  BY <2>2, <2>3, <3>3, ConcatProperties
  <2> QED  BY <2>2, <2>3, EmptySeq
<1>4. PICK m : m = [i \in D |-> n + 1 - i]
  OBVIOUS
<1>5. m \in [D -> 0 .. n] /\ \A i \in D : m[i] = n + 1 - i
  BY <1>2, <1>4
<1>6. step \in [D \X [D -> R] -> R]
  <2>1. ASSUME NEW x \in D \X [D -> R] PROVE step[x] \in R
    <3>1. x = <<x[1], x[2]>> /\ x[1] \in D /\ x[2] \in [D -> R]
      OBVIOUS
    <3> HIDE DEF D, R
    <3> QED  BY <1>3, <3>1
  <2> QED  BY <1>1, <2>1
<1>7. ASSUME NEW i \in D, NEW g \in [D -> R], NEW h \in [D -> R],
             \A j \in D : m[j] < m[i] => g[j] = h[j]
      PROVE  step[<<i, g>>] = step[<<i, h>>]
  <2>1. CASE ~(i > n)
    <3>1. i \in 1 .. n
      BY <1>2, <2>1
    <3>2. PICK e, j : e = end[i] /\ j = e + 1
      OBVIOUS
    <3>3. j \in D /\ n + 1 - j < n + 1 - i
      <4>1. e \in 1 .. n /\ i <= e /\ n \in Nat
        BY <1>2, <3>1, <3>2
      <4>2. j = e + 1 /\ i \in 1 .. n
        BY <3>1, <3>2
      <4> HIDE DEF R
      <4> QED  BY <4>1, <4>2
    <3>4. g[j] = h[j]
      BY <1>5, <1>7, <3>3
    <3> QED  BY <1>3, <2>1, <3>2, <3>4
  <2> QED  BY <1>3, <2>1
<1>8. PICK g : Solution(D, R, step, g)
  <2>1. LooksBelow(D, R, m, step)
    <3> HIDE DEF D, R
    <3> QED  BY <1>6, <1>7 DEF LooksBelow
  <2> HIDE DEF D, R
  <2>2. <<>> \in R
    BY EmptySeq DEF R
  <2>3. n \in Nat
    BY <1>2
  <2> QED  BY <1>5, <2>1, <2>2, <2>3, Solved
<1>9. g \in [D -> R] /\ \A i \in D : g[i] = step[<<i, g>>]
  BY <1>8 DEF Solution
<1>10. \A i \in D : g[i] = IF i > n THEN <<>> ELSE word[i] \o g[end[i] + 1]
  BY <1>3, <1>9
<1>11. g = [i \in D |-> g[i]]
  <2>1. g \in [D -> R]
    BY <1>9
  <2> HIDE DEF D, R
  <2> QED  BY <2>1
<1>12. g = WalkTurn(n, word, end, g)
  BY <1>10, <1>11, Zenon DEF WalkTurn
<1> QED  BY <1>12

(* What turns into itself is a walk. *)
LEMMA WalkTyped ==
  ASSUME NEW X, NEW n, NEW word, NEW end, Walkable(X, n, word, end),
         NEW f, f = WalkTurn(n, word, end, f)
  PROVE  Walk(X, n, word, end, f)
<1>1. n \in Nat /\ \A i \in 1 .. n : word[i] \in Seq(X) /\ end[i] \in 1 .. n /\ i <= end[i]
  BY DEF Walkable
<1>2. /\ \A i \in 1 .. n + 1 : f[i] = IF i > n THEN <<>> ELSE word[i] \o f[end[i] + 1]
      /\ f = [i \in 1 .. n + 1 |-> f[i]]
  <2>1. f = [i \in 1 .. n + 1 |-> IF i > n THEN <<>> ELSE word[i] \o f[end[i] + 1]]
    BY Zenon DEF WalkTurn
  <2> QED  BY <2>1, Zenon
<1>3. f[n + 1] = <<>> /\ \A i \in 1 .. n : f[i] = word[i] \o f[end[i] + 1]
  <2>1. n + 1 \in 1 .. n + 1 /\ n + 1 > n
    BY <1>1
  <2>2. \A i \in 1 .. n : i \in 1 .. n + 1 /\ ~(i > n)
    BY <1>1
  <2> QED  BY <1>2, <2>1, <2>2
<1> DEFINE G == {i \in 1 .. n + 1 : f[i] \in Seq(X)}
<1>4. ASSUME NEW i \in 1 .. n + 1, \A j \in i + 1 .. n + 1 : j \in G PROVE i \in G
  <2>1. CASE i = n + 1
    BY <1>3, <2>1, EmptySeq
  <2>2. CASE i # n + 1
    <3>1. i \in 1 .. n
      BY <1>1, <2>2
    <3>2. end[i] + 1 \in i + 1 .. n + 1
      <4>1. end[i] \in 1 .. n /\ i <= end[i]
        BY <1>1, <3>1
      <4> QED  BY <1>1, <3>1, <4>1
    <3>3. f[end[i] + 1] \in Seq(X) /\ word[i] \in Seq(X)
      BY <1>1, <1>4, <3>1, <3>2
    <3>4. f[i] = word[i] \o f[end[i] + 1]
      BY <1>3, <3>1
    <3> QED  BY <3>3, <3>4, ConcatProperties
  <2> QED  BY <2>1, <2>2
<1>5. 1 .. n + 1 \subseteq G
  <2>1. n + 1 \in Nat
    BY <1>1
  <2> HIDE DEF G
  <2> QED  BY <1>4, <2>1, Backwards
<1>6. \A i \in 1 .. n + 1 : f[i] \in Seq(X)
  BY <1>5
<1> QED  BY <1>2, <1>3, <1>6 DEF Walk

(* What the words of a walk make together, when each makes what is between *)
(* its place and the next.                                                 *)
Continues(n, word, end, rest) ==
  /\ rest[n + 1] = <<>>
  /\ \A i \in 1 .. n : rest[i] = FlattenSeq(word[i]) \o rest[end[i] + 1]
FlatFrom(n, f, rest) == \A i \in 1 .. n + 1 : FlattenSeq(f[i]) = rest[i]
LEMMA WalkFlat ==
  ASSUME NEW X, NEW n, NEW word, NEW end, Walkable(Seq(X), n, word, end),
         NEW f, Walk(Seq(X), n, word, end, f),
         NEW rest, Continues(n, word, end, rest)
  PROVE  FlatFrom(n, f, rest)
<1>0. /\ rest[n + 1] = <<>>
      /\ \A i \in 1 .. n : rest[i] = FlattenSeq(word[i]) \o rest[end[i] + 1]
  BY DEF Continues
<1>1. n \in Nat /\ \A i \in 1 .. n : word[i] \in Seq(Seq(X)) /\ end[i] \in 1 .. n /\ i <= end[i]
  BY DEF Walkable
<1> DEFINE G == {i \in 1 .. n + 1 : FlattenSeq(f[i]) = rest[i]}
<1>2. ASSUME NEW i \in 1 .. n + 1, \A j \in i + 1 .. n + 1 : j \in G PROVE i \in G
  <2>1. CASE i = n + 1
    BY <1>0, <2>1, FlatTyped DEF Walk
  <2>2. CASE i # n + 1
    <3>1. i \in 1 .. n
      BY <1>1, <2>2
    <3>2. PICK j : j = end[i] + 1
      OBVIOUS
    <3>3. j \in i + 1 .. n + 1
      <4>1. end[i] \in 1 .. n /\ i <= end[i]
        BY <1>1, <3>1
      <4> QED  BY <1>1, <3>1, <3>2, <4>1
    <3>4. j \in G /\ j \in 1 .. n + 1
      BY <1>2, <3>3
    <3>5. f[j] \in Seq(Seq(X)) /\ word[i] \in Seq(Seq(X))
      BY <1>1, <3>1, <3>4 DEF Walk
    <3>6. FlattenSeq(word[i] \o f[j]) = FlattenSeq(word[i]) \o FlattenSeq(f[j])
      BY <3>5, FlatJoined
    <3>7. f[i] = word[i] \o f[j]
      BY <3>1, <3>2 DEF Walk
    <3>8. FlattenSeq(f[j]) = rest[j] /\ rest[i] = FlattenSeq(word[i]) \o rest[j]
      BY <1>0, <3>1, <3>2, <3>4
    <3> QED  BY <3>6, <3>7, <3>8
  <2> QED  BY <2>1, <2>2
<1>3. 1 .. n + 1 \subseteq G
  <2>1. n + 1 \in Nat
    BY <1>1
  <2> HIDE DEF G
  <2> QED  BY <1>2, <2>1, Backwards
<1> QED  BY <1>3 DEF FlatFrom

-----------------------------------------------------------------------------
(* Sums of whole numbers: the units gained and the units lost. *)
Gain(h) == [x \in DOMAIN h |-> IF h[x] > 0 THEN h[x] ELSE 0]
Loss(h) == [x \in DOMAIN h |-> IF h[x] < 0 THEN 0 - h[x] ELSE 0]
SumOf(h, s) == Cardinality(Units(Gain(h), s)) - Cardinality(Units(Loss(h), s))

(* Any of s may be added last. *)
SumAdds(h, s, x) == SumOf(h, s) = h[x] + SumOf(h, s \ {x})
LEMMA SumTaken ==
  ASSUME NEW S, IsFiniteSet(S), NEW h \in [S -> Int]
  PROVE  /\ SumOf(h, {}) = 0
         /\ \A s \in SUBSET S : SumOf(h, s) \in Int /\ \A x \in s : SumAdds(h, s, x)
<1>1. PICK a, b : a = Gain(h) /\ b = Loss(h)
  OBVIOUS
<1>2. a \in [S -> Nat] /\ b \in [S -> Nat] /\ \A x \in S : h[x] = a[x] - b[x]
  <2>1. a = [x \in S |-> IF h[x] > 0 THEN h[x] ELSE 0]
    BY <1>1 DEF Gain
  <2>2. b = [x \in S |-> IF h[x] < 0 THEN 0 - h[x] ELSE 0]
    BY <1>1 DEF Loss
  <2>3. \A x \in S : h[x] \in Int
    OBVIOUS
  <2>4. \A x \in S : (IF h[x] > 0 THEN h[x] ELSE 0) \in Nat /\ (IF h[x] < 0 THEN 0 - h[x] ELSE 0) \in Nat
    BY <2>3
  <2> QED  BY <2>1, <2>2, <2>3, <2>4
<1>3. SumOf(h, {}) = 0
  <2>1. Cardinality(Units(a, {})) = 0 /\ Cardinality(Units(b, {})) = 0
    BY <1>2, OneMore
  <2> QED  BY <1>1, <2>1 DEF SumOf
<1>4. ASSUME NEW s \in SUBSET S PROVE SumOf(h, s) \in Int
  <2>1. Cardinality(Units(a, s)) \in Nat /\ Cardinality(Units(b, s)) \in Nat
    BY <1>2, OneMore
  <2> QED  BY <1>1, <2>1 DEF SumOf
<1>5. ASSUME NEW s \in SUBSET S, NEW x \in s PROVE SumAdds(h, s, x)
  <2>1. Adds(a, s, x) /\ Adds(b, s, x)
    BY <1>2, OneTaken
  <2>2. PICK k, l, m, n : /\ k = Cardinality(Units(a, s)) /\ l = Cardinality(Units(b, s))
                          /\ m = Cardinality(Units(a, s \ {x})) /\ n = Cardinality(Units(b, s \ {x}))
    OBVIOUS
  <2>3. m \in Nat /\ n \in Nat
    <3>1. s \ {x} \in SUBSET S
      OBVIOUS
    <3> QED  BY <1>2, <2>2, <3>1, OneMore
  <2>4. k = a[x] + m /\ l = b[x] + n
    BY <2>1, <2>2 DEF Adds
  <2>5. a[x] \in Nat /\ b[x] \in Nat /\ h[x] = a[x] - b[x]
    BY <1>2
  <2>6. SumOf(h, s) = k - l /\ SumOf(h, s \ {x}) = m - n
    BY <1>1, <2>2 DEF SumOf
  <2>7. k - l = h[x] + (m - n)
    BY <2>3, <2>4, <2>5
  <2> QED  BY <2>6, <2>7 DEF SumAdds
<1> QED  BY <1>3, <1>4, <1>5

(* Only what is added matters. *)
LEMMA SumAgrees ==
  ASSUME NEW h, NEW g, NEW s, s \subseteq DOMAIN h, s \subseteq DOMAIN g, \A x \in s : h[x] = g[x]
  PROVE  SumOf(h, s) = SumOf(g, s)
<1>1. \A x \in s : Gain(h)[x] = Gain(g)[x] /\ Loss(h)[x] = Loss(g)[x]
  BY DEF Gain, Loss
<1>2. Units(Gain(h), s) = Units(Gain(g), s) /\ Units(Loss(h), s) = Units(Loss(g), s)
  BY <1>1 DEF Units
<1> QED  BY <1>2 DEF SumOf

(* The community modules' sum, whichever it takes next. *)
LEMMA SumSummed ==
  ASSUME NEW S, IsFiniteSet(S), NEW h \in [S -> Int], NEW f,
         f = CHOOSE g : g = [s \in SUBSET S |->
               IF s = {} THEN 0
               ELSE h[CHOOSE x \in s : TRUE] + g[s \ {CHOOSE x \in s : TRUE}]]
  PROVE  f[S] = SumOf(h, S)
<1> DEFINE Pick(s) == CHOOSE x \in s : TRUE
           Turn(g) == [s \in SUBSET S |->
                         IF s = {} THEN 0 ELSE h[Pick(s)] + g[s \ {Pick(s)}]]
           sum == [s \in SUBSET S |-> SumOf(h, s)]
<1>1. \A s \in SUBSET S : s # {} => Pick(s) \in s
  OBVIOUS
<1>2. ASSUME NEW s \in SUBSET S
      PROVE  SumOf(h, s) = IF s = {} THEN 0 ELSE h[Pick(s)] + sum[s \ {Pick(s)}]
  <2>1. CASE s = {}
    BY <2>1, SumTaken
  <2>2. CASE s # {}
    <3>1. PICK x : x = Pick(s)
      OBVIOUS
    <3>2. x \in s /\ s \ {x} \in SUBSET S
      BY <1>1, <2>2, <3>1
    <3>3. SumOf(h, s) = h[x] + SumOf(h, s \ {x})
      BY <3>2, SumTaken DEF SumAdds
    <3>4. sum[s \ {x}] = SumOf(h, s \ {x})
      BY <3>2
    <3> QED  BY <2>2, <3>1, <3>3, <3>4
  <2> QED  BY <2>1, <2>2
<1>3. sum = Turn(sum)
  BY <1>2, Zenon
<1>4. f = Turn(f)
  <2>1. f = CHOOSE g : g = Turn(g)
    OBVIOUS
  <2> HIDE DEF sum, Turn
  <2> QED  BY <1>3, <2>1, Zenon
<1> DEFINE G == {s \in SUBSET S : f[s] = SumOf(h, s)}
<1>5. ASSUME NEW s \in SUBSET S,
             \A r \in SUBSET S : r \subseteq s /\ r # s => r \in G
      PROVE  s \in G
  <2>1. f[s] = IF s = {} THEN 0 ELSE h[Pick(s)] + f[s \ {Pick(s)}]
    BY <1>4, Zenon
  <2>2. CASE s = {}
    BY <2>1, <2>2, SumTaken
  <2>3. CASE s # {}
    <3>1. PICK x : x = Pick(s)
      OBVIOUS
    <3>2. x \in s /\ s \ {x} \in SUBSET S
      BY <1>1, <2>3, <3>1
    <3>3. s \ {x} \in G
      BY <1>5, <3>2
    <3>4. SumOf(h, s) = h[x] + SumOf(h, s \ {x})
      BY <3>2, SumTaken DEF SumAdds
    <3> QED  BY <2>1, <2>3, <3>1, <3>3, <3>4
  <2> QED  BY <2>2, <2>3
<1> HIDE DEF G
<1>6. SUBSET S \subseteq G
  BY <1>5, SubsetInduction
<1> QED  BY <1>6 DEF G
=============================================================================
