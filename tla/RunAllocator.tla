---------------------------- MODULE RunAllocator ----------------------------
(***************************************************************************)
(* What an allocator promises its callers, with nothing of how it keeps    *)
(* the promise: a run of consecutive cells can be obtained, it overlaps no *)
(* run that somebody holds, and it can be given back.  PageCache           *)
(* implements this specification with pages for cells, MemoryPool with     *)
(* bytes.                                                                  *)
(***************************************************************************)
EXTENDS Integers

CONSTANTS Cells,      \* the numbered cells of the address space
          Requests    \* the run lengths callers ask for

VARIABLE held         \* the runs callers hold: records [first, count]

CellsOf(r) == r.first .. (r.first + r.count - 1)

Init == held = {}

(* NewSpan and ConcurrentAlloc as their callers see them. *)
Obtain(k) ==
  \E first \in Cells :
    LET r == [first |-> first, count |-> k] IN
      /\ CellsOf(r) \subseteq Cells
      /\ \A h \in held : CellsOf(h) \cap CellsOf(r) = {}
      /\ held' = held \cup {r}

(* ReleaseSpanToPageCache and ConcurrentFree as their callers see them. *)
GiveBack(r) == held' = held \ {r}

Next == \/ \E k \in Requests : Obtain(k)
        \/ \E r \in held : GiveBack(r)

Spec == Init /\ [][Next]_held
=============================================================================
