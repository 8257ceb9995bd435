------------------------------ MODULE SpanList ------------------------------
(***************************************************************************)
(* SpanList of Common.h, a ring of descriptors through a head of its own,  *)
(* and ObjectPool of ObjectPool.h, which makes the descriptors: both as    *)
(* operators that answer what memory holds after the call.                 *)
(*                                                                         *)
(* `m' is that memory, m.next and m.prev the _next and _prev of each node. *)
(* `pool' is an ObjectPool: pool.first is _freeList, pool.link the link    *)
(* Delete leaves in a descriptor, pool.cut the descriptors that have been  *)
(* cut from its chunks, which come in no order that matters.               *)
(***************************************************************************)
EXTENDS Integers

CONSTANTS Objects, Null   \* descriptors, and nullptr

Begin(m, head) == m.next[head]
Empty(m, head) == head = Begin(m, head)

(* new is put before pos. *)
Insert(m, pos, new) ==
  LET prev == m.prev[pos]
  IN  [next |-> [m.next EXCEPT ![prev] = new, ![new] = pos],
       prev |-> [m.prev EXCEPT ![new] = prev, ![pos] = new]]

\* Wrong form: the node after pos still points back at it.
EraseForward(m, pos) == [m EXCEPT !.next[m.prev[pos]] = m.next[pos]]

(* pos leaves its ring; its own pointers stay as they are. *)
Erase(m, pos) ==
  [next |-> [m.next EXCEPT ![m.prev[pos]] = m.next[pos]],
   prev |-> [m.prev EXCEPT ![m.next[pos]] = m.prev[pos]]]

PushFront(m, head, new) == Insert(m, Begin(m, head), new)
PopFront(m, head) == Erase(m, Begin(m, head))

-----------------------------------------------------------------------------
(* What New may answer: the last one deleted, else one cut anew. *)
Offers(pool) ==
  IF pool.first # Null THEN {pool.first} ELSE Objects \ pool.cut

\* Wrong form: the descriptor stays on the list of deleted ones.
NewKeepsFirst(pool, obj) == [pool EXCEPT !.cut = @ \cup {obj}]

(* The pool after New; the constructor writes over the link. *)
New(pool, obj) ==
  IF pool.first # Null THEN [pool EXCEPT !.first = pool.link[obj],
                                         !.link[obj] = Null]
                       ELSE [pool EXCEPT !.cut = @ \cup {obj}]

Delete(pool, obj) == [pool EXCEPT !.link[obj] = pool.first, !.first = obj]

(* Span's constructor: both pointers are null. *)
Cleared(m, obj) == [next |-> [m.next EXCEPT ![obj] = Null],
                    prev |-> [m.prev EXCEPT ![obj] = Null]]
=============================================================================
