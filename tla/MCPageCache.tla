----------------------------- MODULE MCPageCache -----------------------------
(* Small instances of PageCache for TLC. *)
EXTENDS PageCache, TLC

(* Descriptors are interchangeable: nothing compares or orders them. *)
Symmetric == Permutations(Spans)

OneToSix == 1 .. 6
TwoToSeven == 2 .. 7
One == {1}
Two == {2}
Three == {3}
=============================================================================
