--------------------------- MODULE MCPageCacheLinks ---------------------------
(* A small instance of PageCache, in memory, for TLC. *)
EXTENDS PageCacheLinks, TLC

(* Descriptors are interchangeable: nothing compares or orders them. *)
Symmetric == Permutations(Spans)

ThreeToEight == 3 .. 8
OneAndTwo == {1, 2}
TwoThreeFour == {2, 3, 4}
===============================================================================
