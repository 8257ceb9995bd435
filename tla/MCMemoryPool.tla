---------------------------- MODULE MCMemoryPool ----------------------------
(* Small instances of MemoryPool for TLC. *)
EXTENDS MemoryPool, TLC

Symmetric == Permutations(Spans) \cup Permutations(Threads)

One == {1}
Two == {2}
OneAndTwo == {1, 2}
Three == {3}
ThreeToFive == 3 .. 5

(* One size or two: functions of the class. *)
Ones == <<1>>
Twos == <<2>>
Threes == <<3>>
OnesAndTwos == <<1, 2>>
OneAndFour == <<1, 4>>
BothTwo == <<2, 2>>
=============================================================================
