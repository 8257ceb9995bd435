---------------------------- MODULE TokenizerData ----------------------------
(* A small alphabet, dictionary and hidden Markov model for TLC. "yun",     *)
(* "ji" and "suan" are Chinese characters, "stop" is their full stop, "bad" *)
(* a byte that is no UTF-8.                                                 *)
EXTENDS Integers, TLC

MCLetters == {"a", "B", "b"}
MCOtherAscii == {" ", "<", ">"}
MCSeparators == {" ", "stop"}

(* A word of ASCII, like “c++”, and words of two, three and four Chinese    *)
(* characters that overlap. “suan” is in neither dictionary nor model.      *)
MCDict ==
  <<"a", ".">> :> -6 @@ <<"a">> :> -8 @@
  <<"yun">> :> -6 @@ <<"ji">> :> -5 @@
  <<"yun", "ji">> :> -7 @@ <<"ji", "yun", "ji">> :> -14 @@
  <<"yun", "ji", "yun", "ji">> :> -13
MCMinWeight == -14
MCLower == "B" :> "b"

(* Tokenizer's MinDouble. *)
Impossible == -10000

(* The start and transition rows of hmm_model.utf8, rounded to tenths.      *)
MCStart == 0 :> -3 @@ 1 :> Impossible @@ 2 :> Impossible @@ 3 :> -15
MCTrans ==
  0 :> (0 :> Impossible @@ 1 :> -5 @@ 2 :> -9 @@ 3 :> Impossible) @@
  1 :> (0 :> -6 @@ 1 :> Impossible @@ 2 :> Impossible @@ 3 :> -8) @@
  2 :> (0 :> Impossible @@ 1 :> -3 @@ 2 :> -13 @@ 3 :> Impossible) @@
  3 :> (0 :> -7 @@ 1 :> Impossible @@ 2 :> Impossible @@ 3 :> -7)
MCEmit ==
  0 :> ("yun" :> -93 @@ "ji" :> -70) @@ 1 :> ("yun" :> -75 @@ "ji" :> -88) @@
  2 :> ("yun" :> -86 @@ "ji" :> -80) @@ 3 :> ("yun" :> -74 @@ "ji" :> -99)
=============================================================================
