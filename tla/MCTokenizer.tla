----------------------------- MODULE MCTokenizer -----------------------------
(* Texts that grow a rune at a time, so that TLC cuts every one of them.    *)
EXTENDS Tokenizer, TokenizerData

CONSTANTS Runes, MaxLen   \* the runes a text is made of, and their number

VARIABLE input   \* the text so far

TextInit == input = <<>>
TextNext == Len(input) < MaxLen /\ \E c \in Runes : input' = Append(input, c)
TextSpec == TextInit /\ [][TextNext]_input

(* Each rune of a text is in one word, in its place, and every word that is *)
(* indexed or searched for is a piece of it (PreFilter::Next and the three  *)
(* Cut).                                                                    *)
CutKeepsText == CutCovers(input) /\ WordsInText(input)

(* What stands on one side of a separator is cut as if it stood alone, so a *)
(* word is found whatever is written around it.                             *)
CutIsLocal == SeparatorsIsolate(input)

(* CalcDP, which looks at each position once, finds the heaviest of all     *)
(* ways to cut a text into words of the dictionary.                         *)
HeaviestPath == PathHeaviest(input)

(* Viterbi finds the best of all sequences of states.                       *)
BestStates == (input # <<>> /\ Range(input) \cap Ascii = {}) => StatesBest(input)
=============================================================================
