------------------------------- MODULE Excerpt -------------------------------
(* Searcher::GetDesc: which bytes of a document of a given size are shown   *)
(* around a word found at a position. Positions count from 0, as there.     *)
EXTENDS Integers

CONSTANTS PrevStep, NextStep   \* prev_step and next_step: 50 and 100

ASSUME StepsAssumption == PrevStep \in Nat \ {0} /\ NextStep \in Nat \ {0}

(* start and end: as many bytes back and on as the document has, but end    *)
(* begins as size() - 1 and the excerpt stops before it.                    *)
ExcerptStart(pos) == IF pos > PrevStep THEN pos - PrevStep ELSE 0

\* Wrong form: the end of the document is taken for its last byte's place.
ExcerptEndOver(size, pos) ==
  IF pos < size - 1 - NextStep THEN pos + NextStep ELSE size

ExcerptEnd(size, pos) ==
  IF pos < size - 1 - NextStep THEN pos + NextStep ELSE size - 1

(* “None2” is answered in place of an excerpt. *)
NoExcerpt(size, pos) == ExcerptStart(pos) >= ExcerptEnd(size, pos)

(* substr(start, end - start) stays inside the document, is no longer than  *)
(* the two steps and begins no later than the word. It always ends before   *)
(* the document's last byte: the byte the word was found at is shown unless *)
(* it is that one, and a word that ends the document loses its last byte.   *)
ExcerptSound(size, pos) ==
  \/ NoExcerpt(size, pos)
  \/ /\ ExcerptStart(pos) \in 0 .. pos
     /\ ExcerptEnd(size, pos) \in pos .. size - 1
     /\ ExcerptEnd(size, pos) - ExcerptStart(pos) <= PrevStep + NextStep
     /\ pos < ExcerptEnd(size, pos) <=> pos # size - 1

(* Only a document of one byte has no excerpt. *)
NoExcerptOnlyOfOne(size, pos) == NoExcerpt(size, pos) => size = 1
=============================================================================
