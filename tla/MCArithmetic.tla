---------------------------- MODULE MCArithmetic ----------------------------
(* A walk over the natural numbers, so that TLC evaluates at each what the *)
(* modules of pure arithmetic say of it: as the size of a request to the   *)
(* pool, as a page number, as the size of a document of the search engine. *)
EXTENDS SizeClass, PageMap, Excerpt

CONSTANTS From, To,     \* the numbers walked
          LongestText   \* documents no longer than this are looked at

VARIABLE number

Init == number = From
Next == number < To /\ number' = number + 1
Spec == Init /\ [][Next]_number

(* At every size up to MAX_BYTES: an object is freed to the list it was    *)
(* allocated from, which is one of the NFREELISTS there are; its caller    *)
(* gets no less than it asked for, and not much more; the span GetOneSpan  *)
(* asks for has room for an object and fits a list of the page cache;      *)
(* cutting that span overruns it only when the size does not divide it.    *)
SizesSound ==
  /\ SameList(number)
  /\ ListExists(number)
  /\ LittleWaste(number)
  /\ SpanSuits(number)
  /\ LastCut(number)

(* The next size goes to the same list or to the next one, and to another  *)
(* list exactly when it is rounded to another size: over the whole walk,   *)
(* no two sizes share a list.                                              *)
ListsInOrder ==
  [][/\ (Index(number') - Index(number)) \in {0, 1}
     /\ OneSizePerList(number, number')]_number

(* Every page number of the map, from both ends, has its own place in the  *)
(* trees, and Ensure goes to the leaves it should, 8 pages to a leaf and   *)
(* 12 leaves, from every start below 64 and for every count up to 64, past *)
(* the last leaf too.                                                      *)
PageMapSound ==
  /\ PlacesExact(number) /\ PlacesExact(Size - number)
  /\ number <= 4096 => EnsureExact(8, 12, number % 64, (number - 1) \div 64 + 1)

(* Wherever a word was found, GetDesc shows a piece of the document that   *)
(* begins at or before the word's first byte and never has the document's  *)
(* last one in it, though its comment lets it go to the end (searcher.hpp  *)
(* 124): the first byte of the word is shown unless it is that byte. Only  *)
(* of a document of one byte no piece is shown.                            *)
ExcerptsSound ==
  number <= LongestText =>
    \A pos \in 0 .. number - 1 : /\ ExcerptSound(number, pos)
                                 /\ NoExcerptOnlyOfOne(number, pos)
=============================================================================
