------------------------------ MODULE SearchPage ------------------------------
(* The script of wwwroot/index.html: searches are sent with $.ajax and their *)
(* answers come in any order, or not at all; the results are shown a page    *)
(* at a time; the last queries are kept in the browser's localStorage.       *)
(* A list of results is abstracted to the query it answers and its length.   *)
EXTENDS Integers, Sequences, SequencesExt, FiniteSets

CONSTANTS
  Queries,          \* what a user types, trimmed and not empty
  Total,            \* query -> the number of documents the server finds
  ResultsPerPage,   \* resultsPerPage: 8
  MaxSearches,      \* the queries kept: 5
  MaxInFlight,      \* bound: requests waiting for their answer
  NoQuery,          \* an empty input
  Null              \* JavaScript's null, and nothing on the screen

ASSUME PageAssumption ==
  /\ Total \in [Queries -> Nat]
  /\ ResultsPerPage \in Nat \ {0} /\ MaxSearches \in Nat \ {0}
  /\ MaxInFlight \in Nat
  /\ NoQuery \notin Queries /\ Null \notin Queries

VARIABLES
  input,             \* #searchInput
  previousSearches,
  stored,            \* localStorage.previousSearches
  listed,            \* the queries shown in #previousSearchList
  loading,           \* #loader is shown
  message,           \* #errorMessage: "", "failed", "no match"
  inFlight,          \* the queries sent and not yet answered
  allResults,        \* Null or a list of results
  currentPage,
  shown,             \* #resultContainer and #paginationContainer
  last,              \* the query sent last; kept for the properties
  overlapped         \* whether two requests were ever in flight together

vars == <<input, previousSearches, stored, listed, loading, message, inFlight,
          allResults, currentPage, shown, last, overlapped>>
historyVars == <<previousSearches, stored>>
resultVars == <<allResults, currentPage, shown, listed>>
ghostVars == <<last, overlapped>>

List(q) == [of |-> q, length |-> Total[q]]

(* What allResults begins with: an empty list, the answer to no query.      *)
NoResults == [of |-> NoQuery, length |-> 0]

(* Searcher::Search appends each hit to a Json::Value that starts as null,  *)
(* so an answer without hits is null and not an empty list.                 *)
Answer(q) == IF Total[q] = 0 THEN Null ELSE List(q)

-----------------------------------------------------------------------------
(* displayResults and displayPagination *)

(* Math.ceil(totalResults / resultsPerPage). *)
TotalPages(total) == (total + ResultsPerPage - 1) \div ResultsPerPage

(* start and end, as the numbers of the first and the last result shown.    *)
FirstOn(page) == (page - 1) * ResultsPerPage + 1
LastOn(page, total) == IF page * ResultsPerPage < total
                       THEN page * ResultsPerPage ELSE total

\* Wrong form: the last pages are reached one button short.
StartPageLate(page, pages) ==
  IF pages <= 5 \/ page <= 3 THEN 1
  ELSE IF page + 2 >= pages THEN pages - 4 ELSE page - 1

(* The buttons with numbers: five of them, if there are as many pages.      *)
StartPage(page, pages) ==
  IF pages <= 5 \/ page <= 3 THEN 1
  ELSE IF page + 2 >= pages THEN pages - 4 ELSE page - 2
EndPage(page, pages) ==
  IF pages <= 5 THEN pages
  ELSE IF page <= 3 THEN 5
  ELSE IF page + 2 >= pages THEN pages ELSE page + 2

\* Wrong form: the first page has a button for the one before it.
ScreenWithPrev(results, page) ==
  LET pages == TotalPages(results.length)
  IN [of |-> results.of, first |-> FirstOn(page),
      last |-> LastOn(page, results.length), prev |-> TRUE,
      numbers |-> StartPage(page, pages) .. EndPage(page, pages),
      next |-> page < pages]

Screen(results, page) ==
  LET pages == TotalPages(results.length)
  IN [of      |-> results.of,
      first   |-> FirstOn(page),
      last    |-> LastOn(page, results.length),
      prev    |-> page > 1,
      numbers |-> StartPage(page, pages) .. EndPage(page, pages),
      next    |-> page < pages]

\* Wrong form: the containers are emptied only when there is something to show.
DisplayResultsOver ==
  IF allResults' = Null
  THEN UNCHANGED <<shown, message, listed>>
  ELSE /\ shown' = Screen(allResults', currentPage')
       /\ listed' = previousSearches
       /\ UNCHANGED message

(* Both containers are emptied first. Reading the length of null throws and *)
(* ends the function there; an empty list would be told to the user.        *)
DisplayResults ==
  IF allResults' = Null
  THEN shown' = Null /\ UNCHANGED <<message, listed>>
  ELSE IF allResults'.length = 0
  THEN shown' = Null /\ message' = "no match" /\ UNCHANGED listed
  ELSE /\ shown' = Screen(allResults', currentPage')
       /\ listed' = previousSearches
       /\ UNCHANGED message

-----------------------------------------------------------------------------
(* The user *)

Type(q) ==
  /\ input' = q
  /\ UNCHANGED <<historyVars, resultVars, loading, message, inFlight, ghostVars>>

\* Wrong form: a query searched for again is kept again.
RememberedTwice(q) ==
  Append(IF Len(previousSearches) >= MaxSearches
         THEN Tail(previousSearches) ELSE previousSearches, q)

(* The query is kept unless it is; the oldest makes room for it.            *)
Remembered(q) ==
  IF q \in Range(previousSearches) THEN previousSearches
  ELSE Append(IF Len(previousSearches) >= MaxSearches
              THEN Tail(previousSearches) ELSE previousSearches, q)

(* Search() of a query; an empty input is answered with an alert alone.     *)
Send(q) ==
  /\ Len(inFlight) < MaxInFlight
  /\ previousSearches' = Remembered(q)
  /\ stored' = IF q \in Range(previousSearches) THEN stored
                                                ELSE previousSearches'
  /\ loading' = TRUE
  /\ message' = ""
  /\ inFlight' = Append(inFlight, q)
  /\ last' = q
  /\ overlapped' = (overlapped \/ inFlight # <<>>)

Search ==
  /\ input # NoQuery
  /\ Send(input)
  /\ UNCHANGED <<input, resultVars>>

(* A click on a query of the list searches for it again.                    *)
SearchAgain(k) ==
  /\ input' = listed[k]
  /\ Send(listed[k])
  /\ UNCHANGED resultVars

(* A click on a button of displayPagination. *)
Turn(page) ==
  /\ currentPage' = page
  /\ UNCHANGED allResults
  /\ DisplayResults
  /\ UNCHANGED <<input, historyVars, loading, inFlight, ghostVars>>
TurnBack == shown # Null /\ shown.prev /\ Turn(currentPage - 1)
TurnOn   == shown # Null /\ shown.next /\ Turn(currentPage + 1)
TurnTo(page) == /\ shown # Null
                /\ page \in shown.numbers \ {currentPage}
                /\ Turn(page)

(* The page is loaded again: what is in flight is forgotten.                *)
Reload ==
  /\ input' = NoQuery
  /\ previousSearches' = stored /\ UNCHANGED stored
  /\ listed' = stored
  /\ loading' = FALSE /\ message' = ""
  /\ inFlight' = <<>>
  /\ allResults' = NoResults /\ currentPage' = 1 /\ shown' = Null
  /\ last' = NoQuery /\ overlapped' = FALSE

-----------------------------------------------------------------------------
(* The answer to any of the requests in flight, or its failure. *)

(* The page turned to in the last results is not kept. *)
FirstPage == 1

Succeed(i) ==
  /\ inFlight' = RemoveAt(inFlight, i)
  /\ loading' = FALSE
  /\ allResults' = Answer(inFlight[i])
  /\ currentPage' = FirstPage
  /\ DisplayResults
  /\ UNCHANGED <<input, historyVars, ghostVars>>

\* Wrong form: the loader is hidden by an answer only.
LoadingAfterFailureStays == loading
LoadingAfterFailure == FALSE

Fail(i) ==
  /\ inFlight' = RemoveAt(inFlight, i)
  /\ loading' = LoadingAfterFailure
  /\ message' = "failed"
  /\ UNCHANGED <<input, historyVars, resultVars, ghostVars>>

Init ==
  /\ input = NoQuery
  /\ previousSearches = <<>> /\ stored = <<>> /\ listed = <<>>
  /\ loading = FALSE /\ message = "" /\ inFlight = <<>>
  /\ allResults = NoResults /\ currentPage = 1 /\ shown = Null
  /\ last = NoQuery /\ overlapped = FALSE

Next ==
  \/ \E q \in Queries \cup {NoQuery} : Type(q)
  \/ Search
  \/ \E k \in 1 .. Len(listed) : SearchAgain(k)
  \/ TurnBack \/ TurnOn
  \/ \E page \in 1 .. TotalPages(IF allResults = Null THEN 0
                                 ELSE allResults.length) : TurnTo(page)
  \/ Reload
  \/ \E i \in 1 .. Len(inFlight) : Succeed(i) \/ Fail(i)

Spec == Init /\ [][Next]_vars

(* $.ajax calls success or error of every request in the end.               *)
FairSpec == Spec /\ WF_vars(\E i \in 1 .. Len(inFlight) : Succeed(i) \/ Fail(i))

-----------------------------------------------------------------------------
(* Properties *)

Lists == {Null, NoResults} \cup {List(q) : q \in Queries}

(* The types of the variables. *)
TypeOK ==
  /\ input \in Queries \cup {NoQuery}
  /\ previousSearches \in Seq(Queries)
  /\ stored \in Seq(Queries) /\ listed \in Seq(Queries)
  /\ loading \in BOOLEAN /\ message \in {"", "failed", "no match"}
  /\ inFlight \in Seq(Queries)
  /\ allResults \in Lists /\ currentPage \in Nat \ {0}
  /\ last \in Queries \cup {NoQuery} /\ overlapped \in BOOLEAN

(* Whatever order answers, failures and clicks come in, what is on the      *)
(* screen is a page that exists of the results held now, with at least one  *)
(* of them and no more than a page of them, its own button among at most    *)
(* five, and a way on to the pages before and behind it (displayResults,    *)
(* displayPagination, and the currentPage their click handlers share).      *)
ScreenSound ==
  shown # Null =>
    LET pages == TotalPages(allResults.length)
    IN /\ allResults # Null /\ shown = Screen(allResults, currentPage)
       /\ 1 <= shown.first /\ shown.first <= shown.last
       /\ shown.last <= allResults.length
       /\ shown.last - shown.first < ResultsPerPage
       /\ currentPage \in shown.numbers
       /\ shown.numbers \subseteq 1 .. pages
       /\ Cardinality(shown.numbers) = IF pages < 5 THEN pages ELSE 5
       /\ shown.prev <=> shown.first > 1
       /\ shown.next <=> shown.last < allResults.length

(* The queries kept are different ones, no more than MaxSearches, the same  *)
(* as those a reload would find, and the last one sent is among them; the   *)
(* list on the screen may be older, and has only queries once sent.         *)
HistorySound ==
  /\ Len(previousSearches) <= MaxSearches
  /\ IsInjective(previousSearches)
  /\ stored = previousSearches
  /\ last # NoQuery => last \in Range(previousSearches)
  /\ IsInjective(listed)

(* When no two requests were in flight together, what is held and shown     *)
(* when none is left is the answer to the last query, or a failure is told. *)
ShowsTheLast ==
  (inFlight = <<>> /\ last # NoQuery /\ ~overlapped /\ message # "failed") =>
    /\ allResults = Answer(last)
    /\ shown = IF allResults = Null THEN Null ELSE Screen(allResults, currentPage)

(* The loader is hidden again, however answers and failures are mixed.      *)
LoaderEnds == loading ~> ~loading

(* A search without hits is told to the user: “没有搜索到相关的内容。”          *)
NoMatchTold ==
  (inFlight = <<>> /\ last # NoQuery /\ message # "failed" /\ Total[last] = 0)
    => message = "no match" \/ overlapped
=============================================================================
