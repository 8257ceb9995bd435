-------------------------- MODULE SearchPageProofs --------------------------
(* The page is right for any queries, numbers of hits, lengths of a page   *)
(* and of the history, and any number of requests in flight.               *)
EXTENDS SearchPage, FiniteSetTheorems, SequenceTheorems, TLAPS

-----------------------------------------------------------------------------
(* The arithmetic of pages *)

(* What is assumed of the constants, one by one. *)
LEMMA PageConstants ==
  /\ ResultsPerPage \in Nat /\ ResultsPerPage > 0
  /\ MaxSearches \in Nat /\ MaxSearches > 0
  /\ \A q \in Queries : Total[q] \in Nat /\ q # NoQuery
BY PageAssumption

(* Multiplying keeps the order. *)
LEMMA TimesKeepsOrder ==
  ASSUME NEW a \in Nat, NEW b \in Nat, NEW d \in Nat, a <= b
  PROVE  a * d <= b * d
<1>1. PICK c \in Nat : b = a + c
  <2>1. b = a + (b - a) /\ b - a \in Nat
    OBVIOUS
  <2> QED  BY <2>1
<1>2. b * d = a * d + c * d /\ c * d \in Nat /\ a * d \in Nat
  BY <1>1
<1> QED  BY <1>2

(* Math.ceil in displayResults: the last page is not empty, and no result  *)
(* is behind it.                                                           *)
LEMMA PagesHoldAll ==
  ASSUME NEW total \in Nat, total > 0
  PROVE  /\ TotalPages(total) \in Nat /\ TotalPages(total) > 0
         /\ (TotalPages(total) - 1) * ResultsPerPage < total
         /\ total <= TotalPages(total) * ResultsPerPage
<1> DEFINE R == ResultsPerPage
           q == (total + R - 1) \div R
<1>1. R \in Nat /\ R > 0
  BY PageConstants
<1>2. q \in Nat /\ q * R <= total + R - 1 /\ total + R - 1 < q * R + R
  BY <1>1, total + R - 1 \in Nat
<1>3. TotalPages(total) = q
  BY DEF TotalPages
<1> HIDE DEF q, R
<1>4. q > 0
  <2>1. CASE q = 0
    <3>1. q * R = 0
      BY <2>1, <1>1
    <3> QED  BY <3>1, <1>1, <1>2
  <2> QED  BY <2>1, <1>2
<1>5. (q - 1) * R = q * R - R /\ q * R \in Nat
  BY <1>1, <1>2, <1>4
<1> QED  BY <1>1, <1>2, <1>3, <1>4, <1>5 DEF R

(* On every page that exists the screen shows results that exist, at least *)
(* one and no more than a page of them, and the right buttons.             *)
LEMMA EveryPageSound ==
  ASSUME NEW total \in Nat, total > 0, NEW page \in 1 .. TotalPages(total)
  PROVE  /\ 1 <= FirstOn(page) /\ FirstOn(page) <= LastOn(page, total)
         /\ LastOn(page, total) <= total
         /\ LastOn(page, total) - FirstOn(page) < ResultsPerPage
         /\ page > 1 <=> FirstOn(page) > 1
         /\ page < TotalPages(total) <=> LastOn(page, total) < total
<1> DEFINE R == ResultsPerPage
           P == TotalPages(total)
           before == (page - 1) * R
           upto == page * R
<1>1. R \in Nat /\ R > 0
  BY PageConstants
<1>2. P \in Nat /\ P > 0 /\ (P - 1) * R < total /\ total <= P * R
  BY PagesHoldAll
<1>3. page \in Nat /\ page >= 1 /\ page <= P /\ page - 1 \in Nat
  BY <1>2
<1>4. before \in Nat /\ upto = before + R
  BY <1>1, <1>3
<1>5. before < total
  <2>1. (page - 1) * R <= (P - 1) * R
    BY <1>1, <1>2, <1>3, TimesKeepsOrder
  <2> QED  BY <1>1, <1>2, <1>4, <2>1
<1>6. page > 1 <=> before > 0
  <2>1. CASE page = 1
    <3>1. before = 0
      BY <2>1, <1>1
    <3> QED  BY <2>1, <3>1
  <2>2. CASE page > 1
    <3>1. 1 * R <= (page - 1) * R
      BY <2>2, <1>1, <1>3, TimesKeepsOrder
    <3> QED  BY <2>2, <3>1, <1>1, <1>4
  <2> QED  BY <1>3, <2>1, <2>2
<1>7. page < P <=> upto < total
  <2>1. CASE page < P
    <3>1. page * R <= (P - 1) * R
      BY <2>1, <1>1, <1>2, <1>3, TimesKeepsOrder
    <3> QED  BY <2>1, <3>1, <1>1, <1>2, <1>4
  <2>2. CASE page = P
    <3>1. upto = P * R
      BY <2>2
    <3>2. upto \in Nat
      BY <1>1, <1>4
    <3> HIDE DEF upto
    <3> QED  BY <2>2, <3>1, <3>2, <1>2
  <2> QED  BY <1>2, <1>3, <2>1, <2>2
<1>8. FirstOn(page) = before + 1
  BY DEF FirstOn
<1>9. LastOn(page, total) = IF upto < total THEN upto ELSE total
  BY DEF LastOn
<1> HIDE DEF R, P, before, upto
<1> QED  BY <1>1, <1>3, <1>4, <1>5, <1>6, <1>7, <1>8, <1>9 DEF R, P

(* The window of buttons holds the page's own, and five of the pages, or   *)
(* all there are (displayPagination).                                      *)
LEMMA ButtonsSound ==
  ASSUME NEW pages \in Nat, NEW page \in 1 .. pages
  PROVE  LET numbers == StartPage(page, pages) .. EndPage(page, pages)
         IN /\ page \in numbers
            /\ numbers \subseteq 1 .. pages
            /\ Cardinality(numbers) = IF pages < 5 THEN pages ELSE 5
<1> DEFINE a == StartPage(page, pages)
           b == EndPage(page, pages)
<1>1. /\ a \in Int /\ b \in Int /\ 1 <= a /\ a <= page /\ page <= b /\ b <= pages
      /\ b - a + 1 = IF pages < 5 THEN pages ELSE 5
  BY DEF StartPage, EndPage
<1> HIDE DEF a, b
<1>2. Cardinality(a .. b) = b - a + 1
  BY <1>1, FS_Interval
<1> QED  BY <1>1, <1>2 DEF a, b

-----------------------------------------------------------------------------
(* Sequences *)

(* The history after a search: still different queries, no more than there *)
(* may be, and the one searched for among them (Search).                   *)
LEMMA RememberedSound ==
  ASSUME previousSearches \in Seq(Queries), IsInjective(previousSearches),
         Len(previousSearches) <= MaxSearches, NEW q \in Queries
  PROVE  /\ Remembered(q) \in Seq(Queries)
         /\ Len(Remembered(q)) <= MaxSearches
         /\ IsInjective(Remembered(q))
         /\ q \in Range(Remembered(q))
<1>1. CASE q \in Range(previousSearches)
  BY <1>1 DEF Remembered
<1>2. CASE q \notin Range(previousSearches)
  <2> DEFINE full == Len(previousSearches) >= MaxSearches
             s == IF full THEN Tail(previousSearches) ELSE previousSearches
             k == IF full THEN 1 ELSE 0
  <2>1. /\ MaxSearches \in Nat /\ MaxSearches > 0
        /\ Len(previousSearches) \in Nat
        /\ DOMAIN previousSearches = 1 .. Len(previousSearches)
    BY PageConstants, LenProperties
  <2>2. /\ s \in Seq(Queries) /\ Len(s) = Len(previousSearches) - k
        /\ \A i \in 1 .. Len(s) : s[i] = previousSearches[i + k]
    <3>1. CASE full
      <4>1. previousSearches # <<>>
        BY <3>1, <2>1
      <4> QED  BY <3>1, <4>1, HeadTailProperties
    <3>2. CASE ~full
      <4>1. s = previousSearches /\ k = 0
        BY <3>2
      <4>2. \A i \in 1 .. Len(previousSearches) : i + 0 = i
        OBVIOUS
      <4> HIDE DEF s, k
      <4> QED  BY <4>1, <4>2, <2>1
    <3> QED  BY <3>1, <3>2
  <2>3. k \in {0, 1} /\ (k = 1 \/ Len(previousSearches) < MaxSearches)
    BY <2>1
  <2>4. Remembered(q) = Append(s, q)
    BY <1>2 DEF Remembered
  <2> HIDE DEF s, k, full
  <2>5. \A i \in 1 .. Len(s) : s[i] # q
    BY <1>2, <2>1, <2>2, <2>3 DEF Range
  <2>6. \A i, j \in 1 .. Len(s) : s[i] = s[j] => i = j
    <3> SUFFICES ASSUME NEW i \in 1 .. Len(s), NEW j \in 1 .. Len(s), s[i] = s[j]
                 PROVE  i = j
      OBVIOUS
    <3>1. i + k \in DOMAIN previousSearches /\ j + k \in DOMAIN previousSearches
      BY <2>1, <2>2, <2>3
    <3>2. previousSearches[i + k] = previousSearches[j + k]
      BY <2>2
    <3>3. i + k = j + k
      BY <3>1, <3>2, Zenon DEF IsInjective
    <3> QED  BY <3>3, <2>3
  <2>7. /\ Remembered(q) \in Seq(Queries)
        /\ Len(Remembered(q)) = Len(s) + 1
        /\ \A i \in 1 .. Len(s) : Remembered(q)[i] = s[i]
        /\ Remembered(q)[Len(s) + 1] = q
    BY <2>2, <2>4, AppendProperties
  <2>8. Len(s) \in Nat /\ DOMAIN Remembered(q) = 1 .. Len(s) + 1
    BY <2>2, <2>7, LenProperties
  <2>9. IsInjective(Remembered(q))
    BY <2>5, <2>6, <2>7, <2>8 DEF IsInjective
  <2>10. q \in Range(Remembered(q))
    BY <2>7, <2>8 DEF Range
  <2> QED  BY <2>1, <2>2, <2>3, <2>7, <2>9, <2>10
<1> QED  BY <1>1, <1>2

(* An answered request leaves the others in flight. *)
LEMMA OneLess ==
  ASSUME NEW S, NEW s \in Seq(S), NEW i \in 1 .. Len(s)
  PROVE  /\ RemoveAt(s, i) \in Seq(S)
         /\ Len(RemoveAt(s, i)) = Len(s) - 1
<1>1. Len(s) \in Nat
  BY LenProperties
<1>2. /\ SubSeq(s, 1, i - 1) \in Seq(S) /\ Len(SubSeq(s, 1, i - 1)) = i - 1
      /\ SubSeq(s, i + 1, Len(s)) \in Seq(S)
      /\ Len(SubSeq(s, i + 1, Len(s))) = Len(s) - i
  BY <1>1, ElementOfSeq, SubSeqProperties
<1> DEFINE front == SubSeq(s, 1, i - 1)
           back == SubSeq(s, i + 1, Len(s))
<1>3. RemoveAt(s, i) = front \o back
  BY Zenon DEF RemoveAt
<1>5. Len(front) = i - 1 /\ Len(back) = Len(s) - i
  BY <1>2
<1> HIDE DEF front, back
<1>4. front \o back \in Seq(S) /\ Len(front \o back) = Len(front) + Len(back)
  BY <1>2, ConcatProperties DEF front, back
<1>6. (i - 1) + (Len(s) - i) = Len(s) - 1
  BY <1>1
<1> QED  BY <1>3, <1>4, <1>5, <1>6

-----------------------------------------------------------------------------
(* The inductive invariant *)

(* What is on the screen was drawn from what is held now. *)
Screened ==
  shown # Null =>
    /\ allResults # Null
    /\ allResults.length \in Nat /\ allResults.length > 0
    /\ currentPage \in 1 .. TotalPages(allResults.length)
    /\ shown = Screen(allResults, currentPage)

(* Until two requests overlap, the one in flight is the last one sent. *)
OneAtATime ==
  ~overlapped => /\ Len(inFlight) <= 1
                 /\ \A i \in 1 .. Len(inFlight) : inFlight[i] = last

IInv == TypeOK /\ Screened /\ HistorySound /\ OneAtATime /\ ShowsTheLast

(* What the browser starts with, an empty history and nothing in flight.   *)
LEMMA Nothing ==
  /\ <<>> \in Seq(Queries)
  /\ Len(<<>>) = 0
  /\ IsInjective(<<>>)
  /\ \A s \in Seq(Queries) : Len(s) \in Nat /\ (Len(s) = 0 <=> s = <<>>)
<1>1. <<>> \in Seq(Queries) /\ Len(<<>>) = 0
  BY EmptySeq
<1>2. DOMAIN <<>> = {}
  BY <1>1, LenProperties, 1 .. 0 = {}
<1>3. IsInjective(<<>>)
  BY <1>2, Zenon DEF IsInjective
<1>4. \A s \in Seq(Queries) : Len(s) \in Nat /\ (Len(s) = 0 <=> s = <<>>)
  BY EmptySeq, LenProperties
<1> QED  BY <1>1, <1>3, <1>4

(* The page as the browser loads it first. *)
LEMMA Inits == Init => IInv
<1> SUFFICES ASSUME Init PROVE IInv
  OBVIOUS
<1>1. TypeOK
  <2>1. NoResults \in Lists /\ 1 \in Nat \ {0}
    BY DEF Lists
  <2> QED  BY <2>1, Nothing, Zenon DEF Init, TypeOK
<1>2. HistorySound
  <2>1. Len(<<>>) <= MaxSearches
    BY Nothing, PageConstants
  <2> QED  BY <2>1, Nothing, Zenon DEF Init, HistorySound
<1>3. Screened /\ ShowsTheLast
  BY DEF Init, Screened, ShowsTheLast
<1>4. OneAtATime
  <2>1. Len(inFlight) = 0
    BY Nothing, Zenon DEF Init
  <2> QED  BY <2>1 DEF OneAtATime
<1> QED  BY <1>1, <1>2, <1>3, <1>4 DEF IInv

(* What Screened says of the screen is what a user must find there. *)
LEMMA ScreensAreSound == Screened => ScreenSound
<1> SUFFICES ASSUME Screened, shown # Null PROVE ScreenSound
  BY DEF ScreenSound
<1> DEFINE total == allResults.length
           pages == TotalPages(total)
<1>1. /\ allResults # Null /\ total \in Nat /\ total > 0
      /\ currentPage \in 1 .. pages /\ shown = Screen(allResults, currentPage)
  BY DEF Screened
<1>2. pages \in Nat
  BY <1>1, PagesHoldAll
<1>3. /\ shown.first = FirstOn(currentPage)
      /\ shown.last = LastOn(currentPage, total)
      /\ shown.prev = (currentPage > 1)
      /\ shown.numbers = StartPage(currentPage, pages) .. EndPage(currentPage, pages)
      /\ shown.next = (currentPage < pages)
  BY <1>1 DEF Screen
<1>4. /\ 1 <= shown.first /\ shown.first <= shown.last /\ shown.last <= total
      /\ shown.last - shown.first < ResultsPerPage
      /\ currentPage > 1 <=> shown.first > 1
      /\ currentPage < pages <=> shown.last < total
  BY <1>1, <1>3, EveryPageSound
<1>5. /\ currentPage \in shown.numbers /\ shown.numbers \subseteq 1 .. pages
      /\ Cardinality(shown.numbers) = IF pages < 5 THEN pages ELSE 5
  BY <1>1, <1>2, <1>3, ButtonsSound
<1>6. shown.prev <=> shown.first > 1
  BY <1>3, <1>4, Zenon
<1>7. shown.next <=> shown.last < total
  BY <1>3, <1>4, Zenon
<1> QED  BY <1>1, <1>4, <1>5, <1>6, <1>7, Zenon DEF ScreenSound

(* displayResults draws a page of the results it is given, and only ever   *)
(* ends early on null.                                                     *)
LEMMA Redraws ==
  ASSUME DisplayResults, allResults' \in Lists,
         allResults' # Null => /\ allResults'.length > 0
                               /\ currentPage' \in 1 .. TotalPages(allResults'.length)
  PROVE  /\ Screened'
         /\ shown' = IF allResults' = Null THEN Null
                                           ELSE Screen(allResults', currentPage')
         /\ message' = message
         /\ listed' \in {listed, previousSearches}
<1>1. CASE allResults' = Null
  BY <1>1 DEF DisplayResults, Screened
<1>2. CASE allResults' # Null
  <2>1. allResults'.length \in Nat
    BY <1>2, PageConstants DEF Lists, List, NoResults
  <2>2. ~(allResults'.length = 0)
    BY <1>2, <2>1
  <2>3. /\ shown' = Screen(allResults', currentPage')
        /\ listed' = previousSearches /\ message' = message
    BY <1>2, <2>2, Zenon DEF DisplayResults
  <2> QED  BY <1>2, <2>1, <2>3 DEF Screened
<1> QED  BY <1>1, <1>2

-----------------------------------------------------------------------------
(* Every step preserves it. *)

(* A search, of what was typed or of a query of the list. *)
LEMMA SendPreserves ==
  ASSUME IInv, NEW q \in Queries, Send(q), input' \in Queries, UNCHANGED resultVars
  PROVE  IInv'
<1>1. /\ Remembered(q) \in Seq(Queries) /\ Len(Remembered(q)) <= MaxSearches
      /\ IsInjective(Remembered(q)) /\ q \in Range(Remembered(q))
  BY RememberedSound DEF IInv, TypeOK, HistorySound
<1>2. stored' = previousSearches' /\ previousSearches' = Remembered(q)
  BY DEF IInv, HistorySound, Send, Remembered
<1>3. inFlight \in Seq(Queries) /\ inFlight' = Append(inFlight, q)
  BY DEF IInv, TypeOK, Send
<1>4. /\ inFlight' \in Seq(Queries) /\ inFlight' # <<>>
      /\ Len(inFlight') = Len(inFlight) + 1
      /\ inFlight = <<>> => Len(inFlight) = 0 /\ inFlight'[1] = q
  BY <1>3, AppendProperties, Nothing
<1>5. TypeOK'
  BY <1>1, <1>2, <1>4 DEF IInv, TypeOK, Send, resultVars
<1>6. Screened'
  BY DEF IInv, Screened, resultVars
<1>7. HistorySound'
  BY <1>1, <1>2 DEF IInv, HistorySound, Send, resultVars
<1>8. OneAtATime'
  <2>1. ~overlapped' => inFlight = <<>>
    BY DEF Send
  <2>2. last' = q
    BY DEF Send
  <2> QED  BY <1>4, <2>1, <2>2 DEF OneAtATime
<1>9. ShowsTheLast'
  BY <1>4 DEF ShowsTheLast
<1> QED  BY <1>5, <1>6, <1>7, <1>8, <1>9 DEF IInv

(* A button of a page that exists. *)
LEMMA TurnPreserves ==
  ASSUME IInv, shown # Null, NEW page, Turn(page),
         page \in 1 .. TotalPages(allResults.length)
  PROVE  IInv'
<1>1. /\ allResults # Null /\ allResults' = allResults /\ allResults \in Lists
      /\ allResults.length > 0 /\ currentPage' = page /\ DisplayResults
  BY DEF IInv, TypeOK, Screened, Turn
<1>2. /\ Screened' /\ shown' = Screen(allResults', currentPage')
      /\ message' = message /\ listed' \in {listed, previousSearches}
  BY <1>1, Redraws
<1>3. /\ input' = input /\ previousSearches' = previousSearches
      /\ stored' = stored /\ loading' = loading /\ inFlight' = inFlight
      /\ last' = last /\ overlapped' = overlapped
  BY DEF Turn, historyVars, ghostVars
<1>4. page \in Nat \ {0}
  OBVIOUS
<1>5. TypeOK'
  BY <1>1, <1>2, <1>3, <1>4 DEF IInv, TypeOK, Lists
<1>6. HistorySound'
  BY <1>2, <1>3 DEF IInv, HistorySound
<1>7. OneAtATime'
  BY <1>3 DEF IInv, OneAtATime
<1>8. ShowsTheLast'
  BY <1>1, <1>2, <1>3 DEF IInv, ShowsTheLast, Answer
<1> QED  BY <1>2, <1>5, <1>6, <1>7, <1>8 DEF IInv

(* An answer, to whichever request: its first page is shown, or nothing.   *)
LEMMA SucceedPreserves ==
  ASSUME IInv, NEW i \in 1 .. Len(inFlight), Succeed(i)
  PROVE  IInv'
<1> DEFINE q == inFlight[i]
<1>1. inFlight \in Seq(Queries) /\ q \in Queries
  BY ElementOfSeq DEF IInv, TypeOK
<1>2. inFlight' \in Seq(Queries) /\ Len(inFlight') = Len(inFlight) - 1
  BY <1>1, OneLess DEF Succeed
<1>3. /\ allResults' = Answer(q) /\ currentPage' = 1 /\ DisplayResults
      /\ loading' = FALSE /\ input' = input
      /\ previousSearches' = previousSearches /\ stored' = stored
      /\ last' = last /\ overlapped' = overlapped
  BY DEF Succeed, FirstPage, historyVars, ghostVars
<1>4. /\ allResults' \in Lists
      /\ allResults' # Null => /\ allResults'.length > 0
                              /\ 1 \in 1 .. TotalPages(allResults'.length)
  <2>1. CASE Total[q] = 0
    BY <2>1, <1>3 DEF Answer, Lists
  <2>2. CASE Total[q] # 0
    <3>1. allResults' = List(q) /\ allResults'.length = Total[q]
      BY <2>2, <1>3 DEF Answer, List
    <3>2. Total[q] \in Nat /\ Total[q] > 0
      BY <2>2, <1>1, PageConstants
    <3>3. TotalPages(Total[q]) \in Nat /\ TotalPages(Total[q]) > 0
      BY <3>2, PagesHoldAll
    <3> QED  BY <1>1, <3>1, <3>2, <3>3 DEF Lists
  <2> QED  BY <2>1, <2>2
<1>5. /\ Screened' /\ message' = message /\ listed' \in {listed, previousSearches}
      /\ shown' = IF allResults' = Null THEN Null ELSE Screen(allResults', currentPage')
  BY <1>3, <1>4, Redraws
<1>6. TypeOK'
  <2>1. allResults' \in Lists'
    BY <1>4 DEF Lists
  <2>2. /\ listed' \in Seq(Queries) /\ message' \in {"", "failed", "no match"}
    BY <1>5 DEF IInv, TypeOK
  <2>3. /\ input' \in Queries \cup {NoQuery} /\ previousSearches' \in Seq(Queries)
        /\ stored' \in Seq(Queries)
    BY <1>3 DEF IInv, TypeOK
  <2>4. loading' \in BOOLEAN
    BY <1>3, Zenon
  <2>5. currentPage' \in Nat \ {0}
    <3>1. 1 \in Nat \ {0}
      OBVIOUS
    <3> QED  BY <1>3, <3>1, Zenon
  <2>6. last' \in Queries \cup {NoQuery} /\ overlapped' \in BOOLEAN
    BY <1>3 DEF IInv, TypeOK
  <2> QED  BY <1>2, <2>1, <2>2, <2>3, <2>4, <2>5, <2>6 DEF TypeOK
<1>7. HistorySound'
  BY <1>3, <1>5 DEF IInv, HistorySound
<1>8. ~overlapped => q = last /\ Len(inFlight') = 0
  <2>1. Len(inFlight) \in Nat /\ Len(inFlight) > 0
    BY <1>1, LenProperties
  <2> QED  BY <1>2, <2>1 DEF IInv, OneAtATime
<1>9. OneAtATime'
  BY <1>3, <1>8 DEF OneAtATime
<1>10. ShowsTheLast'
  BY <1>3, <1>5, <1>8 DEF ShowsTheLast
<1> QED  BY <1>5, <1>6, <1>7, <1>9, <1>10 DEF IInv

(* A failure is told, and leaves the results that are shown. *)
LEMMA FailPreserves ==
  ASSUME IInv, NEW i \in 1 .. Len(inFlight), Fail(i)
  PROVE  IInv'
<1>1. /\ inFlight \in Seq(Queries) /\ inFlight' \in Seq(Queries)
      /\ Len(inFlight') = Len(inFlight) - 1
  BY OneLess DEF IInv, TypeOK, Fail
<1>2. Len(inFlight) \in Nat /\ Len(inFlight) > 0
  BY <1>1, LenProperties
<1>3. TypeOK'
  BY <1>1 DEF IInv, TypeOK, Fail, LoadingAfterFailure, historyVars, resultVars, ghostVars
<1>4. Screened' /\ HistorySound'
  BY DEF IInv, Screened, HistorySound, Fail, historyVars, resultVars, ghostVars
<1>5. OneAtATime'
  <2>1. Len(inFlight') \in Nat
    BY <1>1, LenProperties
  <2>2. overlapped' = overlapped
    BY DEF Fail, ghostVars
  <2> QED  BY <1>1, <1>2, <2>1, <2>2 DEF IInv, OneAtATime
<1>6. ShowsTheLast'
  BY DEF ShowsTheLast, Fail
<1> QED  BY <1>3, <1>4, <1>5, <1>6 DEF IInv

(* A reload keeps the history alone, as localStorage has it. *)
LEMMA ReloadPreserves == IInv /\ Reload => IInv'
<1> SUFFICES ASSUME IInv, Reload PROVE IInv'
  OBVIOUS
<1>1. TypeOK'
  <2>1. NoResults \in Lists /\ 1 \in Nat \ {0}
    BY DEF Lists
  <2>2. Lists' = Lists
    BY DEF Lists
  <2>3. stored \in Seq(Queries)
    BY DEF IInv, TypeOK
  <2> QED  BY <2>1, <2>2, <2>3, Nothing, Zenon DEF TypeOK, Reload
<1>2. HistorySound'
  BY DEF IInv, HistorySound, Reload
<1>3. Screened' /\ ShowsTheLast'
  BY DEF Screened, ShowsTheLast, Reload
<1>4. OneAtATime'
  <2>1. Len(inFlight') = 0
    BY Nothing, Zenon DEF Reload
  <2> QED  BY <2>1 DEF OneAtATime
<1> QED  BY <1>1, <1>2, <1>3, <1>4 DEF IInv

(* Typing changes the input alone. *)
LEMMA TypePreserves ==
  ASSUME IInv, NEW q \in Queries \cup {NoQuery}, Type(q)
  PROVE  IInv'
<1>1. TypeOK'
  BY DEF IInv, TypeOK, Type, historyVars, resultVars, ghostVars
<1>2. Screened' /\ HistorySound' /\ OneAtATime' /\ ShowsTheLast'
  BY DEF IInv, Screened, HistorySound, OneAtATime, ShowsTheLast, Type, historyVars,
         resultVars, ghostVars
<1> QED  BY <1>1, <1>2 DEF IInv

(* The buttons on the screen are of pages that exist. *)
LEMMA ButtonsLeadToPages ==
  ASSUME IInv, shown # Null
  PROVE  /\ currentPage \in 1 .. TotalPages(allResults.length)
         /\ TotalPages(allResults.length) \in Nat
         /\ shown.prev => currentPage > 1
         /\ shown.next => currentPage < TotalPages(allResults.length)
         /\ shown.numbers \subseteq 1 .. TotalPages(allResults.length)
<1>1. /\ currentPage \in 1 .. TotalPages(allResults.length)
      /\ TotalPages(allResults.length) \in Nat
      /\ shown = Screen(allResults, currentPage)
  BY PagesHoldAll DEF IInv, Screened
<1>2. shown.numbers \subseteq 1 .. TotalPages(allResults.length)
  BY ScreensAreSound DEF IInv, ScreenSound
<1>3. /\ shown.prev = (currentPage > 1)
      /\ shown.next = (currentPage < TotalPages(allResults.length))
  BY <1>1 DEF Screen
<1> QED  BY <1>1, <1>2, <1>3, Zenon

(* One step per event of the script. *)
LEMMA Steps == IInv /\ [Next]_vars => IInv'
<1> SUFFICES ASSUME IInv, [Next]_vars PROVE IInv'
  OBVIOUS
<1>1. CASE UNCHANGED vars
  BY <1>1 DEF IInv, TypeOK, Screened, HistorySound, OneAtATime, ShowsTheLast, vars
<1>2. CASE \E q \in Queries \cup {NoQuery} : Type(q)
  BY <1>2, TypePreserves
<1>3. CASE Search
  <2>1. input \in Queries /\ input' = input
    BY <1>3 DEF IInv, TypeOK, Search
  <2> QED  BY <1>3, <2>1, SendPreserves DEF Search
<1>4. ASSUME NEW k \in 1 .. Len(listed), SearchAgain(k) PROVE IInv'
  <2>1. listed[k] \in Queries
    BY ElementOfSeq DEF IInv, TypeOK
  <2> QED  BY <1>4, <2>1, SendPreserves DEF SearchAgain
<1>5. CASE TurnBack
  <2>1. currentPage - 1 \in 1 .. TotalPages(allResults.length)
    BY <1>5, ButtonsLeadToPages DEF TurnBack
  <2> QED  BY <1>5, <2>1, TurnPreserves DEF TurnBack
<1>6. CASE TurnOn
  <2>1. currentPage + 1 \in 1 .. TotalPages(allResults.length)
    BY <1>6, ButtonsLeadToPages DEF TurnOn
  <2> QED  BY <1>6, <2>1, TurnPreserves DEF TurnOn
<1>7. ASSUME NEW page, TurnTo(page) PROVE IInv'
  <2>1. page \in 1 .. TotalPages(allResults.length)
    BY <1>7, ButtonsLeadToPages DEF TurnTo
  <2> QED  BY <1>7, <2>1, TurnPreserves DEF TurnTo
<1>8. CASE Reload
  BY <1>8, ReloadPreserves
<1>9. CASE \E i \in 1 .. Len(inFlight) : Succeed(i) \/ Fail(i)
  BY <1>9, SucceedPreserves, FailPreserves
<1> QED  BY <1>1, <1>2, <1>3, <1>4, <1>5, <1>6, <1>7, <1>8, <1>9 DEF Next

(* The invariant holds of every behaviour of the page. *)
LEMMA Invariance == Spec => []IInv
BY Inits, Steps, PTL DEF Spec

-----------------------------------------------------------------------------
(* Theorems *)

(* Every variable of the script stays in its range. *)
THEOREM PageTyping == Spec => []TypeOK
<1>1. IInv => TypeOK
  BY DEF IInv
<1> QED  BY <1>1, Invariance, PTL

(* The screen is a page that exists of the results held now, with the      *)
(* right buttons, whatever order answers, failures and clicks come in.     *)
THEOREM ScreensSound == Spec => []ScreenSound
<1>1. IInv => ScreenSound
  BY ScreensAreSound DEF IInv
<1> QED  BY <1>1, Invariance, PTL

(* The history and its copy hold the same queries, different ones, not too *)
(* many, with the last one sent among them.                                *)
THEOREM HistoriesSound == Spec => []HistorySound
<1>1. IInv => HistorySound
  BY DEF IInv
<1> QED  BY <1>1, Invariance, PTL

(* A page whose searches do not overlap shows the answer to the last one.  *)
THEOREM LastAnswerShown == Spec => []ShowsTheLast
<1>1. IInv => ShowsTheLast
  BY DEF IInv
<1> QED  BY <1>1, Invariance, PTL
=============================================================================
