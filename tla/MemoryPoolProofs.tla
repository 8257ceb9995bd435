-------------------------- MODULE MemoryPoolProofs --------------------------
(***************************************************************************)
(* The three layers together are correct for any number of threads, any    *)
(* sizes and any address space, as long as nobody asks for more pages than *)
(* the longest listed span has, until a merge takes a span that is held.   *)
(* As in PageCacheProofs, whose hypotheses these are, only one of a large  *)
(* request is ever taken so, and none of the length no merge can reach.    *)
(***************************************************************************)
EXTENDS MemoryPool, ListLemmas

PCP == INSTANCE PageCacheProofs

NoHuge == LargeRequests \subseteq 1 .. NPAGES - 1

NoMergeableLarge == LargeRequests \subseteq {NPAGES - 1}

-----------------------------------------------------------------------------
(* The inductive invariant *)

(* The objects on each linked list. *)
InCache(t, c) == ToSet(freeLists[t][c])
InQueue(t) == ToSet(queue[t])
InSpan(s) == ToSet(freeList[s])

(* A span that is in the bucket of its size. *)
Central(s) == objSize[s] \in Classes /\ s \in ToSet(centralLists[objSize[s]])

Count(s) == Len(Carved(s, ObjSize[objSize[s]]))
Objects(s) == ToSet(Carved(s, ObjSize[objSize[s]]))

(* A bucket has spans of its own size, each once, and all of them in use.  *)
BucketsOK ==
  \A c \in Classes :
    /\ IsInjective(centralLists[c])
    /\ \A s \in ToSet(centralLists[c]) :
         s \in used /\ objSize[s] = c /\ n[s] = MovePages[c]

(* Of a span in a bucket every object is in its list or out of it, and     *)
(* _useCount is what the list lacks; any other span has no objects.        *)
SpansOK ==
  \A s \in Spans :
    /\ Central(s) => /\ useCount[s] + Len(freeList[s]) = Count(s)
                     /\ InSpan(s) \subseteq Objects(s)
                     /\ \A a \in OutOfSpan : SpanOf(a) = s => a \in Objects(s)
                     /\ Objects(s) \subseteq InSpan(s) \cup OutOfSpan
    /\ ~Central(s) => useCount[s] = 0 /\ freeList[s] = <<>>

(* Objects out of their span have it in the bucket of their size. *)
HomesOK ==
  /\ \A a \in OutOfSpan : SpanOf(a) \in Spans /\ Central(SpanOf(a))
  /\ \A t \in Threads, c \in Classes : \A a \in InCache(t, c) :
       objSize[SpanOf(a)] = c
  /\ \A t \in Threads : \A a \in InQueue(t) : objSize[SpanOf(a)] = cls[t]

(* What is held of a span of the large path is its first unit. *)
LargeOK ==
  \A a \in held : objSize[SpanOf(a)] = Large =>
    SpanOf(a) \in used /\ a = pageId[SpanOf(a)] * PageUnits

(* The lists are chains of different objects, and no two share one. *)
ListsApart ==
  /\ \A t \in Threads, c \in Classes : IsInjective(freeLists[t][c])
  /\ \A t \in Threads : IsInjective(queue[t])
  /\ \A s \in Spans : IsInjective(freeList[s])
  /\ \A t \in Threads, c \in Classes : \A a \in InCache(t, c) :
       /\ a \notin held
       /\ \A u \in Threads, d \in Classes : a \in InCache(u, d) => u = t /\ d = c
       /\ \A u \in Threads : a \notin InQueue(u)
       /\ \A s \in Spans : a \notin InSpan(s)
  /\ \A t \in Threads : \A a \in InQueue(t) :
       /\ a \notin held
       /\ \A u \in Threads : a \in InQueue(u) => u = t
       /\ \A s \in Spans : a \notin InSpan(s)
  /\ \A s \in Spans : \A a \in InSpan(s) :
       /\ a \notin held
       /\ \A r \in Spans : a \in InSpan(r) => r = s

Locking == {"scan", "take", "return"}
Fetching == {"tclock", "lock", "scan", "take", "newspan", "carve"}
Giving == {"retlock", "return"}

(* Whether a thread has a bucket's mutex, and what its locals hold. *)
ThreadOK(t) ==
  /\ \A c \in Classes : bucketMtx[c] = t <=> pc[t] \in Locking /\ cls[t] = c
  /\ pc[t] \in Fetching \cup Giving => cls[t] \in Classes
  /\ \A c \in Classes : maxSize[t][c] > 0
  /\ pc[t] \in Fetching \ {"tclock"} => batch[t] > 0
  /\ pc[t] = "idle" => cls[t] = Large
  /\ queue[t] # <<>> => /\ pc[t] \in Giving \cup {"pagelock", "merging"}
                        /\ cls[t] \in Classes
  /\ pc[t] = "take" => /\ mine[t] \in Spans
                       /\ mine[t] \in ToSet(centralLists[cls[t]])
                       /\ freeList[mine[t]] # <<>>

ThreadsOK == \A t \in Threads : ThreadOK(t)

(* A span that a thread has to itself, from or for the page cache. *)
Private(t) == pc[t] \in {"carve", "pagelock"}

PrivateSpan(t) ==
  /\ mine[t] \in used
  /\ ~Central(mine[t])
  /\ \A a \in held : SpanOf(a) # mine[t]
  /\ pc[t] = "carve" => objSize[mine[t]] = cls[t] /\ n[mine[t]] = MovePages[cls[t]]

PrivateOK ==
  /\ \A t \in Threads : Private(t) => PrivateSpan(t)
  /\ \A t, u \in Threads : Private(t) /\ Private(u) /\ mine[t] = mine[u] => t = u

(* What holds until a held span is merged, ... *)
IInv ==
  /\ PCP!IInv
  /\ TypeOK
  /\ BucketsOK
  /\ SpansOK
  /\ HomesOK
  /\ LargeOK
  /\ ListsApart
  /\ ThreadsOK
  /\ PrivateOK

(* ... and the inductive invariant. *)
UntilMerged == PC!Intact => IInv

(* What a thread's lists hold is bounded by what slow start allows: it     *)
(* asks for more only when it has nothing, and for no more than maxSize.   *)
Served(t) == pc[t] \in Fetching \ {"tclock"}

Bounded(t) ==
  /\ Served(t) => t \in cached
  /\ \A c \in Classes :
       /\ Len(freeLists[t][c]) < maxSize[t][c]
       /\ maxSize[t][c] <= MoveLimit[c] + 1
       /\ t \notin cached => freeLists[t][c] = <<>>
       /\ cls[t] = c => /\ pc[t] \in Fetching => freeLists[t][c] = <<>>
                        /\ Served(t) => batch[t] <= maxSize[t][c]

ListsBounded == \A t \in Threads : Bounded(t)

-----------------------------------------------------------------------------
(* Spans and the objects cut from them. *)

(* Multiplying keeps the order. *)
LEMMA TimesKeepsOrder ==
  ASSUME NEW a \in Nat, NEW b \in Nat, NEW d \in Nat, a <= b
  PROVE  a * d <= b * d
<1>1. PICK c \in Nat : b = a + c
  <2>1. b = a + (b - a) /\ b - a \in Nat
    OBVIOUS
  <2> QED  BY <2>1
<1>2. b * d = a * d + c * d /\ c * d \in Nat /\ a * d \in Nat
  BY <1>1
<1> QED  BY <1>2

(* What begins before the end of a span is in one of its pages. *)
LEMMA PageOfUnit ==
  ASSUME NEW a \in Nat, NEW page \in Nat, NEW k \in Nat,
         page * PageUnits <= a, a < (page + k) * PageUnits
  PROVE  PageOf(a) \in Nat /\ page <= PageOf(a) /\ PageOf(a) < page + k
<1> DEFINE P == PageUnits
           q == a \div P
<1>1. P \in Nat /\ P > 0
  BY ClassesAssumption
<1>2. q \in Nat /\ q * P <= a /\ a < q * P + P
  BY <1>1
<1>3. PageOf(a) = q
  BY DEF PageOf
<1> HIDE DEF q, P
<1>4. page <= q
  <2>1. CASE q + 1 <= page
    <3>1. (q + 1) * P <= page * P  BY <1>1, <1>2, <2>1, TimesKeepsOrder
    <3>2. (q + 1) * P = q * P + P /\ q * P \in Nat /\ page * P \in Nat  BY <1>1, <1>2
    <3> QED  BY <1>1, <1>2, <3>1, <3>2 DEF P
  <2> QED  BY <1>2, <2>1
<1>5. q < page + k
  <2>1. CASE page + k <= q
    <3>1. (page + k) * P <= q * P  BY <1>1, <1>2, <2>1, TimesKeepsOrder
    <3>2. q * P \in Nat /\ (page + k) * P \in Nat  BY <1>1, <1>2
    <3> QED  BY <1>1, <1>2, <3>1, <3>2 DEF P
  <2> QED  BY <1>2, <2>1
<1> QED  BY <1>2, <1>3, <1>4, <1>5

(* A span is cut into different objects, at least one, each of which       *)
(* begins in a page of the span.                                           *)
LEMMA CarvedSound ==
  ASSUME NEW s, pageId[s] \in Nat, n[s] \in Nat, n[s] > 0,
         NEW size \in Nat, size > 0
  PROVE  /\ Carved(s, size) \in Seq(Nat)
         /\ IsInjective(Carved(s, size))
         /\ Len(Carved(s, size)) \in Nat /\ Len(Carved(s, size)) > 0
         /\ \A a \in ToSet(Carved(s, size)) :
              /\ a \in Nat /\ PageOf(a) \in Nat
              /\ pageId[s] <= PageOf(a) /\ PageOf(a) < pageId[s] + n[s]
<1> DEFINE P == PageUnits
           first == pageId[s] * P
           bytes == n[s] * P
           count == (bytes + size - 1) \div size
           q == Carved(s, size)
<1>1. P \in Nat /\ P > 0
  BY ClassesAssumption
<1>2. first \in Nat /\ bytes \in Nat /\ bytes > 0
  <2>1. first \in Nat /\ bytes \in Nat
    BY <1>1
  <2>2. 1 * P <= n[s] * P
    BY <1>1, TimesKeepsOrder
  <2> QED  BY <1>1, <2>1, <2>2
<1>3. q = [i \in 1 .. count |-> first + (i - 1) * size]
  BY DEF Carved
<1>4. (pageId[s] + n[s]) * P = first + bytes
  BY <1>1
<1> HIDE DEF first, bytes, P
<1>5. count \in Nat /\ count * size <= bytes + size - 1 /\ bytes + size - 1 < count * size + size
  BY <1>2, bytes + size - 1 \in Nat
<1> HIDE DEF count, q
<1>6. count > 0
  <2>1. CASE count = 0
    <3>1. count * size = 0  BY <2>1
    <3> QED  BY <1>2, <1>5, <3>1
  <2> QED  BY <1>5, <2>1
<1>7. ASSUME NEW i \in 1 .. count
      PROVE  (i - 1) * size \in Nat /\ (i - 1) * size < bytes
  <2>1. (i - 1) * size <= (count - 1) * size
    BY <1>5, <1>6, TimesKeepsOrder, i - 1 \in Nat, count - 1 \in Nat
  <2>2. (count - 1) * size = count * size - size /\ count * size \in Nat
        /\ (i - 1) * size \in Nat
    BY <1>5, <1>6, i - 1 \in Nat
  <2> QED  BY <1>2, <1>5, <2>1, <2>2
<1>8. q \in Seq(Nat) /\ Len(q) = count /\ \A i \in 1 .. count : q[i] = first + (i - 1) * size
  <2>1. \A i \in 1 .. count : first + (i - 1) * size \in Nat
    BY <1>2, <1>7
  <2>2. q \in [1 .. count -> Nat]
    BY <1>3, <2>1
  <2>3. q \in Seq(Nat)
    BY <1>5, <2>2, SeqDef
  <2>4. DOMAIN q = 1 .. count
    BY <1>3
  <2>5. Len(q) = count
    BY <1>5, <2>3, <2>4, LenProperties
  <2> QED  BY <1>3, <2>3, <2>5
<1>9. ASSUME NEW i \in DOMAIN q, NEW j \in DOMAIN q, q[i] = q[j] PROVE i = j
  <2>1. i \in 1 .. count /\ j \in 1 .. count
    BY <1>8, LenProperties
  <2>2. (i - 1) * size = (j - 1) * size
    BY <1>2, <1>7, <1>8, <1>9, <2>1
  <2>3. ASSUME NEW x \in 1 .. count, NEW y \in 1 .. count, x < y
        PROVE  (x - 1) * size # (y - 1) * size
    <3>1. x * size <= (y - 1) * size
      BY <2>3, TimesKeepsOrder, x \in Nat, y - 1 \in Nat
    <3>2. x * size = (x - 1) * size + size /\ (x - 1) * size \in Nat /\ (y - 1) * size \in Nat
      BY <1>7
    <3> QED  BY <3>1, <3>2
  <2> QED  BY <2>1, <2>2, <2>3
<1>10. ASSUME NEW a \in ToSet(q)
       PROVE  /\ a \in Nat /\ PageOf(a) \in Nat
              /\ pageId[s] <= PageOf(a) /\ PageOf(a) < pageId[s] + n[s]
  <2>1. PICK i \in 1 .. count : a = first + (i - 1) * size
    BY <1>8, OnList
  <2>2. a \in Nat /\ first <= a /\ a < first + bytes
    BY <1>2, <1>7, <2>1
  <2> QED  BY <1>4, <2>2, PageOfUnit DEF first, P
<1>11. IsInjective(q)
  BY <1>9, Zenon DEF IsInjective
<1> QED  BY <1>5, <1>6, <1>8, <1>10, <1>11 DEF q

-----------------------------------------------------------------------------
(* The page cache below.  PC is the module's instance, PCP that of the     *)
(* proofs; the two are the same.                                           *)

(* What the page cache assumes of its constants holds here. *)
LEMMA PageAssumptions ==
  /\ PCP!NPAGESAssumption /\ PCP!PagesAssumption /\ PCP!GranularityAssumption
  /\ PCP!NoSpanAssumption /\ PCP!RequestsAssumption
BY PagesAssumption, ClassesAssumption DEF CentralRequests

(* Both instances of the page cache start in the same states. *)
LEMMA SameInit == PC!Init <=> PCP!Init
BY DEF PC!Init, PCP!Init, PC!Limit, PCP!Limit

(* Both instances of the page cache type their state alike. *)
LEMMA SameTypeOK == PC!TypeOK <=> PCP!TypeOK
BY DEF PC!TypeOK, PCP!TypeOK, PC!Limit, PCP!Limit

(* NewSpan is the same step in both instances. *)
LEMMA SameNewSpan ==
  ASSUME NEW k, NEW b, NEW s
  PROVE  PC!NewSpan(k, b, s) <=> PCP!NewSpan(k, b, s)
BY DEF PC!NewSpan, PCP!NewSpan, PC!NewHugeSpan, PCP!NewHugeSpan, PC!Limit, PCP!Limit,
       PC!SystemAlloc, PCP!SystemAlloc, PC!Constructed, PCP!Constructed,
       PC!TakeWhole, PCP!TakeWhole, PC!PagesOf, PCP!PagesOf, PC!SplitLonger,
       PCP!SplitLonger, PC!NoneListed, PCP!NoneListed, PC!Cut, PCP!Cut,
       PC!MapAfterCut, PCP!MapAfterCut, PC!GrowAndTake, PCP!GrowAndTake

(* The NewSpan that throws is the same step in both instances. *)
LEMMA SameNewSpanThrows ==
  ASSUME NEW k
  PROVE  PC!NewSpanThrows(k) <=> PCP!NewSpanThrows(k)
BY DEF PC!NewSpanThrows, PCP!NewSpanThrows, PC!Limit, PCP!Limit, PC!NoneListed,
       PCP!NoneListed

(* The start of ReleaseSpanToPageCache is the same step in both instances. *)
LEMMA SameStartRelease ==
  ASSUME NEW s
  PROVE  /\ PC!ReleaseHuge(s) <=> PCP!ReleaseHuge(s)
         /\ PC!StartRelease(s) <=> PCP!StartRelease(s)
BY DEF PC!ReleaseHuge, PCP!ReleaseHuge, PC!StartRelease, PCP!StartRelease, PC!Limit,
       PCP!Limit, PC!PagesOf, PCP!PagesOf, PC!Link, PCP!Link

(* The later steps of ReleaseSpanToPageCache are the same in both instances. *)
LEMMA SameReleaseStep == PC!ReleaseStep <=> PCP!ReleaseStep
BY DEF PC!ReleaseStep, PCP!ReleaseStep, PC!Limit, PCP!Limit, PC!PagesOf, PCP!PagesOf,
       PC!Link, PCP!Link, PC!MergePrev, PCP!MergePrev, PC!StopPrev, PCP!StopPrev,
       PC!MergeNext, PCP!MergeNext, PC!FinishRelease, PCP!FinishRelease,
       PC!Mergeable, PCP!Mergeable, PC!PrevSpan, PCP!PrevSpan, PC!NextSpan,
       PCP!NextSpan, PC!MapGet, PCP!MapGet, PC!Absorb, PCP!Absorb, PC!AbsorbListed,
       PCP!AbsorbListed, PC!AbsorbUnlisted, PCP!AbsorbUnlisted, PC!Drop, PCP!Drop,
       PC!IsListed, PCP!IsListed, PC!Range, PCP!Range, PC!Erase, PCP!Erase

(* A step, or a stutter, of one instance of the page cache is one of the other. *)
LEMMA SameNext == [PC!Next]_pageVars <=> [PCP!Next]_(PCP!vars)
BY SameNewSpan, SameNewSpanThrows, SameStartRelease, SameReleaseStep
   DEF PC!Next, PCP!Next, pageVars, PCP!vars

(* MapObjectToSpan finds the span of what begins in the pages of a span    *)
(* that is handed out.                                                     *)
Within(a, s) == PageOf(a) \in Nat /\ pageId[s] <= PageOf(a) /\ PageOf(a) < pageId[s] + n[s]

Found(s) ==
  /\ s \in Spans /\ s # NoSpan
  /\ pageId[s] \in Nat /\ n[s] \in Nat /\ n[s] > 0 /\ n[s] <= NPAGES - 1
  /\ \A a : Within(a, s) => SpanOf(a) = s

(* Every span handed out by the page cache is found by its descriptor. *)
LEMMA HandedOut == PCP!IInv => \A s \in used : Found(s)
<1> SUFFICES ASSUME PCP!IInv, NEW s \in used PROVE Found(s)
  OBVIOUS
<1>1. s \in Spans /\ s # NoSpan /\ pageId[s] \in Nat
  BY PagesAssumption DEF PCP!IInv, PCP!TypeOK
<1>2. n[s] \in 1 .. NPAGES - 1 /\ \A p \in Nat : PCP!Covers(s, p) => PCP!MapGet(p) = s
  BY DEF PCP!IInv, PCP!UsedOK, PCP!Limit
<1>3. n[s] \in Nat /\ n[s] > 0 /\ n[s] <= NPAGES - 1
  BY <1>2, PagesAssumption
<1>4. \A a : Within(a, s) => SpanOf(a) = s
  BY <1>2 DEF Within, SpanOf, PCP!Covers, PCP!MapGet, PC!MapGet
<1> QED  BY <1>1, <1>3, <1>4 DEF Found

(* HandedOut, of the state after a step. *)
LEMMA HandedOutAfter == PCP!IInv' => (\A s \in used : Found(s))'
BY HandedOut, PTL

(* The object of a whole span is its first unit, and is found to be its.   *)
LEMMA WholeWithin ==
  ASSUME NEW s, Found(s), NEW a, a = pageId[s] * PageUnits
  PROVE  Within(a, s) /\ SpanOf(a) = s
<1>1. pageId[s] \in Nat /\ n[s] \in Nat /\ n[s] > 0
  BY DEF Found
<1>2. a \in Nat /\ pageId[s] * PageUnits <= a /\ a < (pageId[s] + 1) * PageUnits
  <2>1. PageUnits \in Nat /\ PageUnits > 0  BY ClassesAssumption
  <2>2. (pageId[s] + 1) * PageUnits = pageId[s] * PageUnits + PageUnits
        /\ pageId[s] * PageUnits \in Nat
    BY <1>1, <2>1
  <2> QED  BY <2>1, <2>2
<1>3. PageOf(a) \in Nat /\ pageId[s] <= PageOf(a) /\ PageOf(a) < pageId[s] + 1
  BY <1>1, <1>2, PageOfUnit
<1>4. PageOf(a) < pageId[s] + n[s]
  BY <1>1, <1>3
<1>5. Within(a, s)
  BY <1>3, <1>4 DEF Within
<1> QED  BY <1>5 DEF Found

(* WholeWithin, of the state after a step. *)
LEMMA WholeWithinAfter ==
  (\A s, a : Found(s) /\ a = pageId[s] * PageUnits => SpanOf(a) = s)'
<1>1. \A s, a : Found(s) /\ a = pageId[s] * PageUnits => SpanOf(a) = s
  BY WholeWithin
<1> QED  BY <1>1, PTL

(* The page cache takes a step of its own that is not the end: its         *)
(* invariant goes on, and what is handed out before and after stays where  *)
(* it is.                                                                  *)
LEMMA PageStep ==
  ASSUME NoHuge, PCP!IInv, [PC!Next]_pageVars, op' # "corrupt"
  PROVE  /\ PCP!IInv'
         /\ \A s \in used : s \in used' => pageId'[s] = pageId[s] /\ n'[s] = n[s]
<1>1. PCP!NoHuge
  BY DEF NoHuge, PCP!NoHuge, PCP!Limit
<1>2. [PCP!Next]_(PCP!vars)
  BY SameNext
<1>3. PCP!IInv'
  BY <1>1, <1>2, PageAssumptions, PCP!NextInv
<1>4. \A s \in used : s \in used' => pageId'[s] = pageId[s] /\ n'[s] = n[s]
  BY <1>1, <1>2, PageAssumptions, PCP!HeldStay
<1> QED  BY <1>3, <1>4

-----------------------------------------------------------------------------
(* What the invariant says of objects and their spans. *)

(* A span in a bucket is handed out, and its objects are found to be its.  *)
LEMMA CentralSpan ==
  ASSUME IInv, NEW s, Central(s)
  PROVE  /\ s \in used /\ s \in Spans /\ objSize[s] \in Classes
         /\ n[s] = MovePages[objSize[s]]
         /\ Carved(s, ObjSize[objSize[s]]) \in Seq(Nat)
         /\ IsInjective(Carved(s, ObjSize[objSize[s]]))
         /\ Count(s) \in Nat /\ Count(s) > 0
         /\ \A a \in Objects(s) : a \in Nat /\ Within(a, s) /\ SpanOf(a) = s
<1>1. objSize[s] \in Classes /\ s \in ToSet(centralLists[objSize[s]])
  BY DEF Central
<1>2. s \in used /\ n[s] = MovePages[objSize[s]]
  BY <1>1 DEF IInv, BucketsOK
<1>3. /\ s \in Spans /\ pageId[s] \in Nat /\ n[s] \in Nat /\ n[s] > 0
      /\ \A a : Within(a, s) => SpanOf(a) = s
  BY <1>2, HandedOut DEF IInv, Found
<1>4. ObjSize[objSize[s]] \in Nat /\ ObjSize[objSize[s]] > 0
  BY <1>1, ClassesAssumption
<1> DEFINE size == ObjSize[objSize[s]]
<1>5. /\ Carved(s, size) \in Seq(Nat) /\ IsInjective(Carved(s, size))
      /\ Len(Carved(s, size)) \in Nat /\ Len(Carved(s, size)) > 0
      /\ \A a \in ToSet(Carved(s, size)) :
           /\ a \in Nat /\ PageOf(a) \in Nat
           /\ pageId[s] <= PageOf(a) /\ PageOf(a) < pageId[s] + n[s]
  BY <1>3, <1>4, CarvedSound
<1> QED  BY <1>1, <1>2, <1>3, <1>5 DEF Count, Objects, Within

(* An object that is out of its span has it in its bucket. *)
LEMMA HomeOf ==
  ASSUME IInv, NEW a \in OutOfSpan
  PROVE  /\ Central(SpanOf(a)) /\ SpanOf(a) \in used /\ SpanOf(a) \in Spans
         /\ a \in Objects(SpanOf(a)) /\ Within(a, SpanOf(a)) /\ a \in Nat
<1>1. SpanOf(a) \in Spans /\ Central(SpanOf(a))
  BY DEF IInv, HomesOK
<1>2. a \in Objects(SpanOf(a))
  BY <1>1 DEF IInv, SpansOK
<1> QED  BY <1>1, <1>2, CentralSpan

(* So is what a caller holds. *)
LEMMA HomeOfHeld ==
  ASSUME IInv, NEW a \in held
  PROVE  SpanOf(a) \in used /\ SpanOf(a) \in Spans /\ Within(a, SpanOf(a))
<1>1. CASE objSize[SpanOf(a)] # Large
  <2>1. a \in OutOfSpan  BY <1>1 DEF OutOfSpan
  <2> QED  BY <2>1, HomeOf
<1>2. CASE objSize[SpanOf(a)] = Large
  <2> DEFINE s == SpanOf(a)
  <2>1. s \in used /\ a = pageId[s] * PageUnits
    BY <1>2 DEF IInv, LargeOK
  <2>2. Found(s)
    BY <2>1, HandedOut DEF IInv
  <2> QED  BY <2>1, <2>2, WholeWithin DEF Found
<1> QED  BY <1>1, <1>2

(* Whoever has an object, it is out of its span. *)
LEMMA OutMembers ==
  /\ \A t \in Threads, c \in Classes : InCache(t, c) \subseteq OutOfSpan
  /\ \A t \in Threads : InQueue(t) \subseteq OutOfSpan
  /\ \A a \in held : objSize[SpanOf(a)] # Large => a \in OutOfSpan
  /\ \A a \in OutOfSpan : \/ a \in held /\ objSize[SpanOf(a)] # Large
                          \/ \E t \in Threads, c \in Classes : a \in InCache(t, c)
                          \/ \E t \in Threads : a \in InQueue(t)
<1>1. ASSUME NEW t \in Threads, NEW c \in Classes, NEW a \in InCache(t, c)
      PROVE  a \in OutOfSpan
  <2>1. ToSet(freeLists[t][c]) \in {ToSet(freeLists[u][d]) : u \in Threads, d \in Classes}
    OBVIOUS
  <2>2. a \in UNION {ToSet(freeLists[u][d]) : u \in Threads, d \in Classes}
    BY <2>1 DEF InCache
  <2> QED  BY <2>2 DEF OutOfSpan
<1>2. ASSUME NEW t \in Threads, NEW a \in InQueue(t) PROVE a \in OutOfSpan
  BY DEF OutOfSpan, InQueue
<1>3. \A a \in held : objSize[SpanOf(a)] # Large => a \in OutOfSpan
  BY DEF OutOfSpan
<1>4. ASSUME NEW a \in OutOfSpan
      PROVE  \/ a \in held /\ objSize[SpanOf(a)] # Large
             \/ \E t \in Threads, c \in Classes : a \in InCache(t, c)
             \/ \E t \in Threads : a \in InQueue(t)
  <2>1. CASE a \in UNION {ToSet(freeLists[t][c]) : t \in Threads, c \in Classes}
    <3>1. PICK t \in Threads, c \in Classes : a \in ToSet(freeLists[t][c])
      BY <2>1
    <3> QED  BY <3>1 DEF InCache
  <2>2. CASE a \in UNION {ToSet(queue[t]) : t \in Threads}
    BY <2>2 DEF InQueue
  <2>3. CASE a \in {b \in held : objSize[SpanOf(b)] # Large}
    BY <2>3
  <2> QED  BY <2>1, <2>2, <2>3 DEF OutOfSpan
<1> QED  BY <1>1, <1>2, <1>3, <1>4

(* The objects of a span that are out, which _useCount counts. *)
OutOf(s) == {a \in OutOfSpan : SpanOf(a) = s}

(* useCount[s] is the number of the objects of s that are out, and the rest are in its list. *)
LEMMA CountOut ==
  ASSUME IInv, NEW s \in Spans
  PROVE  /\ IsFiniteSet(OutOf(s)) /\ Cardinality(OutOf(s)) = useCount[s]
         /\ OutOf(s) \cap InSpan(s) = {}
         /\ Central(s) => Objects(s) = InSpan(s) \cup OutOf(s)
<1>1. freeList[s] \in Seq(Nat) /\ useCount[s] \in Nat /\ IsInjective(freeList[s])
  BY DEF IInv, TypeOK, ListsApart
<1>2. IsFiniteSet(InSpan(s)) /\ Cardinality(InSpan(s)) = Len(freeList[s])
      /\ Len(freeList[s]) \in Nat
  BY <1>1, HowMany, LenProperties DEF InSpan
<1>3. OutOf(s) \cap InSpan(s) = {}
  BY OutMembers DEF OutOf, IInv, ListsApart
<1>4. CASE Central(s)
  <2>1. Objects(s) = InSpan(s) \cup OutOf(s)
    <3>1. InSpan(s) \cup OutOf(s) \subseteq Objects(s)
      BY <1>4 DEF IInv, SpansOK, OutOf
    <3>2. ASSUME NEW a \in Objects(s) PROVE a \in InSpan(s) \cup OutOf(s)
      <4>1. SpanOf(a) = s  BY <1>4, CentralSpan
      <4>2. a \in InSpan(s) \cup OutOfSpan  BY <1>4 DEF IInv, SpansOK
      <4> QED  BY <4>1, <4>2 DEF OutOf
    <3> QED  BY <3>1, <3>2
  <2>2. IsFiniteSet(Objects(s)) /\ Cardinality(Objects(s)) = Count(s) /\ Count(s) \in Nat
    BY <1>4, CentralSpan, HowMany DEF Objects, Count
  <2>3. OutOf(s) = Objects(s) \ InSpan(s) /\ Objects(s) \cap InSpan(s) = InSpan(s)
    BY <1>3, <2>1
  <2>4. IsFiniteSet(OutOf(s))
        /\ Cardinality(OutOf(s)) = Cardinality(Objects(s)) - Cardinality(InSpan(s))
    BY <2>2, <2>3, FS_Difference, ZenonT(30)
  <2>5. useCount[s] + Len(freeList[s]) = Count(s)
    BY <1>4 DEF IInv, SpansOK
  <2>6. Cardinality(OutOf(s)) = Count(s) - Len(freeList[s])
    BY <1>2, <2>2, <2>4
  <2> QED  BY <1>1, <1>2, <1>3, <2>1, <2>2, <2>4, <2>5, <2>6
<1>5. CASE ~Central(s)
  <2>1. OutOf(s) = {}  BY <1>5, HomeOf DEF OutOf
  <2>2. useCount[s] = 0  BY <1>5 DEF IInv, SpansOK
  <2> QED  BY <1>3, <1>5, <2>1, <2>2, FS_EmptySet
<1> QED  BY <1>4, <1>5

-----------------------------------------------------------------------------
(* Steps that move no object from one list to another. *)

(* What becomes of objects when only spans that have none change hands: r, *)
(* if anything, is new and held whole, and what is freed was held whole.   *)
ObjectsStay ==
  /\ PCP!IInv'
  /\ \A s \in used : s \in used' => pageId'[s] = pageId[s] /\ n'[s] = n[s]
  /\ UNCHANGED <<useCount, freeList, centralLists, freeLists, queue>>
  /\ objSize' \in [Spans -> Classes \cup {Large}]
  /\ \A s \in Spans : s \in used => objSize'[s] = objSize[s]
  /\ \A s : Central(s) => s \in used'
  /\ \A a \in held \cap held' : SpanOf(a) \in used'
  /\ \A a \in held' \ held : \E s \in used' \ used :
       objSize'[s] = Large /\ a = pageId'[s] * PageUnits
  /\ \A a \in held \ held' : objSize[SpanOf(a)] = Large
  /\ \A t \in Threads : queue[t] # <<>> => cls'[t] = cls[t]

(* A step that moves no object leaves the buckets' spans their class and objects. *)
LEMMA SameCentral ==
  ASSUME IInv, ObjectsStay
  PROVE  /\ \A s : Central(s)' <=> Central(s)
         /\ \A s : Central(s) => /\ objSize'[s] = objSize[s]
                                 /\ Objects(s)' = Objects(s)
                                 /\ Count(s)' = Count(s)
<1>1. ASSUME NEW c \in Classes, NEW s \in ToSet(centralLists[c])
      PROVE  s \in used /\ s \in Spans /\ objSize[s] = c /\ objSize'[s] = c
  <2>1. s \in used /\ objSize[s] = c
    BY DEF IInv, BucketsOK
  <2>2. s \in Spans
    BY <2>1, HandedOut DEF IInv, Found
  <2> QED  BY <2>1, <2>2 DEF ObjectsStay
<1>2. \A s : Central(s)' <=> Central(s)
  BY <1>1 DEF Central, ObjectsStay
<1>3. ASSUME NEW s, Central(s)
      PROVE  /\ objSize'[s] = objSize[s] /\ pageId'[s] = pageId[s] /\ n'[s] = n[s]
  BY <1>1, <1>3 DEF Central, ObjectsStay
<1> QED  BY <1>2, <1>3 DEF Objects, Count, Carved

(* Every object keeps its home when a step moves none. *)
LEMMA SameHomes ==
  ASSUME IInv, ObjectsStay
  PROVE  /\ \A a : a \in held \cap held' \/ a \in OutOfSpan => SpanOf(a)' = SpanOf(a)
         /\ \A a \in held' \ held : \E s \in used' \ used :
              SpanOf(a)' = s /\ objSize'[s] = Large /\ a = pageId'[s] * PageUnits
         /\ OutOfSpan' = OutOfSpan
         /\ \A s : Central(s) => \A a \in Objects(s) : SpanOf(a)' = s
<1>1. ASSUME NEW s \in used, s \in used', NEW a, Within(a, s)
      PROVE  SpanOf(a)' = s
  <2>1. Within(a, s)'
    BY <1>1 DEF Within, ObjectsStay
  <2>2. Found(s)'
    BY <1>1, HandedOutAfter DEF ObjectsStay
  <2> QED  BY <2>1, <2>2 DEF Found
<1>2. ASSUME NEW a \in OutOfSpan
      PROVE  SpanOf(a)' = SpanOf(a) /\ objSize'[SpanOf(a)] = objSize[SpanOf(a)]
  BY <1>1, HomeOf, SameCentral DEF ObjectsStay
<1>3. ASSUME NEW a \in held, SpanOf(a) \in used'
      PROVE  SpanOf(a)' = SpanOf(a) /\ objSize'[SpanOf(a)] = objSize[SpanOf(a)]
  BY <1>1, <1>3, HomeOfHeld DEF ObjectsStay
<1>4. \A s \in used' : Found(s)'
  BY HandedOutAfter DEF ObjectsStay
<1>5. ASSUME NEW s \in used', NEW a, a = pageId'[s] * PageUnits
      PROVE  SpanOf(a)' = s
  BY <1>4, <1>5, WholeWithinAfter
<1>6. ASSUME NEW a \in held' \ held
      PROVE  \E s \in used' \ used :
               SpanOf(a)' = s /\ objSize'[s] = Large /\ a = pageId'[s] * PageUnits
  <2>1. PICK s \in used' \ used : objSize'[s] = Large /\ a = pageId'[s] * PageUnits
    BY DEF ObjectsStay
  <2> QED  BY <1>5, <2>1
<1>7. OutOfSpan' = OutOfSpan
  <2>1. \A a : a \in held' /\ objSize'[SpanOf(a)'] # Large <=>
               a \in held /\ objSize[SpanOf(a)] # Large
    <3>1. ASSUME NEW a \in held', objSize'[SpanOf(a)'] # Large
          PROVE  a \in held /\ objSize[SpanOf(a)] # Large
      <4>1. a \in held  BY <1>6, <3>1
      <4> QED  BY <1>3, <3>1, <4>1 DEF ObjectsStay
    <3>2. ASSUME NEW a \in held, objSize[SpanOf(a)] # Large
          PROVE  a \in held' /\ objSize'[SpanOf(a)'] # Large
      <4>1. a \in held'  BY <3>2 DEF ObjectsStay
      <4> QED  BY <1>3, <3>2, <4>1 DEF ObjectsStay
    <3> QED  BY <3>1, <3>2
  <2>2. freeLists' = freeLists /\ queue' = queue
    BY DEF ObjectsStay
  <2>3. {a \in held : objSize[SpanOf(a)] # Large}' = {a \in held : objSize[SpanOf(a)] # Large}
    BY <2>1
  <2> QED  BY <2>2, <2>3 DEF OutOfSpan
<1>8. ASSUME NEW s, Central(s), NEW a \in Objects(s)
      PROVE  SpanOf(a)' = s
  BY <1>1, <1>8, CentralSpan DEF ObjectsStay
<1> QED  BY <1>2, <1>3, <1>6, <1>7, <1>8 DEF ObjectsStay

(* The parts of the invariant about objects survive a step that moves none of them. *)
LEMMA KeepObjects ==
  ASSUME IInv, ObjectsStay
  PROVE  BucketsOK' /\ SpansOK' /\ HomesOK' /\ LargeOK' /\ ListsApart'
<1>1. /\ UNCHANGED <<useCount, freeList, centralLists, freeLists, queue>>
      /\ \A s \in used : s \in used' => pageId'[s] = pageId[s] /\ n'[s] = n[s]
  BY DEF ObjectsStay
<1>2. /\ \A t, c : InCache(t, c)' = InCache(t, c)
      /\ \A t : InQueue(t)' = InQueue(t)
      /\ \A s : InSpan(s)' = InSpan(s)
  BY <1>1 DEF InCache, InQueue, InSpan
<1>3. BucketsOK'
  <2> SUFFICES ASSUME NEW c \in Classes
               PROVE  /\ IsInjective(centralLists'[c])
                      /\ \A s \in ToSet(centralLists'[c]) :
                           s \in used' /\ objSize'[s] = c /\ n'[s] = MovePages[c]
    BY DEF BucketsOK
  <2>1. IsInjective(centralLists[c]) /\ centralLists' = centralLists
    BY <1>1 DEF IInv, BucketsOK
  <2>2. ASSUME NEW s \in ToSet(centralLists[c])
        PROVE  s \in used' /\ objSize'[s] = c /\ n'[s] = MovePages[c]
    <3>1. s \in used /\ objSize[s] = c /\ n[s] = MovePages[c]
      BY DEF IInv, BucketsOK
    <3>2. Central(s)  BY <3>1 DEF Central
    <3> QED  BY <1>1, <3>1, <3>2, SameCentral DEF ObjectsStay
  <2> QED  BY <2>1, <2>2
<1>4. SpansOK'
  <2> SUFFICES ASSUME NEW s \in Spans
               PROVE  /\ Central(s)' =>
                           /\ useCount'[s] + Len(freeList'[s]) = Count(s)'
                           /\ InSpan(s)' \subseteq Objects(s)'
                           /\ \A a \in OutOfSpan' : SpanOf(a)' = s => a \in Objects(s)'
                           /\ Objects(s)' \subseteq InSpan(s)' \cup OutOfSpan'
                      /\ ~Central(s)' => useCount'[s] = 0 /\ freeList'[s] = <<>>
    BY DEF SpansOK
  <2>1. CASE Central(s)
    BY <1>1, <1>2, <2>1, SameCentral, SameHomes DEF IInv, SpansOK
  <2>2. CASE ~Central(s)
    BY <1>1, <2>2, SameCentral DEF IInv, SpansOK
  <2> QED  BY <2>1, <2>2
<1>5. HomesOK'
  <2>1. (\A a \in OutOfSpan : SpanOf(a) \in Spans /\ Central(SpanOf(a)))'
    BY SameCentral, SameHomes DEF IInv, HomesOK
  <2>2. ASSUME NEW t \in Threads, NEW c \in Classes, NEW a \in InCache(t, c)
        PROVE  objSize'[SpanOf(a)'] = c
    <3>1. a \in OutOfSpan /\ objSize[SpanOf(a)] = c
      BY OutMembers DEF IInv, HomesOK
    <3> QED  BY <3>1, HomeOf, SameCentral, SameHomes
  <2>3. ASSUME NEW t \in Threads, NEW a \in InQueue(t)
        PROVE  objSize'[SpanOf(a)'] = cls'[t]
    <3>1. a \in OutOfSpan /\ objSize[SpanOf(a)] = cls[t]
      BY OutMembers DEF IInv, HomesOK
    <3>2. queue[t] # <<>>
      BY EmptyList DEF InQueue
    <3> QED  BY <3>1, <3>2, HomeOf, SameCentral, SameHomes DEF ObjectsStay
  <2> QED  BY <1>2, <2>1, <2>2, <2>3 DEF HomesOK
<1>6. LargeOK'
  <2> SUFFICES ASSUME NEW a \in held', objSize'[SpanOf(a)'] = Large
               PROVE  SpanOf(a)' \in used' /\ a = pageId'[SpanOf(a)'] * PageUnits
    BY DEF LargeOK
  <2>1. CASE a \in held
    <3>1. SpanOf(a)' = SpanOf(a) /\ SpanOf(a) \in used' /\ SpanOf(a) \in used
          /\ SpanOf(a) \in Spans
      BY <2>1, SameHomes, HomeOfHeld DEF ObjectsStay
    <3>2. objSize[SpanOf(a)] = Large
      BY <3>1 DEF ObjectsStay
    <3> QED  BY <1>1, <2>1, <3>1, <3>2 DEF IInv, LargeOK
  <2>2. CASE a \notin held
    BY <2>2, SameHomes
  <2> QED  BY <2>1, <2>2
<1>7. ListsApart'
  <2>1. ASSUME NEW a \in held', a \in OutOfSpan \/ \E s \in Spans : a \in InSpan(s)
        PROVE  a \in held
    <3> SUFFICES ASSUME a \notin held PROVE FALSE
      OBVIOUS
    <3>1. PICK s \in used' \ used : SpanOf(a)' = s
      BY SameHomes
    <3>2. CASE a \in OutOfSpan
      BY <3>1, <3>2, SameHomes, HomeOf
    <3>3. ASSUME NEW r \in Spans, a \in InSpan(r) PROVE FALSE
      <4>1. freeList[r] # <<>>
        BY <3>3, EmptyList DEF InSpan
      <4>2. Central(r) /\ a \in Objects(r)
        BY <3>3, <4>1 DEF IInv, SpansOK
      <4> QED  BY <3>1, <4>2, SameHomes, CentralSpan
    <3> QED  BY <2>1, <3>2, <3>3
  <2>2. /\ \A t \in Threads, c \in Classes : \A a \in InCache(t, c) : a \notin held'
        /\ \A t \in Threads : \A a \in InQueue(t) : a \notin held'
        /\ \A s \in Spans : \A a \in InSpan(s) : a \notin held'
    BY <2>1, OutMembers DEF IInv, ListsApart
  <2> QED  BY <1>1, <1>2, <2>2 DEF IInv, ListsApart
<1> QED  BY <1>3, <1>4, <1>5, <1>6, <1>7

-----------------------------------------------------------------------------
(* What a step of one thread leaves to the others. *)

(* Their locals and their buckets. *)
OthersAlone(t) ==
  \A u \in Threads : u # t =>
    /\ pc'[u] = pc[u] /\ cls'[u] = cls[u] /\ batch'[u] = batch[u]
    /\ mine'[u] = mine[u] /\ queue'[u] = queue[u] /\ maxSize'[u] = maxSize[u]
    /\ \A c \in Classes : bucketMtx'[c] = u <=> bucketMtx[c] = u

(* The lists of the buckets they have locked. *)
BucketsAlone(t) ==
  \A u \in Threads, c \in Classes : u # t /\ bucketMtx[c] = u =>
    \A s \in ToSet(centralLists[c]) :
      s \in ToSet(centralLists'[c]) /\ (freeList[s] # <<>> => freeList'[s] # <<>>)

(* What is known of the other threads survives a step that leaves them alone. *)
LEMMA OtherThreads ==
  ASSUME IInv, NEW t \in Threads, OthersAlone(t), BucketsAlone(t), ThreadOK(t)'
  PROVE  ThreadsOK'
<1> SUFFICES ASSUME NEW u \in Threads, u # t PROVE ThreadOK(u)'
  BY DEF ThreadsOK
<1>1. ThreadOK(u)
  BY DEF IInv, ThreadsOK
<1>2. /\ pc'[u] = pc[u] /\ cls'[u] = cls[u] /\ batch'[u] = batch[u]
      /\ mine'[u] = mine[u] /\ queue'[u] = queue[u] /\ maxSize'[u] = maxSize[u]
      /\ \A c \in Classes : bucketMtx'[c] = u <=> bucketMtx[c] = u
  BY DEF OthersAlone
<1>3. pc[u] = "take" => /\ mine[u] \in ToSet(centralLists'[cls[u]])
                        /\ freeList'[mine[u]] # <<>>
  <2> SUFFICES ASSUME pc[u] = "take"
               PROVE  mine[u] \in ToSet(centralLists'[cls[u]]) /\ freeList'[mine[u]] # <<>>
    OBVIOUS
  <2>1. cls[u] \in Classes /\ bucketMtx[cls[u]] = u
    BY <1>1 DEF ThreadOK, Fetching, Locking
  <2>2. mine[u] \in ToSet(centralLists[cls[u]]) /\ freeList[mine[u]] # <<>>
    BY <1>1 DEF ThreadOK
  <2> QED  BY <2>1, <2>2 DEF BucketsAlone
<1> QED  BY <1>1, <1>2, <1>3 DEF ThreadOK

(* A step that moves no object keeps the invariant if it keeps it for the  *)
(* thread that takes it and takes no span from another.                    *)
LEMMA StayInv ==
  ASSUME IInv, ObjectsStay, TypeOK', NEW t \in Threads, OthersAlone(t), ThreadOK(t)',
         \A u \in Threads : u # t /\ Private(u) => mine[u] \in used',
         Private(t)' => /\ PrivateSpan(t)'
                        /\ \A u \in Threads : u # t /\ Private(u) => mine[u] # mine'[t]
  PROVE  IInv'
<1>1. BucketsOK' /\ SpansOK' /\ HomesOK' /\ LargeOK' /\ ListsApart'
  BY KeepObjects
<1>2. ThreadsOK'
  <2>1. BucketsAlone(t)
    BY DEF BucketsAlone, ObjectsStay
  <2> QED  BY <2>1, OtherThreads
<1>3. \A u \in Threads : u # t => /\ Private(u)' <=> Private(u)
                                  /\ mine'[u] = mine[u]
  BY DEF OthersAlone, Private
<1>4. ASSUME NEW u \in Threads, u # t, Private(u) PROVE PrivateSpan(u)'
  <2>1. /\ mine'[u] = mine[u] /\ mine[u] \in used /\ mine[u] \in used'
        /\ pc'[u] = pc[u] /\ cls'[u] = cls[u]
    BY <1>4 DEF OthersAlone, IInv, PrivateOK, PrivateSpan
  <2>2. ~Central(mine[u])'
    BY <1>4, <2>1, SameCentral DEF IInv, PrivateOK, PrivateSpan
  <2>3. ASSUME NEW a \in held', SpanOf(a)' = mine[u] PROVE FALSE
    <3>1. CASE a \in held
      BY <1>4, <2>3, <3>1, SameHomes DEF IInv, PrivateOK, PrivateSpan
    <3>2. CASE a \notin held
      BY <2>1, <2>3, <3>2, SameHomes
    <3> QED  BY <3>1, <3>2
  <2>4. mine[u] \in Spans
    BY <2>1, HandedOut DEF IInv, Found
  <2>5. pc[u] = "carve" => objSize'[mine[u]] = cls[u] /\ n'[mine[u]] = MovePages[cls[u]]
    BY <1>4, <2>1, <2>4 DEF IInv, PrivateOK, PrivateSpan, ObjectsStay
  <2> QED  BY <2>1, <2>2, <2>3, <2>5 DEF PrivateSpan
<1>5. PrivateOK'
  <2>1. \A u \in Threads : Private(u)' => PrivateSpan(u)'
    BY <1>3, <1>4
  <2>2. \A u, v \in Threads : Private(u)' /\ Private(v)' /\ mine'[u] = mine'[v] => u = v
    BY <1>3 DEF IInv, PrivateOK
  <2> QED  BY <2>1, <2>2 DEF PrivateOK
<1>6. PCP!IInv'
  BY DEF ObjectsStay
<1> QED  BY <1>1, <1>2, <1>5, <1>6 DEF IInv

(* A step that only sets locals, locks or unlocks. *)
Calm(t) ==
  /\ UNCHANGED <<pageVars, objSize, useCount, freeList, centralLists, freeLists, held,
                 queue>>
  /\ OthersAlone(t)
  /\ queue[t] # <<>> => cls'[t] = cls[t]
  /\ pc'[t] \notin {"carve", "pagelock"}

(* A step that only moves its thread's program counter, locks and sizes keeps the invariant. *)
LEMMA CalmInv ==
  ASSUME NoHuge, IInv, NEW t \in Threads, Calm(t), TypeOK', ThreadOK(t)'
  PROVE  IInv'
<1>1. UNCHANGED <<objSize, useCount, freeList, centralLists, freeLists, held, queue,
                  used>>
  BY DEF Calm, pageVars
<1>2. PCP!IInv' /\ \A s \in used : s \in used' => pageId'[s] = pageId[s] /\ n'[s] = n[s]
  <2>1. UNCHANGED pageVars  BY DEF Calm
  <2> QED  BY <2>1, PageStep DEF IInv, PCP!IInv, PCP!Intact, pageVars
<1>3. ObjectsStay
  <2>1. \A s : Central(s) => s \in used'
    BY <1>1, CentralSpan
  <2>2. \A a \in held : SpanOf(a) \in used'
    BY <1>1, HomeOfHeld
  <2>3. \A u \in Threads : queue[u] # <<>> => cls'[u] = cls[u]
    BY DEF Calm, OthersAlone
  <2> QED  BY <1>1, <1>2, <2>1, <2>2, <2>3 DEF ObjectsStay, IInv, TypeOK
<1>4. \A u \in Threads : Private(u) => mine[u] \in used'
  BY <1>1 DEF IInv, PrivateOK, PrivateSpan
<1>5. ~Private(t)'
  BY DEF Calm, Private
<1> QED  BY <1>3, <1>4, <1>5, StayInv DEF Calm

(* Slow start asks for at least one object. *)
LEMMA AskFor ==
  ASSUME IInv, NEW t \in Threads, NEW c \in Classes, AskCentral(t, c)
  PROVE  /\ pc' = [pc EXCEPT ![t] = "lock"]
         /\ UNCHANGED <<pageVars, centralVars, tcMtx, freeLists, held, mine, queue>>
         /\ batch' \in [Threads -> Nat] /\ maxSize' \in [Threads -> [Classes -> Nat]]
         /\ batch'[t] > 0 /\ \A d \in Classes : maxSize'[t][d] > 0
         /\ \A u \in Threads : u # t => batch'[u] = batch[u] /\ maxSize'[u] = maxSize[u]
<1> DEFINE m == maxSize[t][c]
           b == IF m < MoveLimit[c] THEN m ELSE MoveLimit[c]
           k == IF b = m THEN m + 1 ELSE m
<1>1. /\ batch' = [batch EXCEPT ![t] = b] /\ maxSize' = [maxSize EXCEPT ![t][c] = k]
      /\ pc' = [pc EXCEPT ![t] = "lock"]
      /\ UNCHANGED <<pageVars, centralVars, tcMtx, freeLists, held, mine, queue>>
  BY DEF AskCentral, Goto
<1>2. /\ batch \in [Threads -> Nat] /\ maxSize \in [Threads -> [Classes -> Nat]]
      /\ \A d \in Classes : maxSize[t][d] > 0
  BY DEF IInv, TypeOK, ThreadsOK, ThreadOK
<1>3. b \in Nat /\ b > 0 /\ k \in Nat /\ k > 0
  BY <1>2, ClassesAssumption
<1> HIDE DEF b, k
<1> QED  BY <1>1, <1>2, <1>3

(* AllocMiss keeps the invariant: it only starts a fetch. *)
LEMMA AllocMissInv ==
  ASSUME NoHuge, IInv, NEW t \in Threads, NEW c \in Classes, AllocMiss(t, c)
  PROVE  IInv'
<1>1. TypeOK /\ ThreadOK(t)
  BY DEF IInv, ThreadsOK
<1>2. /\ pc[t] = "idle" /\ cls' = [cls EXCEPT ![t] = c] /\ AskCentral(t, c)
      /\ cached' = cached
  BY DEF AllocMiss
<1>3. /\ pc' = [pc EXCEPT ![t] = "lock"]
      /\ UNCHANGED <<pageVars, centralVars, tcMtx, freeLists, held, mine, queue>>
      /\ batch' \in [Threads -> Nat] /\ maxSize' \in [Threads -> [Classes -> Nat]]
      /\ batch'[t] > 0 /\ \A d \in Classes : maxSize'[t][d] > 0
      /\ \A u \in Threads : u # t => batch'[u] = batch[u] /\ maxSize'[u] = maxSize[u]
  BY <1>2, AskFor
<1>4. queue[t] = <<>>
  BY <1>1, <1>2 DEF ThreadOK, Giving
<1>5. Calm(t)
  BY <1>1, <1>2, <1>3, <1>4 DEF Calm, OthersAlone, TypeOK, centralVars
<1>6. TypeOK'
  BY <1>1, <1>2, <1>3 DEF TypeOK, pageVars, centralVars, PC!TypeOK
<1>7. ThreadOK(t)'
  BY <1>1, <1>2, <1>3, <1>4 DEF TypeOK, ThreadOK, Locking, Fetching, Giving, centralVars
<1> QED  BY <1>5, <1>6, <1>7, CalmInv

(* MakeCache keeps the invariant: a new ThreadCache has empty lists. *)
LEMMA MakeCacheInv ==
  ASSUME NoHuge, IInv, NEW t \in Threads, MakeCache(t)
  PROVE  IInv'
<1>1. TypeOK /\ ThreadOK(t)
  BY DEF IInv, ThreadsOK
<1>2. /\ pc[t] = "tclock" /\ cls[t] \in Classes /\ AskCentral(t, cls[t])
      /\ cached' = cached \cup {t} /\ cls' = cls
  BY <1>1 DEF MakeCache, ThreadOK, Fetching
<1>3. /\ pc' = [pc EXCEPT ![t] = "lock"]
      /\ UNCHANGED <<pageVars, centralVars, tcMtx, freeLists, held, mine, queue>>
      /\ batch' \in [Threads -> Nat] /\ maxSize' \in [Threads -> [Classes -> Nat]]
      /\ batch'[t] > 0 /\ \A d \in Classes : maxSize'[t][d] > 0
      /\ \A u \in Threads : u # t => batch'[u] = batch[u] /\ maxSize'[u] = maxSize[u]
  BY <1>2, AskFor
<1>4. Calm(t)
  BY <1>1, <1>2, <1>3 DEF Calm, OthersAlone, TypeOK, centralVars
<1>5. TypeOK'
  BY <1>1, <1>2, <1>3 DEF TypeOK, pageVars, centralVars, PC!TypeOK
<1>6. ThreadOK(t)'
  BY <1>1, <1>2, <1>3 DEF TypeOK, ThreadOK, Locking, Fetching, Giving, centralVars
<1> QED  BY <1>4, <1>5, <1>6, CalmInv

(* The steps of a call that only lock, unlock or look. *)
LEMMA LockStepInv ==
  ASSUME NoHuge, IInv, NEW t \in Threads,
         \/ MakeCacheThrows(t) \/ LockToFetch(t) \/ FetchFound(t) \/ FetchEmpty(t)
         \/ LockToReturn(t) \/ ReturnDone(t)
         \/ \E c \in Classes : AllocFirst(t, c)
         \/ \E a \in held : FreeCold(t, a)
  PROVE  IInv'
<1>1. TypeOK /\ ThreadOK(t)
  BY DEF IInv, ThreadsOK
<1>2. t # NoThread
  BY NamesAssumption
<1> USE DEF Goto, Lock, Unlock, Return, centralVars, cacheVars
<1>3. CASE MakeCacheThrows(t)
  <2>1. Calm(t)
    BY <1>1, <1>3 DEF MakeCacheThrows, Calm, OthersAlone, TypeOK
  <2>2. TypeOK'
    BY <1>1, <1>3 DEF MakeCacheThrows, TypeOK, pageVars, PC!TypeOK
  <2>3. ThreadOK(t)'
    BY <1>1, <1>3 DEF MakeCacheThrows, TypeOK, ThreadOK, Locking, Fetching, Giving
  <2> QED  BY <2>1, <2>2, <2>3, CalmInv
<1>4. ASSUME NEW c \in Classes, AllocFirst(t, c) PROVE IInv'
  <2>1. Calm(t)
    BY <1>1, <1>4 DEF AllocFirst, Calm, OthersAlone, TypeOK, ThreadOK, Giving
  <2>2. TypeOK'
    BY <1>1, <1>4 DEF AllocFirst, TypeOK, pageVars, PC!TypeOK
  <2>3. ThreadOK(t)'
    BY <1>1, <1>4 DEF AllocFirst, TypeOK, ThreadOK, Locking, Fetching, Giving
  <2> QED  BY <2>1, <2>2, <2>3, CalmInv
<1>5. ASSUME NEW a, FreeCold(t, a) PROVE IInv'
  <2>1. Calm(t)
    BY <1>1, <1>5 DEF FreeCold, Calm, OthersAlone, TypeOK
  <2>2. TypeOK'
    BY <1>1, <1>5 DEF FreeCold, TypeOK, pageVars, PC!TypeOK
  <2>3. ThreadOK(t)'
    BY <1>1, <1>5 DEF FreeCold, TypeOK, ThreadOK, Locking, Fetching, Giving
  <2> QED  BY <2>1, <2>2, <2>3, CalmInv
<1>6. CASE LockToFetch(t)
  <2>1. cls[t] \in Classes
    BY <1>1, <1>6 DEF LockToFetch, ThreadOK, Fetching
  <2>2. Calm(t)
    BY <1>1, <1>6, <2>1, NamesAssumption DEF LockToFetch, Calm, OthersAlone, TypeOK
  <2>3. TypeOK'
    BY <1>1, <1>6, <2>1 DEF LockToFetch, TypeOK, pageVars, PC!TypeOK
  <2>4. ThreadOK(t)'
    BY <1>1, <1>6, <2>1 DEF LockToFetch, TypeOK, ThreadOK, Locking, Fetching, Giving
  <2> QED  BY <2>2, <2>3, <2>4, CalmInv
<1>7. CASE LockToReturn(t)
  <2>1. cls[t] \in Classes
    BY <1>1, <1>7 DEF LockToReturn, ThreadOK, Giving
  <2>2. Calm(t)
    BY <1>1, <1>7, <2>1, NamesAssumption DEF LockToReturn, Calm, OthersAlone, TypeOK
  <2>3. TypeOK'
    BY <1>1, <1>7, <2>1 DEF LockToReturn, TypeOK, pageVars, PC!TypeOK
  <2>4. ThreadOK(t)'
    BY <1>1, <1>7, <2>1 DEF LockToReturn, TypeOK, ThreadOK, Locking, Fetching, Giving
  <2> QED  BY <2>2, <2>3, <2>4, CalmInv
<1>8. CASE FetchFound(t)
  <2> DEFINE list == centralLists[cls[t]]
  <2>1. cls[t] \in Classes
    BY <1>1, <1>8 DEF FetchFound, ThreadOK, Fetching
  <2>2. list \in Seq(Spans)
    BY <1>1, <2>1 DEF TypeOK
  <2>3. PICK i \in DOMAIN list : HasFree(list[i]) /\ mine' = [mine EXCEPT ![t] = list[i]]
    BY <1>8 DEF FetchFound
  <2>4. list[i] \in ToSet(list) /\ list[i] \in Spans
    BY <2>2, OnList
  <2> HIDE DEF list
  <2>5. Calm(t)
    BY <1>1, <1>8, <2>3 DEF FetchFound, Calm, OthersAlone, TypeOK
  <2>6. TypeOK'
    BY <1>1, <1>8, <2>3, <2>4 DEF FetchFound, TypeOK, pageVars, PC!TypeOK
  <2>7. ThreadOK(t)'
    <3>1. mine'[t] = list[i] /\ mine'[t] \in ToSet(centralLists[cls[t]])
      BY <1>1, <2>3, <2>4 DEF TypeOK, list
    <3> QED  BY <1>1, <1>8, <2>1, <2>3, <2>4, <3>1
             DEF FetchFound, TypeOK, ThreadOK, Locking, Fetching, Giving, HasFree
  <2> QED  BY <2>5, <2>6, <2>7, CalmInv
<1>9. CASE FetchEmpty(t)
  <2>1. cls[t] \in Classes /\ bucketMtx[cls[t]] = t
    BY <1>1, <1>9 DEF FetchEmpty, ThreadOK, Fetching, Locking
  <2>2. Calm(t)
    BY <1>1, <1>2, <1>9, <2>1, NamesAssumption DEF FetchEmpty, Calm, OthersAlone, TypeOK
  <2>3. TypeOK'
    BY <1>1, <1>9, <2>1 DEF FetchEmpty, TypeOK, pageVars, PC!TypeOK
  <2>4. ThreadOK(t)'
    BY <1>1, <1>2, <1>9, <2>1
       DEF FetchEmpty, TypeOK, ThreadOK, Locking, Fetching, Giving
  <2> QED  BY <2>2, <2>3, <2>4, CalmInv
<1>10. CASE ReturnDone(t)
  <2>1. cls[t] \in Classes /\ bucketMtx[cls[t]] = t
    BY <1>1, <1>10 DEF ReturnDone, ThreadOK, Giving, Locking
  <2>2. queue' = queue
    BY <1>1, <1>10 DEF ReturnDone, TypeOK
  <2>3. Calm(t)
    BY <1>1, <1>2, <1>10, <2>1, <2>2, NamesAssumption
       DEF ReturnDone, Calm, OthersAlone, TypeOK
  <2>4. TypeOK'
    BY <1>1, <1>10, <2>1, <2>2 DEF ReturnDone, TypeOK, pageVars, PC!TypeOK
  <2>5. ThreadOK(t)'
    BY <1>1, <1>2, <1>10, <2>1, <2>2
       DEF ReturnDone, TypeOK, ThreadOK, Locking, Fetching, Giving
  <2> QED  BY <2>3, <2>4, <2>5, CalmInv
<1> QED  BY <1>3, <1>4, <1>5, <1>6, <1>7, <1>8, <1>9, <1>10

-----------------------------------------------------------------------------
(* Steps that call the page cache. *)

(* What a call of NewSpan by either path does to the spans handed out. *)
LEMMA ObtainedSpan ==
  ASSUME NoHuge, PCP!IInv, NEW k, NEW inUse, NEW s \in Spans,
         PC!NewSpan(k, inUse, s),
         \/ k \in CentralRequests /\ inUse = TRUE
         \/ k \in LargeRequests /\ inUse = FALSE
  PROVE  /\ [PC!Next]_pageVars
         /\ s \notin used /\ used' = used \cup {s} /\ n'[s] = k
         /\ Found(s)' /\ s \in used'
<1>1. k \in 1 .. PCP!Limit /\ inUse \in BOOLEAN
  <2>1. CentralRequests \subseteq 1 .. NPAGES - 1
    BY ClassesAssumption DEF CentralRequests
  <2>2. LargeRequests \subseteq 1 .. NPAGES - 1
    BY PagesAssumption DEF NoHuge
  <2>3. k \in 1 .. NPAGES - 1
    BY <2>1, <2>2
  <2>4. inUse \in BOOLEAN
    BY Zenon
  <2> QED  BY <2>3, <2>4 DEF PCP!Limit
<1>2. PC!Next
  BY DEF PC!Next
<1>3. s \notin used /\ n'[s] = k
  BY <1>1, SameNewSpan, PageAssumptions, PCP!NewSpanEffect
<1>4. used' = used \cup {s}
  BY DEF PC!NewSpan
<1>5. Found(s)'
  <2>1. op' # "corrupt"  BY DEF PC!NewSpan
  <2>2. PCP!IInv'  BY <1>2, <2>1, PageStep
  <2> QED  BY <1>4, <2>2, HandedOutAfter
<1> QED  BY <1>2, <1>3, <1>4, <1>5

(* GetSpan keeps the invariant: the new span belongs to the thread alone until it is carved. *)
LEMMA GetSpanInv ==
  ASSUME NoHuge, IInv, NEW t \in Threads, GetSpan(t)
  PROVE  IInv'
<1>1. TypeOK /\ ThreadOK(t)
  BY DEF IInv, ThreadsOK
<1>2. PICK s \in Spans :
        /\ PC!NewSpan(MovePages[cls[t]], TRUE, s)
        /\ objSize' = [objSize EXCEPT ![s] = cls[t]]
        /\ mine' = [mine EXCEPT ![t] = s]
  BY DEF GetSpan, FromPageCache
<1>3. /\ pc[t] = "newspan" /\ pc' = [pc EXCEPT ![t] = "carve"]
      /\ UNCHANGED <<useCount, freeList, centralLists, bucketMtx, cacheVars, cls,
                     batch, queue>>
  BY DEF GetSpan, Goto
<1>4. cls[t] \in Classes
  BY <1>1, <1>3 DEF ThreadOK, Fetching
<1>5. /\ [PC!Next]_pageVars
      /\ s \notin used /\ used' = used \cup {s} /\ n'[s] = MovePages[cls[t]]
  BY <1>2, <1>4, ObtainedSpan DEF IInv, CentralRequests
<1>6. PCP!IInv' /\ \A r \in used : r \in used' => pageId'[r] = pageId[r] /\ n'[r] = n[r]
  <2>1. op' # "corrupt"  BY <1>2 DEF PC!NewSpan
  <2> QED  BY <1>5, <2>1, PageStep DEF IInv
<1>7. ObjectsStay
  <2>1. objSize' \in [Spans -> Classes \cup {Large}]
        /\ \A r \in Spans : r \in used => objSize'[r] = objSize[r]
    BY <1>1, <1>2, <1>4, <1>5 DEF TypeOK
  <2>2. \A r : Central(r) => r \in used'
    BY <1>5, CentralSpan
  <2>3. \A a \in held : SpanOf(a) \in used'
    BY <1>5, HomeOfHeld
  <2> QED  BY <1>3, <1>6, <2>1, <2>2, <2>3 DEF ObjectsStay, cacheVars
<1>8. TypeOK'
  <2>1. PC!TypeOK'
    BY <1>6, SameTypeOK DEF PCP!IInv, PC!TypeOK, PCP!TypeOK, PC!Limit, PCP!Limit
  <2> QED  BY <1>1, <1>2, <1>3, <1>4, <2>1 DEF TypeOK, cacheVars
<1>9. OthersAlone(t)
  BY <1>1, <1>2, <1>3 DEF OthersAlone, TypeOK, cacheVars
<1>10. ThreadOK(t)'
  BY <1>1, <1>2, <1>3, <1>4
     DEF TypeOK, ThreadOK, Locking, Fetching, Giving, cacheVars
<1>11. PrivateSpan(t)'
  <2>1. mine'[t] = s /\ pc'[t] = "carve" /\ cls'[t] = cls[t] /\ objSize'[s] = cls[t]
    BY <1>1, <1>2, <1>3 DEF TypeOK
  <2>2. ~Central(mine[t])'
    <3>1. ~Central(s)  BY <1>5, CentralSpan
    <3> QED  BY <1>7, <2>1, <3>1, SameCentral
  <2>3. \A a \in held' : SpanOf(a)' # s
    BY <1>3, <1>5, <1>7, SameHomes, HomeOfHeld DEF cacheVars
  <2> QED  BY <1>5, <2>1, <2>2, <2>3 DEF PrivateSpan
<1>12. \A u \in Threads : Private(u) => mine[u] \in used
  BY DEF IInv, PrivateOK, PrivateSpan
<1>13. mine'[t] = s
  BY <1>1, <1>2 DEF TypeOK
<1> QED  BY <1>5, <1>7, <1>8, <1>9, <1>10, <1>11, <1>12, <1>13, StayInv

(* AllocLarge keeps the invariant: the caller holds the first object of a span no bucket has. *)
LEMMA AllocLargeInv ==
  ASSUME NoHuge, IInv, NEW t \in Threads, NEW k \in LargeRequests,
         AllocLarge(t, k)
  PROVE  IInv'
<1>1. TypeOK /\ ThreadOK(t)
  BY DEF IInv, ThreadsOK
<1>2. PICK s \in Spans :
        /\ PC!NewSpan(k, FALSE, s)
        /\ objSize' = [objSize EXCEPT ![s] = Large]
        /\ held' = held \cup {pageId'[s] * PageUnits}
  BY DEF AllocLarge
<1>3. /\ pc[t] = "idle"
      /\ UNCHANGED <<useCount, freeList, centralLists, bucketMtx, tcMtx, cached,
                     freeLists, maxSize, threadVars>>
  BY DEF AllocLarge
<1>4. /\ [PC!Next]_pageVars
      /\ s \notin used /\ used' = used \cup {s} /\ Found(s)'
  BY <1>2, ObtainedSpan DEF IInv
<1>5. PCP!IInv' /\ \A r \in used : r \in used' => pageId'[r] = pageId[r] /\ n'[r] = n[r]
  <2>1. op' # "corrupt"  BY <1>2 DEF PC!NewSpan
  <2> QED  BY <1>4, <2>1, PageStep DEF IInv
<1>6. pageId'[s] * PageUnits \in Nat
  <2>1. pageId'[s] \in Nat  BY <1>4 DEF Found
  <2> QED  BY <2>1, ClassesAssumption
<1>7. ObjectsStay
  <2>1. /\ objSize' \in [Spans -> Classes \cup {Large}] /\ objSize'[s] = Large
        /\ \A r \in Spans : r \in used => objSize'[r] = objSize[r]
    BY <1>1, <1>2, <1>4 DEF TypeOK
  <2>2. \A r : Central(r) => r \in used'
    BY <1>4, CentralSpan
  <2>3. \A a \in held : SpanOf(a) \in used'
    BY <1>4, HomeOfHeld
  <2>4. \A a \in held' \ held : a = pageId'[s] * PageUnits /\ s \in used' \ used
    BY <1>2, <1>4
  <2>5. held \subseteq held'
    BY <1>2
  <2> QED  BY <1>3, <1>5, <2>1, <2>2, <2>3, <2>4, <2>5 DEF ObjectsStay, threadVars
<1>8. TypeOK'
  <2>1. PC!TypeOK'
    BY <1>5, SameTypeOK DEF PCP!IInv, PC!TypeOK, PCP!TypeOK, PC!Limit, PCP!Limit
  <2> QED  BY <1>1, <1>2, <1>3, <1>6, <2>1 DEF TypeOK, threadVars
<1>9. OthersAlone(t)
  BY <1>3 DEF OthersAlone, threadVars
<1>10. ThreadOK(t)'
  BY <1>1, <1>3 DEF ThreadOK, threadVars
<1>11. ~Private(t)'
  BY <1>3 DEF Private, threadVars
<1>12. \A u \in Threads : Private(u) => mine[u] \in used'
  BY <1>4 DEF IInv, PrivateOK, PrivateSpan
<1> QED  BY <1>7, <1>8, <1>9, <1>10, <1>11, <1>12, StayInv

(* The system refuses, and the exception ends the call. *)
LEMMA ThrowsInv ==
  ASSUME NoHuge, IInv, NEW t \in Threads,
         GetSpanThrows(t) \/ \E k \in LargeRequests : AllocLargeThrows(t, k)
  PROVE  IInv'
<1>1. TypeOK /\ ThreadOK(t)
  BY DEF IInv, ThreadsOK
<1>2. /\ pc[t] \in {"newspan", "idle"} /\ pc' = [pc EXCEPT ![t] = "thrown"]
      /\ UNCHANGED <<centralVars, cacheVars, cls, batch, mine, queue>>
  BY DEF GetSpanThrows, AllocLargeThrows, Goto
<1>3. PICK k \in CentralRequests \cup LargeRequests : PC!NewSpanThrows(k)
  <2>1. CASE GetSpanThrows(t)
    <3>1. cls[t] \in Classes
      BY <1>1, <2>1 DEF ThreadOK, Fetching, GetSpanThrows
    <3> QED  BY <2>1, <3>1 DEF GetSpanThrows, CentralRequests
  <2>2. CASE \E k \in LargeRequests : AllocLargeThrows(t, k)
    BY <2>2 DEF AllocLargeThrows
  <2> QED  BY <2>1, <2>2
<1>4. [PC!Next]_pageVars /\ used' = used
  BY <1>3 DEF PC!Next, PC!NewSpanThrows
<1>5. PCP!IInv' /\ \A r \in used : r \in used' => pageId'[r] = pageId[r] /\ n'[r] = n[r]
  <2>1. op' # "corrupt"  BY <1>3 DEF PC!NewSpanThrows
  <2> QED  BY <1>4, <2>1, PageStep DEF IInv
<1>6. ObjectsStay
  <2>1. \A r : Central(r) => r \in used'
    BY <1>4, CentralSpan
  <2>2. \A a \in held : SpanOf(a) \in used'
    BY <1>4, HomeOfHeld
  <2> QED  BY <1>1, <1>2, <1>5, <2>1, <2>2
           DEF ObjectsStay, centralVars, cacheVars, TypeOK
<1>7. TypeOK'
  <2>1. PC!TypeOK'
    BY <1>5, SameTypeOK DEF PCP!IInv, PC!TypeOK, PCP!TypeOK, PC!Limit, PCP!Limit
  <2> QED  BY <1>1, <1>2, <2>1 DEF TypeOK, centralVars, cacheVars
<1>8. OthersAlone(t)
  BY <1>1, <1>2 DEF OthersAlone, TypeOK, centralVars, cacheVars
<1>9. ThreadOK(t)'
  BY <1>1, <1>2
     DEF TypeOK, ThreadOK, Locking, Fetching, Giving, centralVars, cacheVars
<1>10. ~Private(t)'
  BY <1>1, <1>2 DEF Private, TypeOK
<1>11. \A u \in Threads : Private(u) => mine[u] \in used'
  BY <1>4 DEF IInv, PrivateOK, PrivateSpan
<1> QED  BY <1>6, <1>7, <1>8, <1>9, <1>10, <1>11, StayInv

(* FreeLarge keeps the invariant: the span leaves with its one object. *)
LEMMA FreeLargeInv ==
  ASSUME NoHuge, IInv, NEW t \in Threads, NEW a \in held, FreeLarge(t, a)
  PROVE  IInv'
<1> DEFINE s == SpanOf(a)
<1>1. TypeOK /\ ThreadOK(t)
  BY DEF IInv, ThreadsOK
<1>2. /\ pc[t] = "idle" /\ pc' = [pc EXCEPT ![t] = "pagelock"]
      /\ objSize[s] = Large /\ held' = held \ {a} /\ mine' = [mine EXCEPT ![t] = s]
      /\ UNCHANGED <<pageVars, centralVars, tcMtx, cached, freeLists, maxSize, cls,
                     batch, queue>>
  BY DEF FreeLarge, Goto
<1>3. s \in used /\ s \in Spans
  BY HomeOfHeld
<1> HIDE DEF s
<1>4. PCP!IInv' /\ \A r \in used : r \in used' => pageId'[r] = pageId[r] /\ n'[r] = n[r]
  BY <1>2, PageStep DEF IInv, PCP!IInv, PCP!Intact, pageVars
<1>5. used' = used
  BY <1>2 DEF pageVars
<1>6. ObjectsStay
  <2>1. \A r : Central(r) => r \in used'
    BY <1>5, CentralSpan
  <2>2. \A b \in held : SpanOf(b) \in used'
    BY <1>5, HomeOfHeld
  <2>3. \A b \in held \ held' : objSize[SpanOf(b)] = Large
    BY <1>2 DEF s
  <2> QED  BY <1>1, <1>2, <1>4, <2>1, <2>2, <2>3 DEF ObjectsStay, centralVars, TypeOK
<1>7. TypeOK'
  BY <1>1, <1>2, <1>3 DEF TypeOK, pageVars, centralVars, PC!TypeOK
<1>8. OthersAlone(t)
  BY <1>1, <1>2 DEF OthersAlone, TypeOK, centralVars
<1>9. ThreadOK(t)'
  BY <1>1, <1>2 DEF TypeOK, ThreadOK, Locking, Fetching, Giving, centralVars
<1>10. mine'[t] = s /\ pc'[t] = "pagelock"
  BY <1>1, <1>2 DEF TypeOK
<1>11. PrivateSpan(t)'
  <2>1. ~Central(mine[t])'
    <3>1. ~Central(s)  BY <1>2, NamesAssumption DEF Central
    <3> QED  BY <1>6, <1>10, <3>1, SameCentral
  <2>2. ASSUME NEW b \in held', SpanOf(b)' = s PROVE FALSE
    <3>1. b \in held /\ b # a /\ SpanOf(b) = s
      BY <1>2, <1>6, <2>2, SameHomes
    <3>2. b = pageId[s] * PageUnits /\ a = pageId[s] * PageUnits
      BY <1>2, <3>1 DEF IInv, LargeOK, s
    <3> QED  BY <3>1, <3>2
  <2> QED  BY <1>3, <1>5, <1>10, <2>1, <2>2 DEF PrivateSpan
<1>12. \A u \in Threads : Private(u) => mine[u] \in used /\ mine[u] # s
  BY DEF IInv, PrivateOK, PrivateSpan, s
<1> QED  BY <1>5, <1>6, <1>7, <1>8, <1>9, <1>10, <1>11, <1>12, StayInv

(* Giving a span back starts its release: no span handed out is longer     *)
(* than a list can hold.                                                   *)
LEMMA ReleaseSpanStarts ==
  ASSUME IInv, NEW t \in Threads, ReleaseSpan(t)
  PROVE  /\ PC!StartRelease(mine[t]) /\ mine[t] \in used
         /\ pc[t] = "pagelock" /\ pc' = [pc EXCEPT ![t] = "merging"]
         /\ UNCHANGED <<centralVars, cacheVars, cls, batch, mine, queue>>
<1>1. pc[t] = "pagelock"
  BY DEF ReleaseSpan
<1>2. mine[t] \in used
  BY <1>1 DEF IInv, PrivateOK, PrivateSpan, Private
<1>3. n[mine[t]] \in Nat /\ n[mine[t]] <= NPAGES - 1
  BY <1>2, HandedOut DEF IInv, Found
<1>4. ~PC!ReleaseHuge(mine[t])
  BY <1>3, PagesAssumption DEF PC!ReleaseHuge, PC!Limit
<1> QED  BY <1>1, <1>2, <1>4 DEF ReleaseSpan, Goto

(* ReleaseSpan keeps the invariant: the span it gives up was the thread's alone. *)
LEMMA ReleaseSpanInv ==
  ASSUME NoHuge, IInv, NEW t \in Threads, ReleaseSpan(t)
  PROVE  IInv'
<1>1. TypeOK /\ ThreadOK(t)
  BY DEF IInv, ThreadsOK
<1>2. /\ PC!StartRelease(mine[t]) /\ mine[t] \in used
      /\ pc[t] = "pagelock" /\ pc' = [pc EXCEPT ![t] = "merging"]
      /\ UNCHANGED <<centralVars, cacheVars, cls, batch, mine, queue>>
  BY ReleaseSpanStarts
<1>3. [PC!Next]_pageVars /\ used' = used \ {mine[t]}
  BY <1>2 DEF PC!Next, PC!StartRelease
<1>4. PCP!IInv' /\ \A r \in used : r \in used' => pageId'[r] = pageId[r] /\ n'[r] = n[r]
  <2>1. op' # "corrupt"  BY <1>2 DEF PC!StartRelease
  <2> QED  BY <1>3, <2>1, PageStep DEF IInv
<1>5. /\ ~Central(mine[t]) /\ \A a \in held : SpanOf(a) # mine[t]
      /\ \A u \in Threads : Private(u) /\ mine[u] = mine[t] => u = t
  BY <1>2 DEF IInv, PrivateOK, PrivateSpan, Private
<1>6. ObjectsStay
  <2>1. \A r : Central(r) => r \in used'
    BY <1>3, <1>5, CentralSpan
  <2>2. \A a \in held : SpanOf(a) \in used'
    BY <1>3, <1>5, HomeOfHeld
  <2> QED  BY <1>1, <1>2, <1>4, <2>1, <2>2
           DEF ObjectsStay, centralVars, cacheVars, TypeOK
<1>7. TypeOK'
  <2>1. PC!TypeOK'
    BY <1>4, SameTypeOK DEF PCP!IInv, PC!TypeOK, PCP!TypeOK, PC!Limit, PCP!Limit
  <2> QED  BY <1>1, <1>2, <2>1 DEF TypeOK, centralVars, cacheVars
<1>8. OthersAlone(t)
  BY <1>1, <1>2 DEF OthersAlone, TypeOK, centralVars, cacheVars
<1>9. ThreadOK(t)'
  BY <1>1, <1>2
     DEF TypeOK, ThreadOK, Locking, Fetching, Giving, centralVars, cacheVars
<1>10. ~Private(t)'
  BY <1>1, <1>2 DEF Private, TypeOK
<1>11. \A u \in Threads : u # t /\ Private(u) => mine[u] \in used'
  BY <1>3, <1>5 DEF IInv, PrivateOK, PrivateSpan
<1> QED  BY <1>6, <1>7, <1>8, <1>9, <1>10, <1>11, StayInv

(* A merge step keeps the invariant: it touches free spans only, unless it *)
(* is the end.                                                             *)
LEMMA MergeStepInv ==
  ASSUME NoHuge, IInv, NEW t \in Threads, MergeStep(t), op' # "corrupt"
  PROVE  IInv'
<1>1. TypeOK /\ ThreadOK(t)
  BY DEF IInv, ThreadsOK
<1>2. [PC!Next]_pageVars /\ used' = used
  BY DEF MergeStep, PC!Next, PC!ReleaseStep, PC!MergePrev, PC!StopPrev, PC!MergeNext,
         PC!FinishRelease
<1>3. pc[t] = "merging" /\ UNCHANGED <<centralVars, cacheVars>>
  BY DEF MergeStep
<1>4. \/ UNCHANGED threadVars
      \/ cls[t] = Large /\ Return(t)
      \/ /\ cls[t] # Large /\ pc' = [pc EXCEPT ![t] = "retlock"]
         /\ mine' = [mine EXCEPT ![t] = NoSpan] /\ UNCHANGED <<cls, batch, queue>>
  BY DEF MergeStep, AfterRelease, Goto
<1>5. cls[t] = Large => queue[t] = <<>>
  BY <1>1, NamesAssumption DEF ThreadOK
<1>6. queue' = queue
  BY <1>1, <1>4, <1>5 DEF Return, TypeOK, threadVars
<1>7. PCP!IInv' /\ \A r \in used : r \in used' => pageId'[r] = pageId[r] /\ n'[r] = n[r]
  BY <1>2, PageStep DEF IInv
<1>8. ObjectsStay
  <2>1. \A r : Central(r) => r \in used'
    BY <1>2, CentralSpan
  <2>2. \A a \in held : SpanOf(a) \in used'
    BY <1>2, HomeOfHeld
  <2>3. \A u \in Threads : queue[u] # <<>> => cls'[u] = cls[u]
    BY <1>1, <1>4, <1>5 DEF Return, TypeOK, threadVars
  <2> QED  BY <1>1, <1>3, <1>6, <1>7, <2>1, <2>2, <2>3
           DEF ObjectsStay, centralVars, cacheVars, TypeOK
<1>9. TypeOK'
  <2>1. PC!TypeOK'
    BY <1>7, SameTypeOK DEF PCP!IInv, PC!TypeOK, PCP!TypeOK, PC!Limit, PCP!Limit
  <2>2. /\ \/ UNCHANGED pc
           \/ \E label \in {"idle", "retlock"} : pc' = [pc EXCEPT ![t] = label]
        /\ cls' \in [Threads -> Classes \cup {Large}]
        /\ batch' \in [Threads -> Nat]
        /\ mine' \in [Threads -> Spans \cup {NoSpan}]
    <3>1. CASE UNCHANGED threadVars
      BY <1>1, <3>1 DEF TypeOK, threadVars
    <3>2. CASE Return(t)
      BY <1>1, <3>2 DEF TypeOK, Return, Goto
    <3>3. CASE /\ pc' = [pc EXCEPT ![t] = "retlock"]
               /\ mine' = [mine EXCEPT ![t] = NoSpan] /\ UNCHANGED <<cls, batch, queue>>
      BY <1>1, <3>3 DEF TypeOK
    <3> QED  BY <1>4, <3>1, <3>2, <3>3
  <2> QED  BY <1>1, <1>3, <1>6, <2>1, <2>2 DEF TypeOK, centralVars, cacheVars
<1>10. OthersAlone(t)
  BY <1>1, <1>3, <1>4, <1>6
     DEF OthersAlone, Return, Goto, TypeOK, threadVars, centralVars, cacheVars
<1>11. ThreadOK(t)'
  <2>1. CASE UNCHANGED threadVars
    BY <1>1, <1>3, <2>1 DEF ThreadOK, threadVars, centralVars, cacheVars
  <2>2. CASE ~UNCHANGED threadVars
    BY <1>1, <1>3, <1>4, <1>5, <1>6, <2>2
       DEF Return, Goto, TypeOK, ThreadOK, Locking, Fetching, Giving, centralVars,
           cacheVars
  <2> QED  BY <2>1, <2>2
<1>12. ~Private(t)'
  BY <1>1, <1>3, <1>4 DEF Private, Return, Goto, TypeOK, threadVars
<1>13. \A u \in Threads : Private(u) => mine[u] \in used'
  BY <1>2 DEF IInv, PrivateOK, PrivateSpan
<1> QED  BY <1>8, <1>9, <1>10, <1>11, <1>12, <1>13, StayInv

-----------------------------------------------------------------------------
(* Steps that move objects, under a bucket's mutex or in the thread's own  *)
(* lists.  None of them touches the page cache.                            *)

(* A step that leaves the page cache and the classes alone keeps every home. *)
LEMMA Unmoved ==
  ASSUME NoHuge, IInv, UNCHANGED <<pageVars, objSize>>
  PROVE  /\ PCP!IInv' /\ used' = used /\ pageId' = pageId /\ n' = n
         /\ \A a : SpanOf(a)' = SpanOf(a)
         /\ \A s : Objects(s)' = Objects(s) /\ Count(s)' = Count(s)
<1>1. PCP!IInv'
  BY PageStep DEF IInv, PCP!IInv, PCP!Intact, pageVars
<1>2. UNCHANGED <<used, pageId, n, idSpanMap>>
  BY DEF pageVars
<1> QED  BY <1>1, <1>2 DEF SpanOf, PC!MapGet, Objects, Count, Carved

(* Where an object that is out of its span can be. *)
OutSomewhere(a) ==
  \/ a \in held /\ objSize[SpanOf(a)] # Large
  \/ \E t \in Threads, c \in Classes : a \in InCache(t, c)
  \/ \E t \in Threads : a \in InQueue(t)

(* An object out of its span is held, in a ThreadCache or in a queue. *)
LEMMA OutWhere == \A a : a \in OutOfSpan <=> OutSomewhere(a)
BY OutMembers DEF OutSomewhere

(* OutWhere, of the state after a step. *)
LEMMA OutWhereAfter == (\A a : a \in OutOfSpan <=> OutSomewhere(a))'
BY OutWhere, PTL

(* Spans that others have to themselves stay so, when none of them gets    *)
(* into a bucket and no object of one is handed out.                       *)
LEMMA PrivateStay ==
  ASSUME IInv, NEW t \in Threads, OthersAlone(t), UNCHANGED <<pageVars, objSize>>,
         \A a : SpanOf(a)' = SpanOf(a),
         \A a \in held' \ held : Central(SpanOf(a)),
         \A u \in Threads :
           u # t /\ Private(u) /\ Central(mine[u])' => Central(mine[u]),
         Private(t)' => /\ PrivateSpan(t)'
                        /\ \A u \in Threads : u # t /\ Private(u) => mine[u] # mine'[t]
  PROVE  PrivateOK'
<1>1. \A u \in Threads : u # t => /\ Private(u)' <=> Private(u)
                                  /\ mine'[u] = mine[u] /\ cls'[u] = cls[u]
                                  /\ pc'[u] = pc[u]
  BY DEF OthersAlone, Private
<1>2. UNCHANGED <<used, n, objSize>>
  BY DEF pageVars
<1>3. ASSUME NEW u \in Threads, u # t, Private(u) PROVE PrivateSpan(u)'
  <2>1. PrivateSpan(u)
    BY <1>3 DEF IInv, PrivateOK
  <2>2. ~Central(mine[u])'
    BY <1>3, <2>1 DEF PrivateSpan
  <2>3. \A a \in held' : SpanOf(a)' # mine'[u]
    BY <1>1, <1>3, <2>1 DEF PrivateSpan
  <2> QED  BY <1>1, <1>2, <1>3, <2>1, <2>2, <2>3 DEF PrivateSpan
<1>4. \A u \in Threads : Private(u)' => PrivateSpan(u)'
  BY <1>1, <1>3
<1>5. \A u, v \in Threads : Private(u)' /\ Private(v)' /\ mine'[u] = mine'[v] => u = v
  BY <1>1 DEF IInv, PrivateOK
<1> QED  BY <1>4, <1>5 DEF PrivateOK

(* AllocHit keeps the invariant: an object goes from the ThreadCache to the caller. *)
LEMMA AllocHitInv ==
  ASSUME NoHuge, IInv, NEW t \in Threads, NEW c \in Classes, AllocHit(t, c)
  PROVE  IInv'
<1> DEFINE q == freeLists[t][c]
           h == Head(q)
<1>1. TypeOK /\ ThreadOK(t)
  BY DEF IInv, ThreadsOK
<1>2. /\ q # <<>> /\ held' = held \cup {h}
      /\ freeLists' = [freeLists EXCEPT ![t][c] = Tail(q)]
      /\ UNCHANGED <<pageVars, centralVars, tcMtx, cached, maxSize, threadVars>>
  BY DEF AllocHit
<1>3. q \in Seq(Nat) /\ IsInjective(q)
  BY <1>1 DEF TypeOK, IInv, ListsApart
<1>4. /\ h \in ToSet(q) /\ h \in Nat /\ Tail(q) \in Seq(Nat)
      /\ ToSet(q) = ToSet(Tail(q)) \cup {h}
      /\ IsInjective(Tail(q)) /\ h \notin ToSet(Tail(q))
  BY <1>2, <1>3, Popped
<1>5. /\ \A u \in Threads, d \in Classes :
           InCache(u, d)' = IF u = t /\ d = c THEN InCache(t, c) \ {h} ELSE InCache(u, d)
      /\ \A u \in Threads, d \in Classes : IsInjective(freeLists'[u][d])
      /\ freeLists' \in [Threads -> [Classes -> Seq(Nat)]]
      /\ h \in InCache(t, c)
  <2>1. freeLists \in [Threads -> [Classes -> Seq(Nat)]]
    BY <1>1 DEF TypeOK
  <2> HIDE DEF q, h
  <2>2. \A u \in Threads, d \in Classes :
          freeLists'[u][d] = IF u = t /\ d = c THEN Tail(q) ELSE freeLists[u][d]
    BY <1>2, <2>1
  <2>3. InCache(t, c) = ToSet(q) /\ \A u, d : InCache(u, d)' = ToSet(freeLists'[u][d])
    BY DEF InCache, q
  <2>4. freeLists' \in [Threads -> [Classes -> Seq(Nat)]]
    BY <1>2, <1>4, <2>1
  <2>5. \A u \in Threads, d \in Classes : IsInjective(freeLists'[u][d])
    BY <1>4, <2>2 DEF IInv, ListsApart
  <2>6. \A u \in Threads, d \in Classes :
           InCache(u, d)' = IF u = t /\ d = c THEN InCache(t, c) \ {h} ELSE InCache(u, d)
    BY <1>4, <2>2, <2>3 DEF InCache
  <2> QED  BY <1>4, <2>3, <2>4, <2>5, <2>6
<1> HIDE DEF h, q
<1>6. UNCHANGED <<objSize, useCount, freeList, centralLists, bucketMtx, pc, cls, batch,
                  mine, queue>>
  BY <1>2 DEF centralVars, threadVars
<1>7. /\ PCP!IInv' /\ used' = used /\ pageId' = pageId /\ n' = n
      /\ \A a : SpanOf(a)' = SpanOf(a)
      /\ \A s : Objects(s)' = Objects(s) /\ Count(s)' = Count(s)
  BY <1>2, <1>6, Unmoved
<1>8. /\ \A u : InQueue(u)' = InQueue(u)
      /\ \A s : InSpan(s)' = InSpan(s)
      /\ \A s : Central(s)' <=> Central(s)
  BY <1>6 DEF InQueue, InSpan, Central
<1>9. h \in OutOfSpan /\ objSize[SpanOf(h)] = c /\ objSize[SpanOf(h)] # Large
  BY <1>5, OutMembers, NamesAssumption DEF IInv, HomesOK
<1>10. OutOfSpan' = OutOfSpan
  <2>1. ASSUME NEW a \in OutOfSpan PROVE OutSomewhere(a)'
    BY <1>2, <1>5, <1>6, <1>7, <1>8, <1>9, OutWhere DEF OutSomewhere
  <2>2. ASSUME NEW a, OutSomewhere(a)' PROVE a \in OutOfSpan
    BY <1>2, <1>5, <1>6, <1>7, <1>8, <1>9, <2>2, OutWhere DEF OutSomewhere
  <2> QED  BY <2>1, <2>2, OutWhereAfter
<1>11. BucketsOK'
  BY <1>6, <1>7 DEF IInv, BucketsOK
<1>12. SpansOK'
  BY <1>6, <1>7, <1>8, <1>10 DEF IInv, SpansOK
<1>13. HomesOK'
  <2>1. (\A a \in OutOfSpan : SpanOf(a) \in Spans /\ Central(SpanOf(a)))'
    BY <1>7, <1>8, <1>10 DEF IInv, HomesOK
  <2>2. \A u \in Threads, d \in Classes : \A a \in InCache(u, d)' : objSize[SpanOf(a)] = d
    <3>1. \A u \in Threads, d \in Classes : InCache(u, d)' \subseteq InCache(u, d)
      BY <1>5
    <3>2. \A u \in Threads, d \in Classes : \A a \in InCache(u, d) : objSize[SpanOf(a)] = d
      BY DEF IInv, HomesOK
    <3> QED  BY <3>1, <3>2
  <2>3. \A u \in Threads : \A a \in InQueue(u)' : objSize[SpanOf(a)] = cls[u]
    BY <1>8 DEF IInv, HomesOK
  <2> QED  BY <1>6, <1>7, <2>1, <2>2, <2>3 DEF HomesOK
<1>14. LargeOK'
  BY <1>2, <1>6, <1>7, <1>9 DEF IInv, LargeOK
<1>15. ListsApart'
  BY <1>2, <1>5, <1>6, <1>8 DEF IInv, ListsApart
<1>16. TypeOK'
  BY <1>1, <1>2, <1>4, <1>5, <1>6 DEF TypeOK, pageVars, centralVars, threadVars, PC!TypeOK
<1>17. ThreadsOK'
  BY <1>2, <1>6 DEF IInv, ThreadsOK, ThreadOK
<1>18. PrivateOK'
  <2>1. OthersAlone(t)
    BY <1>2, <1>6 DEF OthersAlone
  <2>2. \A a \in held' \ held : Central(SpanOf(a))
    BY <1>2, <1>9, HomeOf
  <2>3. ~Private(t)'
    BY <1>6 DEF Private, AllocHit
  <2>4. \A u : Central(mine[u])' <=> Central(mine[u])
    BY <1>6 DEF Central
  <2> QED  BY <1>2, <1>6, <1>7, <2>1, <2>2, <2>3, <2>4, PrivateStay
<1> QED  BY <1>7, <1>11, <1>12, <1>13, <1>14, <1>15, <1>16, <1>17, <1>18 DEF IInv

(* Freeing pushes the object and, when the list is full, cuts the list in  *)
(* two; either way the object is on one of the two lists that result.      *)
LEMMA FreeSmallLists ==
  ASSUME IInv, NEW t \in Threads, NEW a \in held, FreeSmall(t, a)
  PROVE  \E c \in Classes : \E back \in Seq(Nat), front \in Seq(Nat) :
           /\ c = objSize[SpanOf(a)]
           /\ freeLists' = [freeLists EXCEPT ![t][c] = back]
           /\ queue' = [queue EXCEPT ![t] = front]
           /\ IsInjective(back) /\ IsInjective(front)
           /\ ToSet(back) \cap ToSet(front) = {}
           /\ ToSet(back) \cup ToSet(front) = InCache(t, c) \cup {a}
           /\ \/ cls' = [cls EXCEPT ![t] = c] /\ pc' = [pc EXCEPT ![t] = "retlock"]
              \/ front = <<>> /\ cls' = cls /\ pc' = pc
<1> DEFINE c == objSize[SpanOf(a)]
           q == freeLists[t][c]
           list == <<a>> \o q
           m == maxSize[t][c]
<1>1. TypeOK /\ ThreadOK(t)
  BY DEF IInv, ThreadsOK
<1>2. pc[t] = "idle" /\ c # Large
  BY DEF FreeSmall
<1>3. c \in Classes
  BY <1>1, <1>2, HomeOfHeld DEF TypeOK
<1>4. q \in Seq(Nat) /\ IsInjective(q) /\ a \in Nat /\ m \in Nat /\ m > 0
  BY <1>1, <1>3 DEF TypeOK, ThreadOK, IInv, ListsApart
<1>5. InCache(t, c) = ToSet(q)
  BY DEF InCache
<1>6. a \notin ToSet(q)
  BY <1>3, <1>5 DEF IInv, ListsApart
<1>7. queue[t] = <<>>
  BY <1>1, <1>2 DEF ThreadOK, Giving
<1>8. /\ list \in Seq(Nat) /\ ToSet(list) = ToSet(q) \cup {a} /\ IsInjective(list)
  BY <1>4, <1>6, Pushed
<1>9. \/ /\ TooLong(list, m)
         /\ freeLists' = [freeLists EXCEPT ![t][c] = SubSeq(list, m + 1, Len(list))]
         /\ queue' = [queue EXCEPT ![t] = SubSeq(list, 1, m)]
         /\ cls' = [cls EXCEPT ![t] = c] /\ pc' = [pc EXCEPT ![t] = "retlock"]
      \/ /\ freeLists' = [freeLists EXCEPT ![t][c] = list]
         /\ UNCHANGED <<queue, cls, pc>>
  BY DEF FreeSmall, Goto
<1> HIDE DEF c, q, list, m
<1>10. CASE /\ TooLong(list, m)
            /\ freeLists' = [freeLists EXCEPT ![t][c] = SubSeq(list, m + 1, Len(list))]
            /\ queue' = [queue EXCEPT ![t] = SubSeq(list, 1, m)]
            /\ cls' = [cls EXCEPT ![t] = c] /\ pc' = [pc EXCEPT ![t] = "retlock"]
  <2> DEFINE back == SubSeq(list, m + 1, Len(list))
             front == SubSeq(list, 1, m)
  <2>1. Len(list) \in Nat  BY <1>8, LenProperties
  <2>2. m \in 0 .. Len(list)
    BY <1>4, <1>10, <2>1 DEF TooLong
  <2>3. /\ back \in Seq(Nat) /\ front \in Seq(Nat)
        /\ ToSet(list) = ToSet(front) \cup ToSet(back)
        /\ IsInjective(back) /\ IsInjective(front) /\ ToSet(front) \cap ToSet(back) = {}
    BY <1>8, <2>2, CutOff
  <2> HIDE DEF back, front
  <2>4. /\ freeLists' = [freeLists EXCEPT ![t][c] = back]
        /\ queue' = [queue EXCEPT ![t] = front]
    BY <1>10 DEF back, front
  <2> QED  BY <1>3, <1>5, <1>8, <1>10, <2>3, <2>4 DEF c
<1>11. CASE /\ freeLists' = [freeLists EXCEPT ![t][c] = list]
            /\ UNCHANGED <<queue, cls, pc>>
  <2>1. queue' = [queue EXCEPT ![t] = <<>>]
    BY <1>1, <1>7, <1>11 DEF TypeOK
  <2>2. <<>> \in Seq(Nat) /\ ToSet(<<>>) = {} /\ IsInjective(<<>>)
    BY EmptyList
  <2> QED  BY <1>3, <1>5, <1>8, <1>11, <2>1, <2>2 DEF c
<1> QED  BY <1>9, <1>10, <1>11

(* FreeSmall keeps the invariant: an object goes from the caller to the ThreadCache. *)
LEMMA FreeSmallInv ==
  ASSUME NoHuge, IInv, NEW t \in Threads, NEW a \in held, FreeSmall(t, a)
  PROVE  IInv'
<1>1. TypeOK /\ ThreadOK(t)
  BY DEF IInv, ThreadsOK
<1>2. PICK c \in Classes : \E back \in Seq(Nat), front \in Seq(Nat) :
        /\ c = objSize[SpanOf(a)]
        /\ freeLists' = [freeLists EXCEPT ![t][c] = back]
        /\ queue' = [queue EXCEPT ![t] = front]
        /\ IsInjective(back) /\ IsInjective(front)
        /\ ToSet(back) \cap ToSet(front) = {}
        /\ ToSet(back) \cup ToSet(front) = InCache(t, c) \cup {a}
        /\ \/ cls' = [cls EXCEPT ![t] = c] /\ pc' = [pc EXCEPT ![t] = "retlock"]
           \/ front = <<>> /\ cls' = cls /\ pc' = pc
  BY FreeSmallLists
<1>3. PICK back \in Seq(Nat), front \in Seq(Nat) :
        /\ c = objSize[SpanOf(a)]
        /\ freeLists' = [freeLists EXCEPT ![t][c] = back]
        /\ queue' = [queue EXCEPT ![t] = front]
        /\ IsInjective(back) /\ IsInjective(front)
        /\ ToSet(back) \cap ToSet(front) = {}
        /\ ToSet(back) \cup ToSet(front) = InCache(t, c) \cup {a}
        /\ \/ cls' = [cls EXCEPT ![t] = c] /\ pc' = [pc EXCEPT ![t] = "retlock"]
           \/ front = <<>> /\ cls' = cls /\ pc' = pc
  BY <1>2
<1>4. /\ pc[t] = "idle" /\ held' = held \ {a}
      /\ UNCHANGED <<pageVars, objSize, useCount, freeList, centralLists, bucketMtx,
                     tcMtx, cached, maxSize, batch, mine>>
  BY DEF FreeSmall, centralVars
<1>5. queue[t] = <<>> /\ InQueue(t) = {} /\ cls[t] = Large
  BY <1>1, <1>4, EmptyList DEF ThreadOK, Giving, InQueue
<1>6. /\ \A u \in Threads, d \in Classes :
           InCache(u, d)' = IF u = t /\ d = c THEN ToSet(back) ELSE InCache(u, d)
      /\ \A u \in Threads : InQueue(u)' = IF u = t THEN ToSet(front) ELSE InQueue(u)
      /\ \A u \in Threads, d \in Classes : IsInjective(freeLists'[u][d])
      /\ \A u \in Threads : IsInjective(queue'[u])
      /\ freeLists' \in [Threads -> [Classes -> Seq(Nat)]]
      /\ queue' \in [Threads -> Seq(Nat)]
  <2>1. /\ freeLists \in [Threads -> [Classes -> Seq(Nat)]]
        /\ queue \in [Threads -> Seq(Nat)]
    BY <1>1 DEF TypeOK
  <2>2. /\ \A u \in Threads, d \in Classes :
             freeLists'[u][d] = IF u = t /\ d = c THEN back ELSE freeLists[u][d]
        /\ \A u \in Threads : queue'[u] = IF u = t THEN front ELSE queue[u]
    BY <1>3, <2>1
  <2>3. /\ freeLists' \in [Threads -> [Classes -> Seq(Nat)]]
        /\ queue' \in [Threads -> Seq(Nat)]
    BY <1>3, <2>1
  <2>4. /\ \A u \in Threads, d \in Classes : IsInjective(freeLists'[u][d])
        /\ \A u \in Threads : IsInjective(queue'[u])
    BY <1>3, <2>2 DEF IInv, ListsApart
  <2> QED  BY <2>2, <2>3, <2>4 DEF InCache, InQueue
<1>7. /\ PCP!IInv' /\ used' = used /\ pageId' = pageId /\ n' = n
      /\ \A b : SpanOf(b)' = SpanOf(b)
      /\ \A s : Objects(s)' = Objects(s) /\ Count(s)' = Count(s)
  BY <1>4, Unmoved
<1>8. /\ \A s : InSpan(s)' = InSpan(s)
      /\ \A s : Central(s)' <=> Central(s)
  BY <1>4 DEF InSpan, Central
<1>9. a \in OutOfSpan /\ objSize[SpanOf(a)] # Large
  BY <1>3, OutMembers, NamesAssumption
<1>10. \A b : b \in ToSet(back) \/ b \in ToSet(front) <=> b \in InCache(t, c) \/ b = a
  BY <1>3
<1>11. ASSUME NEW u \in Threads, NEW d \in Classes, NEW b \in InCache(u, d)'
       PROVE  b \in InCache(u, d) \/ (u = t /\ d = c /\ b = a)
  <2>1. CASE u = t /\ d = c
    <3>1. b \in ToSet(back)  BY <1>6, <2>1
    <3> QED  BY <1>10, <2>1, <3>1
  <2>2. CASE ~(u = t /\ d = c)
    BY <1>6, <2>2
  <2> QED  BY <2>1, <2>2
<1>12. OutOfSpan' = OutOfSpan
  <2>1. ASSUME NEW b \in OutOfSpan PROVE OutSomewhere(b)'
    <3>1. CASE b \in held /\ objSize[SpanOf(b)] # Large
      BY <1>4, <1>6, <1>7, <1>10, <3>1 DEF OutSomewhere
    <3>2. ASSUME NEW u \in Threads, NEW d \in Classes, b \in InCache(u, d)
          PROVE  OutSomewhere(b)'
      BY <1>6, <1>10, <3>2 DEF OutSomewhere
    <3>3. ASSUME NEW u \in Threads, b \in InQueue(u) PROVE OutSomewhere(b)'
      BY <1>5, <1>6, <3>3 DEF OutSomewhere
    <3> QED  BY <3>1, <3>2, <3>3, OutMembers
  <2>2. ASSUME NEW b, OutSomewhere(b)' PROVE b \in OutOfSpan
    <3>1. CASE b \in held' /\ objSize'[SpanOf(b)'] # Large
      BY <1>4, <1>7, <3>1, OutMembers
    <3>2. ASSUME NEW u \in Threads, NEW d \in Classes, b \in InCache(u, d)'
          PROVE  b \in OutOfSpan
      BY <1>9, <1>11, <3>2, OutMembers
    <3>3. ASSUME NEW u \in Threads, b \in InQueue(u)' PROVE b \in OutOfSpan
      BY <1>6, <1>9, <1>10, <3>3, OutMembers
    <3> QED  BY <2>2, <3>1, <3>2, <3>3 DEF OutSomewhere
  <2> QED  BY <2>1, <2>2, OutWhereAfter
<1>13. BucketsOK'
  BY <1>4, <1>7 DEF IInv, BucketsOK
<1>14. SpansOK'
  BY <1>4, <1>7, <1>8, <1>12 DEF IInv, SpansOK
<1>15. HomesOK'
  <2>1. (\A b \in OutOfSpan : SpanOf(b) \in Spans /\ Central(SpanOf(b)))'
    BY <1>7, <1>8, <1>12 DEF IInv, HomesOK
  <2>2. /\ \A u \in Threads, d \in Classes : \A b \in InCache(u, d) : objSize[SpanOf(b)] = d
        /\ \A u \in Threads : \A b \in InQueue(u) : objSize[SpanOf(b)] = cls[u]
    BY DEF IInv, HomesOK
  <2>3. ASSUME NEW u \in Threads, NEW d \in Classes, NEW b \in InCache(u, d)'
        PROVE  objSize[SpanOf(b)] = d
    BY <1>3, <1>11, <2>2
  <2>4. ASSUME NEW u \in Threads, NEW b \in InQueue(u)'
        PROVE  objSize[SpanOf(b)] = cls'[u]
    <3>1. CASE u # t
      <4>1. cls'[u] = cls[u]  BY <1>1, <1>3, <3>1 DEF TypeOK
      <4> QED  BY <1>6, <2>2, <3>1, <4>1
    <3>2. CASE u = t
      <4>1. b \in ToSet(front)  BY <1>6, <3>2
      <4>2. front # <<>>  BY <4>1, EmptyList
      <4>3. cls'[t] = c  BY <1>1, <1>3, <4>2 DEF TypeOK
      <4> QED  BY <1>3, <1>10, <2>2, <3>2, <4>1, <4>3
    <3> QED  BY <3>1, <3>2
  <2> QED  BY <1>4, <1>7, <2>1, <2>3, <2>4 DEF HomesOK
<1>16. LargeOK'
  BY <1>4, <1>7 DEF IInv, LargeOK
<1>17. ListsApart'
  <2>1. ListsApart  BY DEF IInv
  <2>2. /\ \A u \in Threads, d \in Classes : a \notin InCache(u, d)
        /\ \A u \in Threads : a \notin InQueue(u)
        /\ \A s \in Spans : a \notin InSpan(s)
    BY <2>1 DEF ListsApart
  <2>3. \A s \in Spans : IsInjective(freeList'[s])
    BY <1>4, <2>1 DEF ListsApart
  <2>4. ASSUME NEW u \in Threads, NEW d \in Classes, NEW b \in InCache(u, d)'
        PROVE  /\ b \notin held'
               /\ \A v \in Threads, e \in Classes : b \in InCache(v, e)' => v = u /\ e = d
               /\ \A v \in Threads : b \notin InQueue(v)'
               /\ \A s \in Spans : b \notin InSpan(s)'
    <3>1. b \in InCache(u, d) \/ (u = t /\ d = c /\ b = a)
      BY <1>11
    <3>2. b \notin held' /\ \A s \in Spans : b \notin InSpan(s)'
      BY <1>4, <1>8, <2>1, <2>2, <3>1 DEF ListsApart
    <3>3. \A v \in Threads, e \in Classes : b \in InCache(v, e)' => v = u /\ e = d
      BY <1>11, <2>1, <2>2, <3>1 DEF ListsApart
    <3>4. ASSUME NEW v \in Threads, b \in InQueue(v)' PROVE FALSE
      <4>1. CASE v # t
        BY <1>6, <2>1, <2>2, <3>1, <3>4, <4>1 DEF ListsApart
      <4>2. CASE v = t
        <5>1. b \in ToSet(front) /\ b \notin ToSet(back)  BY <1>3, <1>6, <3>4, <4>2
        <5>2. b \in InCache(t, c) \/ b = a  BY <1>10, <5>1
        <5>3. ~(u = t /\ d = c)  BY <1>6, <5>1
        <5> QED  BY <2>1, <2>2, <3>1, <5>2, <5>3 DEF ListsApart
      <4> QED  BY <4>1, <4>2
    <3> QED  BY <3>2, <3>3, <3>4
  <2>5. ASSUME NEW u \in Threads, NEW b \in InQueue(u)'
        PROVE  /\ b \notin held'
               /\ \A v \in Threads : b \in InQueue(v)' => v = u
               /\ \A s \in Spans : b \notin InSpan(s)'
    <3>1. CASE u # t
      <4>1. b \in InQueue(u)  BY <1>6, <3>1
      <4>2. b \notin ToSet(front)  BY <1>10, <2>1, <2>2, <4>1 DEF ListsApart
      <4>3. ASSUME NEW v \in Threads, b \in InQueue(v)' PROVE v = u
        <5>1. v # t  BY <1>6, <4>2, <4>3
        <5>2. b \in InQueue(v)  BY <1>6, <4>3, <5>1
        <5> QED  BY <2>1, <4>1, <5>2 DEF ListsApart
      <4> QED  BY <1>4, <1>8, <2>1, <4>1, <4>3 DEF ListsApart
    <3>2. CASE u = t
      <4>1. b \in InCache(t, c) \/ b = a  BY <1>6, <1>10, <3>2
      <4>2. b \notin held' /\ \A s \in Spans : b \notin InSpan(s)'
        BY <1>4, <1>8, <2>1, <2>2, <4>1 DEF ListsApart
      <4>3. \A v \in Threads : b \notin InQueue(v)
        BY <2>1, <2>2, <4>1 DEF ListsApart
      <4> QED  BY <1>6, <3>2, <4>2, <4>3
    <3> QED  BY <3>1, <3>2
  <2>6. \A s \in Spans : \A b \in InSpan(s)' :
          b \notin held' /\ \A r \in Spans : b \in InSpan(r)' => r = s
    BY <1>4, <1>8, <2>1 DEF ListsApart
  <2> QED  BY <1>6, <2>3, <2>4, <2>5, <2>6 DEF ListsApart
<1>18. TypeOK'
  BY <1>1, <1>3, <1>4, <1>6 DEF TypeOK, pageVars, PC!TypeOK
<1>19. OthersAlone(t)
  BY <1>1, <1>3, <1>4 DEF OthersAlone, TypeOK
<1>20. ThreadsOK'
  <2>1. ThreadOK(t)'
    <3>1. CASE cls' = [cls EXCEPT ![t] = c] /\ pc' = [pc EXCEPT ![t] = "retlock"]
      BY <1>1, <1>4, <3>1 DEF TypeOK, ThreadOK, Locking, Fetching, Giving
    <3>2. CASE front = <<>> /\ cls' = cls /\ pc' = pc
      BY <1>1, <1>3, <1>4, <3>2 DEF TypeOK, ThreadOK, Locking, Fetching, Giving
    <3> QED  BY <1>3, <3>1, <3>2
  <2> QED  BY <1>4, <1>19, <2>1, OtherThreads DEF BucketsAlone
<1>21. PrivateOK'
  <2>1. ~Private(t)'
    BY <1>1, <1>3, <1>4 DEF Private, TypeOK
  <2>2. \A u : Central(mine[u])' <=> Central(mine[u])
    BY <1>4 DEF Central
  <2>3. held' \subseteq held
    BY <1>4
  <2> QED  BY <1>4, <1>7, <1>19, <2>1, <2>2, <2>3, PrivateStay
<1> QED  BY <1>7, <1>13, <1>14, <1>15, <1>16, <1>17, <1>18, <1>20, <1>21 DEF IInv

(* Taking cuts the span's list in three: the caller's object h, what goes  *)
(* onto the thread's list, and the rest.                                   *)
Taken(t, s, c, h, more, rest, k) ==
  /\ s = mine[t] /\ c = cls[t] /\ s \in ToSet(centralLists[c])
  /\ bucketMtx[c] = t
  /\ freeList' = [freeList EXCEPT ![s] = rest]
  /\ k > 0 /\ k + Len(rest) = Len(freeList[s])
  /\ useCount' = [useCount EXCEPT ![s] = useCount[s] + k]
  /\ held' = held \cup {h}
  /\ freeLists' = [freeLists EXCEPT ![t][c] = more \o freeLists[t][c]]
  /\ InSpan(s) = ToSet(rest) \cup {h} \cup ToSet(more)
  /\ h \notin ToSet(more) /\ h \notin ToSet(rest)
  /\ ToSet(more) \cap ToSet(rest) = {}
  /\ IsInjective(more) /\ IsInjective(rest)

(* Taking does that. *)
LEMMA TakeLists ==
  ASSUME IInv, NEW t \in Threads, Take(t)
  PROVE  \E s \in Spans, c \in Classes, h \in Nat, more \in Seq(Nat), rest \in Seq(Nat),
            k \in Nat : Taken(t, s, c, h, more, rest, k)
<1> DEFINE s == mine[t]
           c == cls[t]
           q == freeList[s]
           k == Fetched(s, batch[t])
           took == SubSeq(q, 1, k)
           rest == SubSeq(q, k + 1, Len(q))
<1>1. TypeOK /\ ThreadOK(t) /\ pc[t] = "take"
  BY DEF IInv, ThreadsOK, Take
<1>2. /\ s \in Spans /\ c \in Classes /\ s \in ToSet(centralLists[c]) /\ q # <<>>
      /\ bucketMtx[c] = t /\ batch[t] > 0 /\ batch[t] \in Nat
  BY <1>1 DEF ThreadOK, Fetching, Locking, TypeOK
<1>3. q \in Seq(Nat) /\ IsInjective(q)
  BY <1>1, <1>2 DEF TypeOK, IInv, ListsApart
<1>4. Len(q) \in Nat /\ Len(q) > 0
  BY <1>2, <1>3, EmptyList, LenProperties
<1>5. k \in 0 .. Len(q) /\ k \in Nat /\ k > 0
  BY <1>2, <1>4 DEF Fetched
<1>6. /\ freeList' = [freeList EXCEPT ![s] = rest]
      /\ useCount' = [useCount EXCEPT ![s] = useCount[s] + k]
      /\ held' = held \cup {Head(took)}
      /\ freeLists' = [freeLists EXCEPT ![t][c] = Tail(took) \o freeLists[t][c]]
  BY DEF Take, Rest, Charged
<1>7. InSpan(s) = ToSet(q)
  BY DEF InSpan
<1> HIDE DEF s, c, q, k
<1>8. /\ took \in Seq(Nat) /\ Len(took) = k /\ rest \in Seq(Nat)
      /\ Len(rest) = Len(q) - k /\ ToSet(q) = ToSet(took) \cup ToSet(rest)
      /\ IsInjective(took) /\ IsInjective(rest) /\ ToSet(took) \cap ToSet(rest) = {}
  BY <1>3, <1>5, CutOff
<1> HIDE DEF took, rest
<1>9. took # <<>>
  BY <1>5, <1>8, EmptyList
<1>10. /\ Head(took) \in Nat /\ Tail(took) \in Seq(Nat)
       /\ ToSet(took) = ToSet(Tail(took)) \cup {Head(took)}
       /\ IsInjective(Tail(took)) /\ Head(took) \notin ToSet(Tail(took))
  BY <1>8, <1>9, Popped
<1>11. k + Len(rest) = Len(freeList[s])
  BY <1>4, <1>5, <1>8 DEF q
<1> DEFINE h == Head(took)
           more == Tail(took)
<1>12. /\ h \in Nat /\ more \in Seq(Nat)
       /\ held' = held \cup {h}
       /\ freeLists' = [freeLists EXCEPT ![t][c] = more \o freeLists[t][c]]
       /\ InSpan(s) = ToSet(rest) \cup {h} \cup ToSet(more)
       /\ h \notin ToSet(more) /\ h \notin ToSet(rest)
       /\ ToSet(more) \cap ToSet(rest) = {}
       /\ IsInjective(more)
  BY <1>6, <1>7, <1>8, <1>10
<1> HIDE DEF h, more
<1>13. /\ s = mine[t] /\ c = cls[t] /\ s \in Spans /\ c \in Classes
       /\ s \in ToSet(centralLists[c]) /\ bucketMtx[c] = t
       /\ freeList' = [freeList EXCEPT ![s] = rest]
       /\ k > 0 /\ k \in Nat /\ k + Len(rest) = Len(freeList[s])
       /\ useCount' = [useCount EXCEPT ![s] = useCount[s] + k]
       /\ rest \in Seq(Nat) /\ IsInjective(rest)
  BY <1>2, <1>5, <1>6, <1>8, <1>11 DEF s, c
<1>14. Taken(t, s, c, h, more, rest, k)
  BY <1>12, <1>13 DEF Taken
<1> QED  BY <1>12, <1>13, <1>14

(* Take keeps the invariant: a batch goes from a span to the ThreadCache and its first object to the caller. *)
LEMMA TakeInv ==
  ASSUME NoHuge, IInv, NEW t \in Threads, Take(t)
  PROVE  IInv'
<1>1. TypeOK /\ ThreadOK(t) /\ pc[t] = "take" /\ ListsApart
  BY DEF IInv, ThreadsOK, Take
<1>2. PICK s \in Spans, c \in Classes, h \in Nat, more \in Seq(Nat), rest \in Seq(Nat),
           k \in Nat : Taken(t, s, c, h, more, rest, k)
  BY TakeLists
<1>3. /\ s = mine[t] /\ c = cls[t] /\ s \in ToSet(centralLists[c])
      /\ bucketMtx[c] = t
      /\ freeList' = [freeList EXCEPT ![s] = rest]
      /\ k > 0 /\ k + Len(rest) = Len(freeList[s])
      /\ useCount' = [useCount EXCEPT ![s] = useCount[s] + k]
      /\ held' = held \cup {h}
      /\ freeLists' = [freeLists EXCEPT ![t][c] = more \o freeLists[t][c]]
      /\ InSpan(s) = ToSet(rest) \cup {h} \cup ToSet(more)
      /\ h \notin ToSet(more) /\ h \notin ToSet(rest)
      /\ ToSet(more) \cap ToSet(rest) = {}
      /\ IsInjective(more) /\ IsInjective(rest)
  BY <1>2 DEF Taken
<1>4. queue[t] = <<>>
  BY <1>1 DEF ThreadOK, Giving
<1>5. /\ UNCHANGED <<pageVars, objSize, centralLists, tcMtx, cached, maxSize, queue>>
      /\ pc' = [pc EXCEPT ![t] = "idle"] /\ cls' = [cls EXCEPT ![t] = Large]
      /\ batch' = [batch EXCEPT ![t] = 0] /\ mine' = [mine EXCEPT ![t] = NoSpan]
      /\ bucketMtx' = [bucketMtx EXCEPT ![c] = NoThread]
  BY <1>1, <1>3, <1>4 DEF Take, Return, Goto, Unlock, TypeOK
<1>6. /\ objSize[s] = c /\ Central(s) /\ c # Large
      /\ \A a \in InSpan(s) : a \in Objects(s) /\ SpanOf(a) = s
  <2>1. objSize[s] = c /\ Central(s) /\ c # Large
    BY <1>3, NamesAssumption DEF IInv, BucketsOK, Central
  <2> QED  BY <2>1, CentralSpan DEF IInv, SpansOK
(* the objects taken were nowhere else *)
<1>7. \A a \in InSpan(s) : /\ a \notin held
                           /\ \A u \in Threads, d \in Classes : a \notin InCache(u, d)
                           /\ \A u \in Threads : a \notin InQueue(u)
                           /\ \A r \in Spans : a \in InSpan(r) => r = s
  BY <1>1 DEF ListsApart
<1>8. \A a \in ToSet(more) : a \in InSpan(s) /\ a # h /\ a \notin ToSet(rest)
  BY <1>3
<1>9. \A a \in ToSet(rest) : a \in InSpan(s) /\ a # h
  BY <1>3
<1>10. h \in InSpan(s)
  BY <1>3
<1>11. /\ \A u \in Threads, d \in Classes :
            InCache(u, d)' = IF u = t /\ d = c THEN ToSet(more) \cup InCache(t, c)
                                               ELSE InCache(u, d)
       /\ \A r \in Spans : InSpan(r)' = IF r = s THEN ToSet(rest) ELSE InSpan(r)
       /\ \A u \in Threads, d \in Classes : IsInjective(freeLists'[u][d])
       /\ \A r \in Spans : IsInjective(freeList'[r])
       /\ freeLists' \in [Threads -> [Classes -> Seq(Nat)]]
       /\ freeList' \in [Spans -> Seq(Nat)]
  <2> DEFINE q == freeLists[t][c]
             new == more \o q
  <2>1. /\ freeLists \in [Threads -> [Classes -> Seq(Nat)]]
        /\ freeList \in [Spans -> Seq(Nat)]
    BY <1>1 DEF TypeOK
  <2>2. q \in Seq(Nat) /\ IsInjective(q) /\ InCache(t, c) = ToSet(q)
    BY <1>1, <2>1 DEF ListsApart, InCache
  <2>3. /\ new \in Seq(Nat) /\ ToSet(new) = ToSet(more) \cup ToSet(q)
        /\ IsInjective(new)
    <3>1. ToSet(more) \cap ToSet(q) = {}
      BY <1>7, <1>8, <2>2
    <3> QED  BY <1>3, <2>2, <3>1, Joined
  <2>4. freeLists' = [freeLists EXCEPT ![t][c] = new]
    BY <1>3
  <2> HIDE DEF new, q
  <2>5. /\ \A u \in Threads, d \in Classes :
             freeLists'[u][d] = IF u = t /\ d = c THEN new ELSE freeLists[u][d]
        /\ \A r \in Spans : freeList'[r] = IF r = s THEN rest ELSE freeList[r]
    <3>1. freeList' = [freeList EXCEPT ![s] = rest]  BY <1>3
    <3> QED  BY <2>1, <2>4, <3>1
  <2>6. /\ freeLists' \in [Threads -> [Classes -> Seq(Nat)]]
        /\ freeList' \in [Spans -> Seq(Nat)]
    BY <1>3, <2>1, <2>3, <2>4
  <2>7. /\ \A u \in Threads, d \in Classes : IsInjective(freeLists'[u][d])
        /\ \A r \in Spans : IsInjective(freeList'[r])
    BY <1>1, <1>3, <2>3, <2>5 DEF ListsApart
  <2>8. /\ \A u, d : InCache(u, d)' = ToSet(freeLists'[u][d])
        /\ \A u, d : InCache(u, d) = ToSet(freeLists[u][d])
        /\ \A r : InSpan(r)' = ToSet(freeList'[r]) /\ InSpan(r) = ToSet(freeList[r])
    BY DEF InCache, InSpan
  <2> QED  BY <2>2, <2>3, <2>5, <2>6, <2>7, <2>8
<1>12. ASSUME NEW u \in Threads, NEW d \in Classes, NEW a \in InCache(u, d)'
       PROVE  a \in InCache(u, d) \/ (u = t /\ d = c /\ a \in ToSet(more))
  BY <1>11, <1>12
<1>13. /\ PCP!IInv' /\ used' = used /\ pageId' = pageId /\ n' = n
       /\ \A a : SpanOf(a)' = SpanOf(a)
       /\ \A r : Objects(r)' = Objects(r) /\ Count(r)' = Count(r)
  BY <1>5, Unmoved
<1>14. /\ \A u : InQueue(u)' = InQueue(u)
       /\ \A r : Central(r)' <=> Central(r)
  BY <1>5 DEF InQueue, Central
<1>15. \A a : a \in OutOfSpan' <=> a \in OutOfSpan \/ a = h \/ a \in ToSet(more)
  <2>1. ASSUME NEW a, OutSomewhere(a)'
        PROVE  a \in OutOfSpan \/ a = h \/ a \in ToSet(more)
    <3>1. CASE a \in held' /\ objSize'[SpanOf(a)'] # Large
      BY <1>3, <1>5, <1>13, <3>1, OutMembers
    <3>2. ASSUME NEW u \in Threads, NEW d \in Classes, a \in InCache(u, d)'
          PROVE  a \in OutOfSpan \/ a \in ToSet(more)
      BY <1>12, <3>2, OutMembers
    <3>3. ASSUME NEW u \in Threads, a \in InQueue(u)' PROVE a \in OutOfSpan
      BY <1>14, <3>3, OutMembers
    <3> QED  BY <2>1, <3>1, <3>2, <3>3 DEF OutSomewhere
  <2>2. ASSUME NEW a \in OutOfSpan PROVE OutSomewhere(a)'
    <3>1. CASE a \in held /\ objSize[SpanOf(a)] # Large
      BY <1>3, <1>5, <1>13, <3>1 DEF OutSomewhere
    <3>2. ASSUME NEW u \in Threads, NEW d \in Classes, a \in InCache(u, d)
          PROVE  OutSomewhere(a)'
      BY <1>11, <3>2 DEF OutSomewhere
    <3>3. ASSUME NEW u \in Threads, a \in InQueue(u) PROVE OutSomewhere(a)'
      BY <1>14, <3>3 DEF OutSomewhere
    <3> QED  BY <3>1, <3>2, <3>3, OutMembers
  <2>3. OutSomewhere(h)'
    BY <1>3, <1>5, <1>6, <1>10, <1>13 DEF OutSomewhere
  <2>4. ASSUME NEW a \in ToSet(more) PROVE OutSomewhere(a)'
    BY <1>11, <2>4 DEF OutSomewhere
  <2> QED  BY <2>1, <2>2, <2>3, <2>4, OutWhereAfter
<1>16. BucketsOK'
  BY <1>5, <1>13 DEF IInv, BucketsOK
<1>17. SpansOK'
  <2> SUFFICES ASSUME NEW r \in Spans
               PROVE  /\ Central(r)' =>
                           /\ useCount'[r] + Len(freeList'[r]) = Count(r)'
                           /\ InSpan(r)' \subseteq Objects(r)'
                           /\ \A a \in OutOfSpan' : SpanOf(a)' = r => a \in Objects(r)'
                           /\ Objects(r)' \subseteq InSpan(r)' \cup OutOfSpan'
                      /\ ~Central(r)' => useCount'[r] = 0 /\ freeList'[r] = <<>>
    BY DEF SpansOK
  <2>1. SpansOK  BY DEF IInv
  <2>2. CASE r # s
    <3>1. useCount'[r] = useCount[r] /\ freeList'[r] = freeList[r]
      BY <1>1, <1>3, <2>2 DEF TypeOK
    <3>2. \A a : a = h \/ a \in ToSet(more) => SpanOf(a) # r
      BY <1>6, <1>8, <1>10, <2>2
    <3> QED  BY <1>11, <1>13, <1>14, <1>15, <2>1, <2>2, <3>1, <3>2 DEF SpansOK
  <2>3. CASE r = s
    <3>1. useCount'[s] = useCount[s] + k /\ freeList'[s] = rest
          /\ useCount[s] \in Nat /\ Len(freeList[s]) \in Nat /\ Len(rest) \in Nat
      BY <1>1, <1>3, LenProperties DEF TypeOK
    <3>2. useCount[s] + Len(freeList[s]) = Count(s)
      BY <1>6, <2>1 DEF SpansOK
    <3>3. useCount'[s] + Len(freeList'[s]) = Count(s)
      <4>1. k \in Nat /\ k + Len(rest) = Len(freeList[s])  BY <1>3
      <4> QED  BY <3>1, <3>2, <4>1
    <3>4. InSpan(s)' \subseteq Objects(s)
      BY <1>6, <1>9, <1>11
    <3>5. \A a \in OutOfSpan' : SpanOf(a) = s => a \in Objects(s)
      BY <1>6, <1>8, <1>10, <1>15, <2>1 DEF SpansOK
    <3>6. ASSUME NEW a \in Objects(s) PROVE a \in InSpan(s)' \cup OutOfSpan'
      <4>1. a \in InSpan(s) \/ a \in OutOfSpan  BY <1>6, <2>1 DEF SpansOK
      <4> QED  BY <1>3, <1>11, <1>15, <4>1
    <3> QED  BY <1>6, <1>13, <1>14, <2>3, <3>3, <3>4, <3>5, <3>6
  <2> QED  BY <2>2, <2>3
<1>18. HomesOK'
  <2>1. \A a \in OutOfSpan' : SpanOf(a) \in Spans /\ Central(SpanOf(a))
    BY <1>6, <1>8, <1>10, <1>15, HomeOf
  <2>2. (\A a \in OutOfSpan : SpanOf(a) \in Spans /\ Central(SpanOf(a)))'
    BY <1>13, <1>14, <2>1
  <2>3. /\ \A u \in Threads, d \in Classes : \A a \in InCache(u, d) : objSize[SpanOf(a)] = d
        /\ \A u \in Threads : \A a \in InQueue(u) : objSize[SpanOf(a)] = cls[u]
    BY DEF IInv, HomesOK
  <2>4. \A u \in Threads, d \in Classes : \A a \in InCache(u, d)' : objSize[SpanOf(a)] = d
    BY <1>6, <1>8, <1>12, <2>3
  <2>5. ASSUME NEW u \in Threads, NEW a \in InQueue(u)' PROVE objSize[SpanOf(a)] = cls'[u]
    <3>1. a \in InQueue(u)  BY <1>14
    <3>2. u # t  BY <1>4, <3>1, EmptyList DEF InQueue
    <3> QED  BY <1>1, <1>5, <2>3, <3>1, <3>2 DEF TypeOK
  <2> QED  BY <1>5, <1>13, <2>2, <2>4, <2>5 DEF HomesOK
<1>19. LargeOK'
  BY <1>3, <1>5, <1>6, <1>10, <1>13 DEF IInv, LargeOK
<1>20. ListsApart'
  <2>1. ASSUME NEW u \in Threads, NEW d \in Classes, NEW a \in InCache(u, d)'
        PROVE  /\ a \notin held'
               /\ \A v \in Threads, e \in Classes : a \in InCache(v, e)' => v = u /\ e = d
               /\ \A v \in Threads : a \notin InQueue(v)'
               /\ \A r \in Spans : a \notin InSpan(r)'
    <3>1. CASE a \in InCache(u, d)
      <4>1. a \notin InSpan(s)  BY <1>7, <3>1
      <4>2. a \notin ToSet(more) /\ a \notin ToSet(rest) /\ a # h
        BY <1>8, <1>9, <1>10, <4>1
      <4>3. \A v \in Threads, e \in Classes : a \in InCache(v, e)' => a \in InCache(v, e)
        BY <1>12, <4>2
      <4>4. \A r \in Spans : a \in InSpan(r)' => a \in InSpan(r)
        BY <1>11, <4>2
      <4> QED  BY <1>1, <1>3, <1>14, <3>1, <4>2, <4>3, <4>4 DEF ListsApart
    <3>2. CASE u = t /\ d = c /\ a \in ToSet(more)
      <4>1. a \in InSpan(s) /\ a # h /\ a \notin ToSet(rest)  BY <1>8, <3>2
      <4>2. \A v \in Threads, e \in Classes : a \in InCache(v, e)' => v = t /\ e = c
        BY <1>7, <1>12, <4>1
      <4>3. \A r \in Spans : a \notin InSpan(r)'
        BY <1>7, <1>11, <4>1
      <4> QED  BY <1>3, <1>7, <1>14, <3>2, <4>1, <4>2, <4>3
    <3> QED  BY <1>12, <3>1, <3>2
  <2>2. ASSUME NEW u \in Threads, NEW a \in InQueue(u)'
        PROVE  /\ a \notin held'
               /\ \A v \in Threads : a \in InQueue(v)' => v = u
               /\ \A r \in Spans : a \notin InSpan(r)'
    <3>1. a \in InQueue(u) /\ a \notin InSpan(s)  BY <1>7, <1>14
    <3>2. a \notin ToSet(rest) /\ a # h  BY <1>9, <1>10, <3>1
    <3>3. \A r \in Spans : a \in InSpan(r)' => a \in InSpan(r)
      BY <1>11, <3>2
    <3> QED  BY <1>1, <1>3, <1>14, <3>1, <3>2, <3>3 DEF ListsApart
  <2>3. ASSUME NEW q \in Spans, NEW a \in InSpan(q)'
        PROVE  a \notin held' /\ \A r \in Spans : a \in InSpan(r)' => r = q
    <3>1. \A r \in Spans : a \in InSpan(r)' => a \in InSpan(r)
      BY <1>9, <1>11
    <3>2. a # h
      <4>1. CASE q = s  BY <1>9, <1>11, <4>1
      <4>2. CASE q # s  BY <1>7, <1>10, <3>1, <4>2
      <4> QED  BY <4>1, <4>2
    <3> QED  BY <1>1, <1>3, <3>1, <3>2 DEF ListsApart
  <2>4. \A u \in Threads : IsInjective(queue'[u])
    BY <1>1, <1>5 DEF ListsApart
  <2> QED  BY <1>11, <2>1, <2>2, <2>3, <2>4 DEF ListsApart
<1>21. TypeOK'
  <2>1. useCount' \in [Spans -> Nat]
    <3>1. useCount \in [Spans -> Nat] /\ useCount[s] + k \in Nat
      BY <1>1 DEF TypeOK
    <3>2. useCount' = [useCount EXCEPT ![s] = useCount[s] + k]
      BY <1>3
    <3> QED  BY <3>1, <3>2, Zenon
  <2> QED  BY <1>1, <1>3, <1>5, <1>11, <2>1 DEF TypeOK, pageVars, PC!TypeOK
<1>22. OthersAlone(t)
  BY <1>1, <1>3, <1>5, NamesAssumption DEF OthersAlone, TypeOK
<1>23. ThreadsOK'
  <2>1. ThreadOK(t)'
    BY <1>1, <1>3, <1>4, <1>5, NamesAssumption
       DEF TypeOK, ThreadOK, Locking, Fetching, Giving
  <2>2. BucketsAlone(t)
    <3> SUFFICES ASSUME NEW u \in Threads, NEW d \in Classes, u # t, bucketMtx[d] = u,
                        NEW r \in ToSet(centralLists[d])
                 PROVE  freeList'[r] = freeList[r]
      BY <1>5 DEF BucketsAlone
    <3>1. d # c /\ objSize[r] = d
      BY <1>3 DEF IInv, BucketsOK
    <3>2. r # s  BY <1>6, <3>1
    <3> QED  BY <1>1, <1>3, <3>2 DEF TypeOK
  <2> QED  BY <1>22, <2>1, <2>2, OtherThreads
<1>24. PrivateOK'
  <2>1. ~Private(t)'
    BY <1>1, <1>5 DEF Private, TypeOK
  <2>2. \A u : Central(mine[u])' <=> Central(mine'[u])
    BY <1>5 DEF Central
  <2>3. \A a \in held' \ held : Central(SpanOf(a))
    BY <1>3, <1>6, <1>10
  <2>4. \A u \in Threads : u # t => mine'[u] = mine[u]
    BY <1>22 DEF OthersAlone
  <2> QED  BY <1>5, <1>13, <1>22, <2>1, <2>2, <2>3, <2>4, PrivateStay
<1> QED  BY <1>13, <1>16, <1>17, <1>18, <1>19, <1>20, <1>21, <1>23, <1>24 DEF IInv

(* A span cut and pushed: all its objects are in its list, and none was    *)
(* anywhere else.                                                          *)
LEMMA CarveAndPushInv ==
  ASSUME NoHuge, IInv, NEW t \in Threads, CarveAndPush(t)
  PROVE  IInv'
<1>0. PICK s, c : s = mine[t] /\ c = cls[t]
  OBVIOUS
<1> DEFINE new == Carved(s, ObjSize[c])
           list == <<s>> \o centralLists[c]
<1>1. TypeOK /\ ThreadOK(t) /\ pc[t] = "carve" /\ ListsApart /\ SpansOK /\ BucketsOK
  BY DEF IInv, ThreadsOK, CarveAndPush
<1>2. /\ bucketMtx[c] = NoThread /\ bucketMtx' = [bucketMtx EXCEPT ![c] = t]
      /\ freeList' = [freeList EXCEPT ![s] = new]
      /\ centralLists' = [centralLists EXCEPT ![c] = list]
      /\ pc' = [pc EXCEPT ![t] = "take"]
      /\ UNCHANGED <<pageVars, objSize, useCount, tcMtx, cached, freeLists, maxSize, held,
                     cls, batch, mine, queue>>
  BY <1>0 DEF CarveAndPush, Lock, Goto, cacheVars
<1>3. /\ Private(t) /\ s \in used /\ ~Central(s) /\ objSize[s] = c /\ n[s] = MovePages[c]
      /\ \A a \in held : SpanOf(a) # s
      /\ \A u \in Threads : Private(u) /\ mine[u] = s => u = t
  BY <1>0, <1>1 DEF Private, IInv, PrivateOK, PrivateSpan
<1>4. c \in Classes /\ queue[t] = <<>> /\ batch[t] > 0
  BY <1>0, <1>1 DEF ThreadOK, Fetching, Giving
<1>5. Found(s)
  BY <1>3, HandedOut DEF IInv
<1>6. /\ s \in Spans /\ new \in Seq(Nat) /\ IsInjective(new) /\ Len(new) > 0
      /\ Len(new) \in Nat
      /\ \A a \in ToSet(new) : Within(a, s) /\ SpanOf(a) = s
  <2>1. ObjSize[c] \in Nat /\ ObjSize[c] > 0
    BY <1>4, ClassesAssumption
  <2>2. s \in Spans /\ pageId[s] \in Nat /\ n[s] \in Nat /\ n[s] > 0
    BY <1>5 DEF Found
  <2>3. /\ new \in Seq(Nat) /\ IsInjective(new) /\ Len(new) \in Nat /\ Len(new) > 0
        /\ \A a \in ToSet(new) : /\ PageOf(a) \in Nat
                                 /\ pageId[s] <= PageOf(a) /\ PageOf(a) < pageId[s] + n[s]
    BY <2>1, <2>2, CarvedSound
  <2> QED  BY <1>5, <2>2, <2>3 DEF Found, Within
<1>7. new # <<>>
  BY <1>6, EmptyList
<1>8. Objects(s) = ToSet(new) /\ Count(s) = Len(new)
  BY <1>3 DEF Objects, Count
<1>9. /\ centralLists[c] \in Seq(Spans) /\ IsInjective(centralLists[c])
      /\ s \notin ToSet(centralLists[c])
  BY <1>1, <1>3, <1>4 DEF TypeOK, BucketsOK, Central
<1>10. /\ list \in Seq(Spans) /\ IsInjective(list)
       /\ ToSet(list) = ToSet(centralLists[c]) \cup {s}
  BY <1>6, <1>9, Pushed
<1> HIDE DEF new, list
<1>11. /\ \A d \in Classes : centralLists'[d] = IF d = c THEN list ELSE centralLists[d]
       /\ \A r \in Spans : freeList'[r] = IF r = s THEN new ELSE freeList[r]
       /\ centralLists' \in [Classes -> Seq(Spans)] /\ freeList' \in [Spans -> Seq(Nat)]
  BY <1>1, <1>2, <1>6, <1>10 DEF TypeOK
<1>12. \A r \in Spans : InSpan(r)' = IF r = s THEN ToSet(new) ELSE InSpan(r)
  <2>1. \A r : InSpan(r)' = ToSet(freeList'[r]) /\ InSpan(r) = ToSet(freeList[r])
    BY DEF InSpan
  <2> QED  BY <1>11, <2>1
<1>13. /\ PCP!IInv' /\ used' = used /\ pageId' = pageId /\ n' = n
       /\ \A a : SpanOf(a)' = SpanOf(a)
       /\ \A r : Objects(r)' = Objects(r) /\ Count(r)' = Count(r)
  BY <1>2, Unmoved
<1>14. /\ \A u, d : InCache(u, d)' = InCache(u, d)
       /\ \A u : InQueue(u)' = InQueue(u)
       /\ OutOfSpan' = OutOfSpan
  BY <1>2, <1>13 DEF InCache, InQueue, OutOfSpan
<1>15. \A r : Central(r)' <=> Central(r) \/ r = s
  <2>1. ASSUME NEW r, Central(r)' PROVE Central(r) \/ r = s
    <3>1. objSize[r] \in Classes /\ r \in ToSet(centralLists'[objSize[r]])
      BY <1>2, <2>1 DEF Central
    <3> QED  BY <1>10, <1>11, <3>1 DEF Central
  <2>2. ASSUME NEW r, Central(r) PROVE Central(r)'
    <3>1. objSize[r] \in Classes /\ r \in ToSet(centralLists[objSize[r]])
      BY <2>2 DEF Central
    <3>2. r \in ToSet(centralLists'[objSize[r]])
      BY <1>10, <1>11, <3>1
    <3> QED  BY <1>2, <3>1, <3>2 DEF Central
  <2>3. Central(s)'
    BY <1>2, <1>3, <1>4, <1>10, <1>11 DEF Central
  <2> QED  BY <2>1, <2>2, <2>3
(* the objects cut were nowhere *)
<1>16. \A a \in ToSet(new) : /\ a \notin held /\ a \notin OutOfSpan
                             /\ \A r \in Spans : a \notin InSpan(r)
  <2> SUFFICES ASSUME NEW a \in ToSet(new)
               PROVE  /\ a \notin held /\ a \notin OutOfSpan
                      /\ \A r \in Spans : a \notin InSpan(r)
    OBVIOUS
  <2>1. SpanOf(a) = s  BY <1>6
  <2>2. a \notin held /\ a \notin OutOfSpan  BY <1>3, <2>1, HomeOf
  <2>3. ASSUME NEW r \in Spans, a \in InSpan(r) PROVE FALSE
    <3>1. freeList[r] # <<>>  BY <2>3, EmptyList DEF InSpan
    <3>2. Central(r) /\ a \in Objects(r)  BY <1>1, <2>3, <3>1 DEF SpansOK
    <3> QED  BY <1>3, <2>1, <3>2, CentralSpan
  <2> QED  BY <2>2, <2>3
<1>17. BucketsOK'
  <2> SUFFICES ASSUME NEW d \in Classes
               PROVE  /\ IsInjective(centralLists'[d])
                      /\ \A r \in ToSet(centralLists'[d]) :
                           r \in used' /\ objSize'[r] = d /\ n'[r] = MovePages[d]
    BY DEF BucketsOK
  <2>1. CASE d = c
    BY <1>1, <1>2, <1>3, <1>10, <1>11, <1>13, <2>1 DEF BucketsOK
  <2>2. CASE d # c
    BY <1>1, <1>2, <1>11, <1>13, <2>2 DEF BucketsOK
  <2> QED  BY <2>1, <2>2
<1>18. SpansOK'
  <2> SUFFICES ASSUME NEW r \in Spans
               PROVE  /\ Central(r)' =>
                           /\ useCount'[r] + Len(freeList'[r]) = Count(r)'
                           /\ InSpan(r)' \subseteq Objects(r)'
                           /\ \A a \in OutOfSpan' : SpanOf(a)' = r => a \in Objects(r)'
                           /\ Objects(r)' \subseteq InSpan(r)' \cup OutOfSpan'
                      /\ ~Central(r)' => useCount'[r] = 0 /\ freeList'[r] = <<>>
    BY DEF SpansOK
  <2>1. CASE r # s
    BY <1>1, <1>2, <1>11, <1>12, <1>13, <1>14, <1>15, <2>1 DEF SpansOK
  <2>2. CASE r = s
    <3>1. useCount'[s] = 0 /\ freeList'[s] = new
      BY <1>1, <1>2, <1>3, <1>6, <1>11 DEF SpansOK
    <3>2. \A a \in OutOfSpan : SpanOf(a) # s
      BY <1>3, HomeOf
    <3> QED  BY <1>6, <1>8, <1>12, <1>13, <1>14, <1>15, <2>2, <3>1, <3>2
  <2> QED  BY <2>1, <2>2
<1>19. HomesOK'
  <2>1. (\A a \in OutOfSpan : SpanOf(a) \in Spans /\ Central(SpanOf(a)))'
    BY <1>13, <1>14, <1>15 DEF IInv, HomesOK
  <2> QED  BY <1>2, <1>13, <1>14, <2>1 DEF IInv, HomesOK
<1>20. LargeOK'
  BY <1>2, <1>13 DEF IInv, LargeOK
<1>21. ListsApart'
  <2>1. \A r \in Spans : IsInjective(freeList'[r])
    BY <1>1, <1>6, <1>11 DEF ListsApart
  <2>2. ASSUME NEW u \in Threads, NEW d \in Classes, NEW a \in InCache(u, d)
        PROVE  \A r \in Spans : a \notin InSpan(r)'
    BY <1>1, <1>12, <1>16, OutMembers DEF ListsApart
  <2>3. ASSUME NEW u \in Threads, NEW a \in InQueue(u)
        PROVE  \A r \in Spans : a \notin InSpan(r)'
    BY <1>1, <1>12, <1>16, OutMembers DEF ListsApart
  <2>4. ASSUME NEW q \in Spans, NEW a \in InSpan(q)'
        PROVE  a \notin held /\ \A r \in Spans : a \in InSpan(r)' => r = q
    BY <1>1, <1>12, <1>16 DEF ListsApart
  <2> QED  BY <1>1, <1>2, <1>14, <2>1, <2>2, <2>3, <2>4 DEF ListsApart
<1>22. TypeOK'
  BY <1>1, <1>2, <1>4, <1>11 DEF TypeOK, pageVars, PC!TypeOK
<1>23. OthersAlone(t)
  BY <1>1, <1>2, NamesAssumption DEF OthersAlone, TypeOK
<1>24. ThreadsOK'
  <2>1. mine'[t] = s /\ cls'[t] = c /\ pc'[t] = "take" /\ bucketMtx'[c] = t
    BY <1>0, <1>1, <1>2, <1>4 DEF TypeOK
  <2>2. \A d \in Classes : bucketMtx'[d] = t <=> d = c
    BY <1>1, <1>2, <1>4 DEF TypeOK, ThreadOK, Locking
  <2>3. mine'[t] \in Spans /\ mine'[t] \in ToSet(centralLists'[cls'[t]])
        /\ freeList'[mine'[t]] # <<>>
    BY <1>4, <1>6, <1>7, <1>10, <1>11, <2>1
  <2>4. ThreadOK(t)'
    BY <1>1, <1>2, <1>4, <2>1, <2>2, <2>3 DEF ThreadOK, Locking, Fetching, Giving
  <2>5. BucketsAlone(t)
    <3> SUFFICES ASSUME NEW u \in Threads, NEW d \in Classes, u # t, bucketMtx[d] = u,
                        NEW r \in ToSet(centralLists[d])
                 PROVE  r \in ToSet(centralLists'[d]) /\ freeList'[r] = freeList[r]
      BY DEF BucketsAlone
    <3>1. d # c  BY <1>2, NamesAssumption
    <3>2. r \in used /\ objSize[r] = d  BY <1>1 DEF BucketsOK
    <3>3. r \in Spans /\ r # s  BY <1>3, <3>1, <3>2, HandedOut DEF IInv, Found
    <3> QED  BY <1>11, <3>1, <3>3
  <2> QED  BY <1>23, <2>4, <2>5, OtherThreads
<1>25. PrivateOK'
  <2>1. ~Private(t)'
    BY <1>1, <1>2 DEF Private, TypeOK
  <2>2. \A u \in Threads : u # t /\ Private(u) => mine[u] # s
    BY <1>3
  <2>3. \A u : Central(mine[u])' <=> Central(mine[u]) \/ mine[u] = s
    <3>1. mine' = mine  BY <1>2
    <3> QED  BY <1>15, <3>1
  <2>4. held' = held  BY <1>2
  <2> QED  BY <1>2, <1>13, <1>23, <2>1, <2>2, <2>3, <2>4, PrivateStay
<1> QED  BY <1>13, <1>17, <1>18, <1>19, <1>20, <1>21, <1>22, <1>24, <1>25 DEF IInv

(* What the object at the front of a thread's queue is: out of its span,   *)
(* nowhere else, and its span is in the bucket the thread has locked.      *)
Fronted(t, a, s, c) ==
  /\ a \in Nat /\ s \in Spans /\ c \in Classes /\ c # Large
  /\ a = Head(queue[t]) /\ s = SpanOf(a) /\ c = cls[t]
  /\ bucketMtx[c] = t /\ objSize[s] = c /\ Central(s) /\ s \in used
  /\ a \in InQueue(t) /\ a \in Objects(s) /\ a \in OutOf(s)
  /\ a \notin held
  /\ \A u \in Threads, d \in Classes : a \notin InCache(u, d)
  /\ \A u \in Threads : a \in InQueue(u) => u = t
  /\ \A r \in Spans : a \notin InSpan(r)
  /\ useCount[s] \in Nat /\ useCount[s] > 0

(* What is known of the object at the front of a thread's queue, and of its span. *)
LEMMA FrontOfQueue ==
  ASSUME IInv, NEW t \in Threads, pc[t] = "return", queue[t] # <<>>
  PROVE  \E a, s, c : Fronted(t, a, s, c)
<1>0. PICK a, s, c : a = Head(queue[t]) /\ s = SpanOf(a) /\ c = cls[t]
  OBVIOUS
<1>1. TypeOK /\ ThreadOK(t) /\ ListsApart
  BY DEF IInv, ThreadsOK
<1>2. queue[t] \in Seq(Nat)
  BY <1>1 DEF TypeOK
<1>3. a \in Nat /\ a \in InQueue(t)
  BY <1>0, <1>2, Popped DEF InQueue
<1>4. c \in Classes /\ c # Large /\ bucketMtx[c] = t
  BY <1>0, <1>1, NamesAssumption DEF ThreadOK, Locking, Giving
<1>5. objSize[s] = c
  BY <1>0, <1>3 DEF IInv, HomesOK
<1>6. a \in OutOfSpan
  BY <1>3, OutMembers
<1>7. Central(s) /\ s \in used /\ s \in Spans /\ a \in Objects(s)
  BY <1>0, <1>6, HomeOf
<1>8. a \in OutOf(s)
  BY <1>0, <1>6 DEF OutOf
<1>9. useCount[s] \in Nat /\ useCount[s] > 0
  <2>1. IsFiniteSet(OutOf(s)) /\ Cardinality(OutOf(s)) = useCount[s]
    BY <1>7, CountOut
  <2>2. Cardinality(OutOf(s)) # 0  BY <1>8, <2>1, FS_EmptySet
  <2>3. useCount[s] \in Nat  BY <1>1, <1>7 DEF TypeOK
  <2> QED  BY <2>1, <2>2, <2>3
<1>10. /\ a \notin held
       /\ \A u \in Threads, d \in Classes : a \notin InCache(u, d)
       /\ \A u \in Threads : a \in InQueue(u) => u = t
       /\ \A r \in Spans : a \notin InSpan(r)
  BY <1>1, <1>3 DEF ListsApart
<1>11. Fronted(t, a, s, c)
  BY <1>0, <1>3, <1>4, <1>5, <1>7, <1>8, <1>9, <1>10 DEF Fronted
<1> QED  BY <1>11

(* With it gone from the queue, it alone is no longer out of its span.     *)
LEMMA FrontTaken ==
  ASSUME NoHuge, IInv, NEW t \in Threads, queue[t] # <<>>,
         NEW a, NEW s, NEW c, Fronted(t, a, s, c),
         queue' = [queue EXCEPT ![t] = Tail(@)],
         UNCHANGED <<pageVars, objSize, cacheVars>>
  PROVE  /\ queue' \in [Threads -> Seq(Nat)]
         /\ \A u \in Threads : IsInjective(queue'[u])
         /\ \A u \in Threads : \A b : b \in InQueue(u)' <=> b \in InQueue(u) /\ b # a
         /\ \A b : b \in OutOfSpan' <=> b \in OutOfSpan /\ b # a
<1>1. TypeOK /\ ListsApart
  BY DEF IInv
<1>2. queue \in [Threads -> Seq(Nat)] /\ IsInjective(queue[t])
  BY <1>1 DEF TypeOK, ListsApart
<1>3. /\ Tail(queue[t]) \in Seq(Nat) /\ IsInjective(Tail(queue[t]))
      /\ ToSet(queue[t]) = ToSet(Tail(queue[t])) \cup {a}
      /\ a \notin ToSet(Tail(queue[t]))
  BY <1>2, Popped DEF Fronted
<1>4. \A u \in Threads : queue'[u] = IF u = t THEN Tail(queue[t]) ELSE queue[u]
  BY <1>2
<1>5. queue' \in [Threads -> Seq(Nat)] /\ \A u \in Threads : IsInjective(queue'[u])
  BY <1>1, <1>2, <1>3, <1>4 DEF ListsApart
<1>6. ASSUME NEW u \in Threads, NEW b
      PROVE  b \in InQueue(u)' <=> b \in InQueue(u) /\ b # a
  <2>1. CASE u = t
    BY <1>3, <1>4, <2>1 DEF InQueue
  <2>2. CASE u # t
    <3>1. InQueue(u)' = InQueue(u)  BY <1>4, <2>2 DEF InQueue
    <3> QED  BY <2>2, <3>1 DEF Fronted
  <2> QED  BY <2>1, <2>2
<1>7. /\ held' = held /\ objSize' = objSize
      /\ \A b : SpanOf(b)' = SpanOf(b)
      /\ \A u, d : InCache(u, d)' = InCache(u, d)
  BY Unmoved DEF cacheVars, InCache
<1>8. \A b : OutSomewhere(b)' <=> OutSomewhere(b) /\ b # a
  <2>1. \A b : OutSomewhere(b)' <=> \/ b \in held /\ objSize[SpanOf(b)] # Large
                                    \/ \E u \in Threads, d \in Classes : b \in InCache(u, d)
                                    \/ \E u \in Threads : b \in InQueue(u)'
    BY <1>7 DEF OutSomewhere
  <2>2. ASSUME NEW b, OutSomewhere(b)' PROVE OutSomewhere(b) /\ b # a
    BY <1>6, <2>1, <2>2 DEF OutSomewhere, Fronted
  <2>3. ASSUME NEW b, OutSomewhere(b), b # a PROVE OutSomewhere(b)'
    BY <1>6, <2>1, <2>3 DEF OutSomewhere
  <2> QED  BY <2>2, <2>3
<1>9. \A b : b \in OutOfSpan' <=> b \in OutOfSpan /\ b # a
  BY <1>8, OutWhere, OutWhereAfter
<1> QED  BY <1>5, <1>6, <1>9

(* An object goes back to the list of its span, which has others out.      *)
LEMMA ReturnObjectInv ==
  ASSUME NoHuge, IInv, NEW t \in Threads, ReturnObject(t)
  PROVE  IInv'
<1>1. TypeOK /\ ThreadOK(t) /\ ListsApart /\ SpansOK /\ BucketsOK
  BY DEF IInv, ThreadsOK
<1>2. pc[t] = "return" /\ queue[t] # <<>>
  BY DEF ReturnObject
<1>3. PICK a, s, c : Fronted(t, a, s, c)
  BY <1>2, FrontOfQueue
<1>4. /\ a \in Nat /\ s \in Spans /\ c \in Classes /\ objSize[s] = c /\ Central(s)
      /\ s = SpanOf(a) /\ bucketMtx[c] = t
      /\ a \in Objects(s) /\ a \notin held
      /\ \A u \in Threads, d \in Classes : a \notin InCache(u, d)
      /\ \A r \in Spans : a \notin InSpan(r)
      /\ useCount[s] \in Nat /\ useCount[s] > 0
  BY <1>3 DEF Fronted
<1>5. /\ freeList' = [freeList EXCEPT ![s] = <<a>> \o freeList[s]]
      /\ useCount' = [useCount EXCEPT ![s] = useCount[s] - 1]
      /\ queue' = [queue EXCEPT ![t] = Tail(@)]
      /\ UNCHANGED <<pageVars, objSize, centralLists, bucketMtx, cacheVars, pc, cls,
                     batch, mine>>
  BY <1>3 DEF ReturnObject, Fronted
<1>6. UNCHANGED <<tcMtx, cached, freeLists, maxSize, held>>
  BY <1>5 DEF cacheVars
<1>7. /\ queue' \in [Threads -> Seq(Nat)]
      /\ \A u \in Threads : IsInjective(queue'[u])
      /\ \A u \in Threads : \A b : b \in InQueue(u)' <=> b \in InQueue(u) /\ b # a
      /\ \A b : b \in OutOfSpan' <=> b \in OutOfSpan /\ b # a
  BY <1>2, <1>3, <1>5, FrontTaken
<1>8. /\ PCP!IInv' /\ used' = used /\ pageId' = pageId /\ n' = n
      /\ \A b : SpanOf(b)' = SpanOf(b)
      /\ \A r : Objects(r)' = Objects(r) /\ Count(r)' = Count(r)
  BY <1>5, Unmoved
<1>9. /\ \A u, d : InCache(u, d)' = InCache(u, d)
      /\ \A r : Central(r)' <=> Central(r)
  BY <1>5, <1>6 DEF InCache, Central
<1> DEFINE new == <<a>> \o freeList[s]
<1>10. /\ freeList[s] \in Seq(Nat) /\ IsInjective(freeList[s]) /\ a \notin ToSet(freeList[s])
       /\ Len(freeList[s]) \in Nat
  BY <1>1, <1>4, LenProperties DEF TypeOK, ListsApart, InSpan
<1>11. /\ new \in Seq(Nat) /\ Len(new) = Len(freeList[s]) + 1 /\ new # <<>>
       /\ ToSet(new) = InSpan(s) \cup {a} /\ IsInjective(new)
  BY <1>4, <1>10, Pushed DEF InSpan
<1>12. freeList' = [freeList EXCEPT ![s] = new]
  BY <1>5
<1> HIDE DEF new
<1>13. /\ freeList' \in [Spans -> Seq(Nat)]
       /\ \A r \in Spans : freeList'[r] = IF r = s THEN new ELSE freeList[r]
       /\ useCount' \in [Spans -> Nat]
       /\ \A r \in Spans : useCount'[r] = IF r = s THEN useCount[s] - 1 ELSE useCount[r]
  <2>1. freeList \in [Spans -> Seq(Nat)] /\ useCount \in [Spans -> Nat]
    BY <1>1 DEF TypeOK
  <2>2. useCount[s] - 1 \in Nat
    BY <1>4
  <2>3. /\ useCount' \in [Spans -> Nat]
        /\ \A r \in Spans : useCount'[r] = IF r = s THEN useCount[s] - 1 ELSE useCount[r]
    BY <1>4, <1>5, <2>1, <2>2
  <2> QED  BY <1>4, <1>11, <1>12, <2>1, <2>3
<1>14. \A r \in Spans : InSpan(r)' = IF r = s THEN InSpan(s) \cup {a} ELSE InSpan(r)
  <2>1. \A r : InSpan(r)' = ToSet(freeList'[r]) /\ InSpan(r) = ToSet(freeList[r])
    BY DEF InSpan
  <2> QED  BY <1>11, <1>13, <2>1
<1>15. BucketsOK'
  BY <1>1, <1>5, <1>8 DEF BucketsOK
<1>16. SpansOK'
  <2> SUFFICES ASSUME NEW r \in Spans
               PROVE  /\ Central(r)' =>
                           /\ useCount'[r] + Len(freeList'[r]) = Count(r)'
                           /\ InSpan(r)' \subseteq Objects(r)'
                           /\ \A b \in OutOfSpan' : SpanOf(b)' = r => b \in Objects(r)'
                           /\ Objects(r)' \subseteq InSpan(r)' \cup OutOfSpan'
                      /\ ~Central(r)' => useCount'[r] = 0 /\ freeList'[r] = <<>>
    BY DEF SpansOK
  <2>1. CASE r # s
    <3>1. /\ useCount'[r] = useCount[r] /\ freeList'[r] = freeList[r]
          /\ InSpan(r)' = InSpan(r)
      BY <1>13, <1>14, <2>1
    <3>2. Central(r) => a \notin Objects(r)
      BY <1>4, <2>1, CentralSpan
    <3> QED  BY <1>1, <1>7, <1>8, <1>9, <3>1, <3>2 DEF SpansOK
  <2>2. CASE r = s
    <3>1. useCount'[s] + Len(freeList'[s]) = useCount[s] + Len(freeList[s])
      <4>1. useCount'[s] = useCount[s] - 1 /\ freeList'[s] = new
        BY <1>4, <1>13
      <4>2. Len(new) = Len(freeList[s]) + 1 /\ Len(freeList[s]) \in Nat
            /\ useCount[s] \in Nat
        BY <1>4, <1>10, <1>11
      <4> QED  BY <4>1, <4>2
    <3>2. useCount'[s] + Len(freeList'[s]) = Count(s)
      BY <1>1, <1>4, <3>1 DEF SpansOK
    <3>3. InSpan(s)' \subseteq Objects(s)
      BY <1>1, <1>4, <1>14 DEF SpansOK
    <3>4. \A b \in OutOfSpan' : SpanOf(b) = s => b \in Objects(s)
      BY <1>1, <1>4, <1>7 DEF SpansOK
    <3>5. ASSUME NEW b \in Objects(s) PROVE b \in InSpan(s)' \/ b \in OutOfSpan'
      <4>1. b \in InSpan(s) \/ b \in OutOfSpan  BY <1>1, <1>4 DEF SpansOK
      <4> QED  BY <1>4, <1>7, <1>14, <4>1
    <3> QED  BY <1>4, <1>8, <1>9, <2>2, <3>2, <3>3, <3>4, <3>5
  <2> QED  BY <2>1, <2>2
<1>17. HomesOK'
  <2>1. \A b \in OutOfSpan' : SpanOf(b) \in Spans /\ Central(SpanOf(b))
    BY <1>7, HomeOf
  <2>2. (\A b \in OutOfSpan : SpanOf(b) \in Spans /\ Central(SpanOf(b)))'
    BY <1>8, <1>9, <2>1
  <2>3. \A u \in Threads : \A b \in InQueue(u)' : objSize[SpanOf(b)] = cls[u]
    BY <1>7 DEF IInv, HomesOK
  <2>4. \A u \in Threads, d \in Classes : \A b \in InCache(u, d) : objSize[SpanOf(b)] = d
    BY DEF IInv, HomesOK
  <2> QED  BY <1>5, <1>8, <1>9, <2>2, <2>3, <2>4 DEF HomesOK
<1>18. LargeOK'
  BY <1>5, <1>6, <1>8 DEF IInv, LargeOK
<1>19. ListsApart'
  <2>1. \A r \in Spans : IsInjective(freeList'[r])
    BY <1>1, <1>11, <1>13 DEF ListsApart
  <2>2. ASSUME NEW u \in Threads, NEW d \in Classes, NEW b \in InCache(u, d)
        PROVE  /\ \A v \in Threads : b \notin InQueue(v)'
               /\ \A r \in Spans : b \notin InSpan(r)'
    BY <1>1, <1>4, <1>7, <1>14 DEF ListsApart
  <2>3. ASSUME NEW u \in Threads, NEW b \in InQueue(u)'
        PROVE  /\ b \notin held
               /\ \A v \in Threads : b \in InQueue(v)' => v = u
               /\ \A r \in Spans : b \notin InSpan(r)'
    <3>1. b \in InQueue(u) /\ b # a  BY <1>7
    <3> QED  BY <1>1, <1>7, <1>14, <3>1 DEF ListsApart
  <2>4. ASSUME NEW q \in Spans, NEW b \in InSpan(q)'
        PROVE  b \notin held /\ \A r \in Spans : b \in InSpan(r)' => r = q
    BY <1>1, <1>4, <1>14 DEF ListsApart
  <2> QED  BY <1>1, <1>6, <1>7, <1>9, <2>1, <2>2, <2>3, <2>4 DEF ListsApart
<1>20. TypeOK'
  BY <1>1, <1>5, <1>6, <1>7, <1>13 DEF TypeOK, pageVars, PC!TypeOK
<1>21. OthersAlone(t)
  BY <1>1, <1>5, <1>6 DEF OthersAlone, TypeOK
<1>22. ThreadsOK'
  <2>1. ThreadOK(t)'
    BY <1>1, <1>2, <1>5, <1>6 DEF ThreadOK, Giving
  <2>2. BucketsAlone(t)
    <3>1. \A r \in Spans : freeList[r] # <<>> => freeList'[r] # <<>>
      BY <1>11, <1>13
    <3>2. \A d \in Classes : \A r \in ToSet(centralLists[d]) : r \in Spans
      BY <1>1, HandedOut DEF IInv, BucketsOK, Found
    <3> QED  BY <1>5, <3>1, <3>2 DEF BucketsAlone
  <2> QED  BY <1>21, <2>1, <2>2, OtherThreads
<1>23. PrivateOK'
  <2>1. ~Private(t)'
    BY <1>2, <1>5 DEF Private
  <2>2. \A u : Central(mine[u])' <=> Central(mine[u])
    BY <1>5 DEF Central
  <2>3. held' = held  BY <1>6
  <2> QED  BY <1>5, <1>8, <1>21, <2>1, <2>2, <2>3, PrivateStay
<1> QED  BY <1>8, <1>15, <1>16, <1>17, <1>18, <1>19, <1>20, <1>22, <1>23 DEF IInv

(* Erasing a span from a bucket leaves the others. *)
LEMMA Erased ==
  ASSUME NEW S, NEW q \in Seq(S), NEW s \in ToSet(q), IsInjective(q)
  PROVE  /\ PC!Erase(q, s) \in Seq(S)
         /\ ToSet(PC!Erase(q, s)) = ToSet(q) \ {s}
         /\ IsInjective(PC!Erase(q, s))
<1>1. PC!Erase(q, s) = PCP!Erase(q, s)
  BY DEF PC!Erase, PCP!Erase
<1>2. \A x : PCP!Range(x) = ToSet(x) /\ (PCP!NoDup(x) <=> IsInjective(x))
  BY DEF PCP!Range, PCP!NoDup, ToSet, IsInjective
<1>3. s \in PCP!Range(q) /\ PCP!NoDup(q)
  BY <1>2
<1> QED  BY <1>1, <1>2, <1>3, PageAssumptions, PCP!EraseList

(* The last object that was out comes back: the span leaves its bucket,    *)
(* and the thread has it to itself.                                        *)
LEMMA ReturnLastObjectInv ==
  ASSUME NoHuge, IInv, NEW t \in Threads, ReturnLastObject(t)
  PROVE  IInv'
<1>1. TypeOK /\ ThreadOK(t) /\ ListsApart /\ SpansOK /\ BucketsOK
  BY DEF IInv, ThreadsOK
<1>2. pc[t] = "return" /\ queue[t] # <<>>
  BY DEF ReturnLastObject
<1>3. PICK a, s, c : Fronted(t, a, s, c)
  BY <1>2, FrontOfQueue
<1>4. /\ s \in Spans /\ c \in Classes /\ c # Large /\ objSize[s] = c /\ Central(s)
      /\ s = SpanOf(a) /\ bucketMtx[c] = t /\ s \in used /\ c = cls[t]
      /\ a \in OutOf(s) /\ a \notin held
  BY <1>3 DEF Fronted
<1> DEFINE rest == PC!Erase(centralLists[c], s)
<1>5. /\ useCount[s] = 1
      /\ useCount' = [useCount EXCEPT ![s] = 0]
      /\ centralLists' = [centralLists EXCEPT ![c] = rest]
      /\ freeList' = [freeList EXCEPT ![s] = <<>>]
      /\ mine' = [mine EXCEPT ![t] = s]
      /\ queue' = [queue EXCEPT ![t] = Tail(@)]
      /\ bucketMtx' = [bucketMtx EXCEPT ![c] = NoThread]
      /\ pc' = [pc EXCEPT ![t] = "pagelock"]
      /\ UNCHANGED <<pageVars, objSize, cacheVars, cls, batch>>
  BY <1>3 DEF ReturnLastObject, LastOut, Unlock, Goto, Fronted
<1>6. UNCHANGED <<tcMtx, cached, freeLists, maxSize, held>>
  BY <1>5 DEF cacheVars
<1>7. /\ queue' \in [Threads -> Seq(Nat)]
      /\ \A u \in Threads : IsInjective(queue'[u])
      /\ \A u \in Threads : \A b : b \in InQueue(u)' <=> b \in InQueue(u) /\ b # a
      /\ \A b : b \in OutOfSpan' <=> b \in OutOfSpan /\ b # a
  BY <1>2, <1>3, <1>5, FrontTaken
<1>8. /\ PCP!IInv' /\ used' = used /\ pageId' = pageId /\ n' = n
      /\ \A b : SpanOf(b)' = SpanOf(b)
      /\ \A r : Objects(r)' = Objects(r) /\ Count(r)' = Count(r)
  BY <1>5, Unmoved
<1>9. \A u, d : InCache(u, d)' = InCache(u, d)
  BY <1>6 DEF InCache
<1>10. /\ centralLists[c] \in Seq(Spans) /\ IsInjective(centralLists[c])
       /\ s \in ToSet(centralLists[c])
  BY <1>1, <1>4 DEF TypeOK, BucketsOK, Central
<1>11. /\ rest \in Seq(Spans) /\ IsInjective(rest)
       /\ ToSet(rest) = ToSet(centralLists[c]) \ {s}
  BY <1>10, Erased
<1> HIDE DEF rest
<1>12. /\ \A d \in Classes : centralLists'[d] = IF d = c THEN rest ELSE centralLists[d]
       /\ \A r \in Spans : freeList'[r] = IF r = s THEN <<>> ELSE freeList[r]
       /\ \A r \in Spans : useCount'[r] = IF r = s THEN 0 ELSE useCount[r]
       /\ centralLists' \in [Classes -> Seq(Spans)] /\ freeList' \in [Spans -> Seq(Nat)]
       /\ useCount' \in [Spans -> Nat]
  BY <1>1, <1>4, <1>5, <1>11, EmptyList DEF TypeOK
<1>13. \A r \in Spans : InSpan(r)' = IF r = s THEN {} ELSE InSpan(r)
  <2>1. \A r : InSpan(r)' = ToSet(freeList'[r]) /\ InSpan(r) = ToSet(freeList[r])
    BY DEF InSpan
  <2> QED  BY <1>12, <2>1, EmptyList
<1>14. \A r : Central(r)' <=> Central(r) /\ r # s
  <2>1. ASSUME NEW r, Central(r)' PROVE Central(r) /\ r # s
    <3>1. objSize[r] \in Classes /\ r \in ToSet(centralLists'[objSize[r]])
      BY <1>5, <2>1 DEF Central
    <3> QED  BY <1>4, <1>11, <1>12, <3>1 DEF Central
  <2>2. ASSUME NEW r, Central(r), r # s PROVE Central(r)'
    <3>1. objSize[r] \in Classes /\ r \in ToSet(centralLists[objSize[r]])
      BY <2>2 DEF Central
    <3>2. r \in ToSet(centralLists'[objSize[r]])
      BY <1>11, <1>12, <2>2, <3>1
    <3> QED  BY <1>5, <3>1, <3>2 DEF Central
  <2> QED  BY <2>1, <2>2
(* the count says that no other object of the span is out *)
<1>15. OutOf(s) = {a}
  <2>1. IsFiniteSet(OutOf(s)) /\ Cardinality(OutOf(s)) = 1
    BY <1>4, <1>5, CountOut
  <2>2. PICK x : OutOf(s) = {x}
    BY <2>1, FS_Singleton
  <2> QED  BY <1>4, <2>2
<1>16. \A b \in OutOfSpan' : SpanOf(b) # s
  BY <1>7, <1>15 DEF OutOf
<1>17. \A b \in held : SpanOf(b) # s
  <2>1. ASSUME NEW b \in held, SpanOf(b) = s PROVE FALSE
    <3>1. b \in OutOf(s)  BY <1>4, <2>1, OutMembers DEF OutOf
    <3> QED  BY <1>4, <1>15, <3>1
  <2> QED  BY <2>1
<1>18. BucketsOK'
  <2> SUFFICES ASSUME NEW d \in Classes
               PROVE  /\ IsInjective(centralLists'[d])
                      /\ \A r \in ToSet(centralLists'[d]) :
                           r \in used' /\ objSize'[r] = d /\ n'[r] = MovePages[d]
    BY DEF BucketsOK
  <2>1. CASE d = c
    BY <1>1, <1>5, <1>8, <1>11, <1>12, <2>1 DEF BucketsOK
  <2>2. CASE d # c
    BY <1>1, <1>5, <1>8, <1>12, <2>2 DEF BucketsOK
  <2> QED  BY <2>1, <2>2
<1>19. SpansOK'
  <2> SUFFICES ASSUME NEW r \in Spans
               PROVE  /\ Central(r)' =>
                           /\ useCount'[r] + Len(freeList'[r]) = Count(r)'
                           /\ InSpan(r)' \subseteq Objects(r)'
                           /\ \A b \in OutOfSpan' : SpanOf(b)' = r => b \in Objects(r)'
                           /\ Objects(r)' \subseteq InSpan(r)' \cup OutOfSpan'
                      /\ ~Central(r)' => useCount'[r] = 0 /\ freeList'[r] = <<>>
    BY DEF SpansOK
  <2>1. CASE r # s
    <3>1. /\ useCount'[r] = useCount[r] /\ freeList'[r] = freeList[r]
          /\ InSpan(r)' = InSpan(r)
      BY <1>12, <1>13, <2>1
    <3>2. Central(r) => a \notin Objects(r)
      BY <1>4, <2>1, CentralSpan
    <3> QED  BY <1>1, <1>7, <1>8, <1>14, <2>1, <3>1, <3>2 DEF SpansOK
  <2>2. CASE r = s
    BY <1>12, <1>14, <2>2
  <2> QED  BY <2>1, <2>2
<1>20. HomesOK'
  <2>1. \A b \in OutOfSpan' : SpanOf(b) \in Spans /\ Central(SpanOf(b)) /\ SpanOf(b) # s
    BY <1>7, <1>16, HomeOf
  <2>2. (\A b \in OutOfSpan : SpanOf(b) \in Spans /\ Central(SpanOf(b)))'
    BY <1>8, <1>14, <2>1
  <2>3. \A u \in Threads : \A b \in InQueue(u)' : objSize[SpanOf(b)] = cls[u]
    BY <1>7 DEF IInv, HomesOK
  <2>4. \A u \in Threads, d \in Classes : \A b \in InCache(u, d) : objSize[SpanOf(b)] = d
    BY DEF IInv, HomesOK
  <2> QED  BY <1>5, <1>8, <1>9, <2>2, <2>3, <2>4 DEF HomesOK
<1>21. LargeOK'
  BY <1>5, <1>6, <1>8 DEF IInv, LargeOK
<1>22. ListsApart'
  <2>1. \A r \in Spans : IsInjective(freeList'[r])
    BY <1>1, <1>12, EmptyList DEF ListsApart
  <2>2. \A r \in Spans : InSpan(r)' \subseteq InSpan(r)
    BY <1>13
  <2>3. \A u \in Threads : InQueue(u)' \subseteq InQueue(u)
    BY <1>7
  <2> QED  BY <1>1, <1>6, <1>7, <1>9, <2>1, <2>2, <2>3 DEF ListsApart
<1>23. TypeOK'
  BY <1>1, <1>4, <1>5, <1>6, <1>7, <1>12 DEF TypeOK, pageVars, PC!TypeOK
<1>24. OthersAlone(t)
  BY <1>1, <1>4, <1>5, <1>6, NamesAssumption DEF OthersAlone, TypeOK
<1>25. /\ mine'[t] = s /\ pc'[t] = "pagelock" /\ cls'[t] = c
       /\ \A d \in Classes : bucketMtx'[d] # t
  BY <1>1, <1>2, <1>4, <1>5, NamesAssumption DEF TypeOK, ThreadOK, Locking
<1>26. ThreadsOK'
  <2>1. ThreadOK(t)'
    BY <1>1, <1>4, <1>6, <1>25, NamesAssumption DEF ThreadOK, Locking, Fetching, Giving
  <2>2. BucketsAlone(t)
    <3> SUFFICES ASSUME NEW u \in Threads, NEW d \in Classes, u # t, bucketMtx[d] = u,
                        NEW r \in ToSet(centralLists[d])
                 PROVE  r \in ToSet(centralLists'[d]) /\ freeList'[r] = freeList[r]
      BY DEF BucketsAlone
    <3>1. d # c  BY <1>4
    <3>2. r \in used /\ objSize[r] = d  BY <1>1 DEF BucketsOK
    <3>3. r \in Spans /\ r # s  BY <1>4, <3>1, <3>2, HandedOut DEF IInv, Found
    <3> QED  BY <1>12, <3>1, <3>3
  <2> QED  BY <1>24, <2>1, <2>2, OtherThreads
<1>27. PrivateOK'
  <2>1. PrivateSpan(t)'
    <3>1. mine'[t] \in used' /\ \A b \in held' : SpanOf(b)' # mine'[t]
      BY <1>4, <1>6, <1>8, <1>17, <1>25
    <3>2. ~Central(s)'  BY <1>14
    <3>3. ~Central(mine[t])'  BY <1>25, <3>2 DEF Central
    <3> QED  BY <1>25, <3>1, <3>3 DEF PrivateSpan
  <2>2. \A u \in Threads : u # t => mine'[u] = mine[u]
    BY <1>24 DEF OthersAlone
  <2>3. \A u \in Threads : u # t /\ Private(u) => mine[u] # s
    BY <1>4 DEF IInv, PrivateOK, PrivateSpan
  <2>4. \A u \in Threads : u # t => (Central(mine[u])' => Central(mine[u]))
    <3>1. \A r : Central(r)' => Central(r)  BY <1>14
    <3>2. ASSUME NEW u \in Threads, u # t, Central(mine[u])' PROVE Central(mine[u])
      <4>1. PICK r : r = mine[u] /\ r = mine'[u]
        BY <2>2, <3>2
      <4>2. Central(r)'
        BY <3>2, <4>1 DEF Central
      <4> QED  BY <3>1, <4>1, <4>2
    <3> QED  BY <3>2
  <2>5. held' = held  BY <1>6
  <2> QED  BY <1>5, <1>8, <1>24, <1>25, <2>1, <2>2, <2>3, <2>4, <2>5, PrivateStay
<1> QED  BY <1>8, <1>18, <1>19, <1>20, <1>21, <1>22, <1>23, <1>26, <1>27 DEF IInv

-----------------------------------------------------------------------------
(* The inductive invariant holds. *)

(* The inductive invariant holds at the start. *)
LEMMA InitInv == Init => IInv
<1> SUFFICES ASSUME Init PROVE IInv
  OBVIOUS
<1>1. PCP!IInv
  BY SameInit, PageAssumptions, PCP!InitInv DEF Init
<1>2. /\ \A s \in Spans : freeList[s] = <<>> /\ useCount[s] = 0 /\ objSize[s] = Large
      /\ \A c \in Classes : centralLists[c] = <<>> /\ bucketMtx[c] = NoThread
      /\ \A t \in Threads :
           /\ queue[t] = <<>> /\ pc[t] = "idle" /\ cls[t] = Large
           /\ \A c \in Classes : freeLists[t][c] = <<>> /\ maxSize[t][c] = 1
      /\ held = {}
  BY DEF Init
<1>3. ToSet(<<>>) = {} /\ IsInjective(<<>>) /\ \A S : <<>> \in Seq(S)
  BY EmptyList
<1>4. TypeOK
  <2>1. PC!TypeOK
    BY <1>1, SameTypeOK DEF PCP!IInv
  <2> QED  BY <1>3, <2>1 DEF Init, TypeOK
<1>5. /\ \A t \in Threads, c \in Classes : InCache(t, c) = {}
      /\ \A t \in Threads : InQueue(t) = {}
      /\ \A s \in Spans : InSpan(s) = {}
  BY <1>2, <1>3 DEF InCache, InQueue, InSpan
<1>6. \A a : a \notin OutOfSpan
  BY <1>2, <1>5, OutWhere DEF OutSomewhere
<1>7. \A s : ~Central(s)
  BY <1>2, <1>3 DEF Central
<1>8. BucketsOK /\ SpansOK /\ HomesOK /\ LargeOK
  <2>1. BucketsOK  BY <1>2, <1>3 DEF BucketsOK
  <2>2. SpansOK  BY <1>2, <1>7 DEF SpansOK
  <2>3. HomesOK  BY <1>5, <1>6 DEF HomesOK
  <2>4. LargeOK  BY <1>2 DEF LargeOK
  <2> QED  BY <2>1, <2>2, <2>3, <2>4
<1>9. ListsApart
  BY <1>2, <1>3, <1>5 DEF ListsApart
<1>10. ThreadsOK
  BY <1>2, NamesAssumption DEF ThreadsOK, ThreadOK, Locking, Fetching, Giving
<1>11. PrivateOK
  BY <1>2 DEF PrivateOK, Private
<1> QED  BY <1>1, <1>4, <1>8, <1>9, <1>10, <1>11 DEF IInv

(* A step of nothing leaves everything. *)
LEMMA StutterInv ==
  ASSUME IInv, NoHuge, UNCHANGED vars
  PROVE  IInv'
<1>1. UNCHANGED <<pageVars, objSize, useCount, freeList, centralLists, bucketMtx, tcMtx,
                  cached, freeLists, maxSize, held, pc, cls, batch, mine, queue>>
  BY DEF vars, centralVars, cacheVars, threadVars
<1>2. /\ PCP!IInv' /\ used' = used /\ pageId' = pageId /\ n' = n
      /\ \A a : SpanOf(a)' = SpanOf(a)
      /\ \A s : Objects(s)' = Objects(s) /\ Count(s)' = Count(s)
  BY <1>1, Unmoved
<1>3. /\ \A t, c : InCache(t, c)' = InCache(t, c)
      /\ \A t : InQueue(t)' = InQueue(t)
      /\ \A s : InSpan(s)' = InSpan(s) /\ (Central(s)' <=> Central(s))
      /\ \A t : Central(mine[t])' <=> Central(mine[t])
  BY <1>1 DEF InCache, InQueue, InSpan, Central
<1>4. OutOfSpan' = OutOfSpan
  BY <1>1, <1>2 DEF OutOfSpan
<1>5. TypeOK' /\ BucketsOK'
  <2>1. TypeOK'  BY <1>1 DEF IInv, TypeOK, pageVars, PC!TypeOK
  <2>2. BucketsOK'  BY <1>1, <1>2 DEF IInv, BucketsOK
  <2> QED  BY <2>1, <2>2
<1>6. SpansOK'
  BY <1>1, <1>2, <1>3, <1>4 DEF IInv, SpansOK
<1>7. HomesOK'
  <2>1. (\A a \in OutOfSpan : SpanOf(a) \in Spans /\ Central(SpanOf(a)))'
    BY <1>2, <1>3, <1>4 DEF IInv, HomesOK
  <2> QED  BY <1>1, <1>2, <1>3, <2>1 DEF IInv, HomesOK
<1>8. LargeOK' /\ ListsApart' /\ ThreadsOK'
  <2>1. LargeOK'  BY <1>1, <1>2 DEF IInv, LargeOK
  <2>2. ListsApart'  BY <1>1, <1>3 DEF IInv, ListsApart
  <2>3. ThreadsOK'  BY <1>1 DEF IInv, ThreadsOK, ThreadOK
  <2> QED  BY <2>1, <2>2, <2>3
<1>9. PrivateOK'
  BY <1>1, <1>2, <1>3 DEF IInv, PrivateOK, Private, PrivateSpan
<1> QED  BY <1>2, <1>5, <1>6, <1>7, <1>8, <1>9 DEF IInv

(* Every step of the pool keeps the inductive invariant. *)
LEMMA NextInv ==
  ASSUME NoHuge
  PROVE  IInv /\ [Next]_vars /\ op' # "corrupt" => IInv'
<1> SUFFICES ASSUME IInv, [Next]_vars, op' # "corrupt" PROVE IInv'
  OBVIOUS
<1>1. CASE UNCHANGED vars
  BY <1>1, StutterInv
<1>2. CASE Next
  <2>1. PICK t \in Threads : Call(t) \/ Work(t)
    BY <1>2 DEF Next
  <2>2. CASE Call(t)
    <3>1. ASSUME NEW c \in Classes,
                 AllocHit(t, c) \/ AllocMiss(t, c) \/ AllocFirst(t, c)
          PROVE  IInv'
      BY <3>1, AllocHitInv, AllocMissInv, LockStepInv
    <3>2. ASSUME NEW k \in LargeRequests, AllocLarge(t, k) \/ AllocLargeThrows(t, k)
          PROVE  IInv'
      BY <3>2, AllocLargeInv, ThrowsInv
    <3>3. ASSUME NEW a \in held, FreeLarge(t, a) \/ FreeSmall(t, a) \/ FreeCold(t, a)
          PROVE  IInv'
      BY <3>3, FreeLargeInv, FreeSmallInv, LockStepInv
    <3> QED  BY <2>2, <3>1, <3>2, <3>3 DEF Call
  <2>3. CASE Work(t)
    BY <2>3, MakeCacheInv, LockStepInv, TakeInv, GetSpanInv, ThrowsInv, CarveAndPushInv,
       ReturnObjectInv, ReturnLastObjectInv, ReleaseSpanInv, MergeStepInv DEF Work
  <2> QED  BY <2>1, <2>2, <2>3
<1> QED  BY <1>1, <1>2

(* After that the page cache does not move, whatever the threads do. *)
LEMMA MergedStays ==
  ASSUME op = "corrupt", [Next]_vars
  PROVE  UNCHANGED pageVars
<1>1. CASE UNCHANGED vars
  BY <1>1 DEF vars
<1>2. ASSUME NEW t \in Threads, Call(t) PROVE UNCHANGED pageVars
  BY <1>2 DEF Call, AllocHit, AllocMiss, AskCentral, AllocFirst, AllocLarge,
              AllocLargeThrows, FreeLarge, FreeSmall, FreeCold, PC!NewSpan,
              PC!NewSpanThrows
<1>3. ASSUME NEW t \in Threads, Work(t) PROVE UNCHANGED pageVars
  BY <1>3 DEF Work, MakeCache, AskCentral, MakeCacheThrows, LockToFetch, FetchFound,
              FetchEmpty, Take, GetSpan, FromPageCache, GetSpanThrows, CarveAndPush,
              LockToReturn, ReturnObject, ReturnLastObject, ReturnDone, ReleaseSpan,
              MergeStep, PC!NewSpan, PC!NewSpanThrows, PC!StartRelease, PC!ReleaseHuge,
              PC!ReleaseStep, PC!MergePrev, PC!StopPrev, PC!MergeNext, PC!FinishRelease
<1> QED  BY <1>1, <1>2, <1>3 DEF Next

(* A step that is not the end does not come after it. *)
LEMMA BeforeMerged ==
  ASSUME [Next]_vars, PC!Intact'
  PROVE  PC!Intact
BY MergedStays DEF PC!Intact, pageVars

(* Whatever the threads do, the invariant holds until a held span is       *)
(* merged.                                                                 *)
THEOREM Invariance ==
  ASSUME NoHuge
  PROVE  Spec => []UntilMerged
<1>1. Init => UntilMerged
  BY InitInv DEF UntilMerged
<1>2. UntilMerged /\ [Next]_vars => UntilMerged'
  <2> SUFFICES ASSUME UntilMerged, [Next]_vars, PC!Intact' PROVE IInv'
    BY DEF UntilMerged
  <2>1. IInv  BY BeforeMerged DEF UntilMerged
  <2> QED  BY <2>1, NextInv DEF PC!Intact
<1> QED  BY <1>1, <1>2, PTL DEF Spec

-----------------------------------------------------------------------------
(* What the runs check follows. *)

(* The three layers' variables stay in their ranges, until a held span is  *)
(* merged.                                                                 *)
THEOREM PoolTyping ==
  ASSUME NoHuge
  PROVE  Spec => [](PC!Intact => TypeOK)
<1>1. UntilMerged => (PC!Intact => TypeOK)  BY DEF UntilMerged, IInv
<1> QED  BY <1>1, Invariance, PTL

(* Lists with different names share no object, and none is held. *)
LEMMA ChainsApart == IInv => OneOwner
<1> SUFFICES ASSUME IInv PROVE OneOwner
  OBVIOUS
<1>1. ListsApart  BY DEF IInv
<1>2. \A x \in Chains :
        \/ \E t \in Threads, c \in Classes : x = <<"cache", t, c, freeLists[t][c]>>
        \/ \E t \in Threads : x = <<"queue", t, 0, queue[t]>>
        \/ \E s \in Spans : x = <<"span", s, 0, freeList[s]>>
  BY DEF Chains
<1>3. ASSUME NEW x \in Chains
      PROVE  IsInjective(x[4]) /\ ToSet(x[4]) \cap held = {}
  <2>1. ASSUME NEW t \in Threads, NEW c \in Classes, x[4] = freeLists[t][c]
        PROVE  IsInjective(x[4]) /\ ToSet(x[4]) \cap held = {}
    BY <1>1, <2>1 DEF ListsApart, InCache
  <2>2. ASSUME NEW t \in Threads, x[4] = queue[t]
        PROVE  IsInjective(x[4]) /\ ToSet(x[4]) \cap held = {}
    BY <1>1, <2>2 DEF ListsApart, InQueue
  <2>3. ASSUME NEW s \in Spans, x[4] = freeList[s]
        PROVE  IsInjective(x[4]) /\ ToSet(x[4]) \cap held = {}
    BY <1>1, <2>3 DEF ListsApart, InSpan
  <2> QED  BY <1>2, <2>1, <2>2, <2>3
<1>4. ASSUME NEW x \in Chains, NEW y \in Chains, NEW a, a \in ToSet(x[4]), a \in ToSet(y[4])
      PROVE  x = y
  <2>1. ASSUME NEW t \in Threads, NEW c \in Classes, x = <<"cache", t, c, freeLists[t][c]>>
        PROVE  x = y
    <3>1. a \in InCache(t, c)  BY <1>4, <2>1 DEF InCache
    <3>2. ASSUME NEW u \in Threads, NEW d \in Classes, y = <<"cache", u, d, freeLists[u][d]>>
          PROVE  x = y
      <4>1. a \in InCache(u, d)  BY <1>4, <3>2 DEF InCache
      <4>2. u = t /\ d = c  BY <1>1, <3>1, <4>1 DEF ListsApart
      <4> QED  BY <2>1, <3>2, <4>2
    <3>3. ASSUME NEW u \in Threads, y[4] = queue[u] PROVE FALSE
      BY <1>1, <1>4, <3>1, <3>3 DEF ListsApart, InQueue
    <3>4. ASSUME NEW s \in Spans, y[4] = freeList[s] PROVE FALSE
      BY <1>1, <1>4, <3>1, <3>4 DEF ListsApart, InSpan
    <3> QED  BY <1>2, <3>2, <3>3, <3>4
  <2>2. ASSUME NEW t \in Threads, x = <<"queue", t, 0, queue[t]>>
        PROVE  x = y
    <3>1. a \in InQueue(t)  BY <1>4, <2>2 DEF InQueue
    <3>2. ASSUME NEW u \in Threads, NEW d \in Classes, y[4] = freeLists[u][d] PROVE FALSE
      BY <1>1, <1>4, <3>1, <3>2 DEF ListsApart, InCache
    <3>3. ASSUME NEW u \in Threads, y = <<"queue", u, 0, queue[u]>>
          PROVE  x = y
      <4>1. a \in InQueue(u)  BY <1>4, <3>3 DEF InQueue
      <4>2. u = t  BY <1>1, <3>1, <4>1 DEF ListsApart
      <4> QED  BY <2>2, <3>3, <4>2
    <3>4. ASSUME NEW s \in Spans, y[4] = freeList[s] PROVE FALSE
      BY <1>1, <1>4, <3>1, <3>4 DEF ListsApart, InSpan
    <3> QED  BY <1>2, <3>2, <3>3, <3>4
  <2>3. ASSUME NEW s \in Spans, x = <<"span", s, 0, freeList[s]>>
        PROVE  x = y
    <3>1. a \in InSpan(s)  BY <1>4, <2>3 DEF InSpan
    <3>2. ASSUME NEW u \in Threads, NEW d \in Classes, y[4] = freeLists[u][d] PROVE FALSE
      BY <1>1, <1>4, <3>1, <3>2 DEF ListsApart, InCache
    <3>3. ASSUME NEW u \in Threads, y[4] = queue[u] PROVE FALSE
      BY <1>1, <1>4, <3>1, <3>3 DEF ListsApart, InQueue
    <3>4. ASSUME NEW r \in Spans, y = <<"span", r, 0, freeList[r]>>
          PROVE  x = y
      <4>1. a \in InSpan(r)  BY <1>4, <3>4 DEF InSpan
      <4>2. r = s  BY <1>1, <3>1, <4>1 DEF ListsApart
      <4> QED  BY <2>3, <3>4, <4>2
    <3> QED  BY <1>2, <3>2, <3>3, <3>4
  <2> QED  BY <1>2, <2>1, <2>2, <2>3
<1> QED  BY <1>3, <1>4 DEF OneOwner

(* The count, the objects, and where the lookup of an object leads. *)
LEMMA CentralSound == IInv => UseCountExact /\ NoObjectLost /\ HomeListed
<1> SUFFICES ASSUME IInv PROVE UseCountExact /\ NoObjectLost /\ HomeListed
  OBVIOUS
<1>1. UseCountExact
  BY CountOut DEF UseCountExact, OutOf
<1>2. NoObjectLost
  <2> SUFFICES ASSUME NEW c \in Classes, NEW s \in ToSet(centralLists[c])
               PROVE  ToSet(Carved(s, ObjSize[c])) =
                        ToSet(freeList[s]) \cup {a \in OutOfSpan : SpanOf(a) = s}
    BY DEF NoObjectLost
  <2>1. objSize[s] = c /\ Central(s)
    BY DEF IInv, BucketsOK, Central
  <2>2. s \in Spans
    BY <2>1, CentralSpan
  <2>3. Objects(s) = InSpan(s) \cup OutOf(s)
    BY <2>1, <2>2, CountOut
  <2> QED  BY <2>1, <2>3 DEF Objects, InSpan, OutOf
<1>3. HomeListed
  <2>1. ASSUME NEW a \in OutOfSpan
        PROVE  SpanOf(a) \in used /\ SpanOf(a) \in ToSet(centralLists[objSize[SpanOf(a)]])
    BY HomeOf DEF Central
  <2>2. \A t \in Threads, c \in Classes : \A a \in ToSet(freeLists[t][c]) :
          objSize[SpanOf(a)] = c
    BY DEF IInv, HomesOK, InCache
  <2>3. \A c \in Classes : IsInjective(centralLists[c])
    BY DEF IInv, BucketsOK
  <2> QED  BY <2>1, <2>2, <2>3 DEF HomeListed
<1> QED  BY <1>1, <1>2, <1>3

(* An object is with one owner, until a held span is merged. *)
THEOREM ObjectsHaveOneOwner ==
  ASSUME NoHuge
  PROVE  Spec => [](PC!Intact => OneOwner)
<1>1. UntilMerged => (PC!Intact => OneOwner)  BY ChainsApart DEF UntilMerged
<1> QED  BY <1>1, Invariance, PTL

(* A span leaves for the page cache only with its last object back, until  *)
(* a held span is merged.                                                  *)
THEOREM CountsExact ==
  ASSUME NoHuge
  PROVE  Spec => [](PC!Intact => UseCountExact)
<1>1. UntilMerged => (PC!Intact => UseCountExact)  BY CentralSound DEF UntilMerged
<1> QED  BY <1>1, Invariance, PTL

(* Every object of a span in a bucket is in its list or out of it, until a *)
(* held span is merged.                                                    *)
THEOREM ObjectsConserved ==
  ASSUME NoHuge
  PROVE  Spec => [](PC!Intact => NoObjectLost)
<1>1. UntilMerged => (PC!Intact => NoObjectLost)  BY CentralSound DEF UntilMerged
<1> QED  BY <1>1, Invariance, PTL

(* The lock-free lookups of ConcurrentFree and ReleaseListToSpans find the *)
(* right span, and it stays until the object is back, or a held span is    *)
(* merged.                                                                 *)
THEOREM HomesFound ==
  ASSUME NoHuge
  PROVE  Spec => [](PC!Intact => HomeListed)
<1>1. UntilMerged => (PC!Intact => HomeListed)  BY CentralSound DEF UntilMerged
<1> QED  BY <1>1, Invariance, PTL

-----------------------------------------------------------------------------
(* The page cache is used as its specification assumes. *)

(* A step of the pool is a step of the page cache, or leaves it alone. *)
LEMMA UsesStep ==
  ASSUME NoHuge, IInv, [Next]_vars
  PROVE  [PC!Next]_pageVars
<1>1. CASE UNCHANGED vars
  BY <1>1 DEF vars
<1>2. CASE Next
  <2>1. PICK t \in Threads : Call(t) \/ Work(t)
    BY <1>2 DEF Next
  <2>2. ThreadOK(t)
    BY DEF IInv, ThreadsOK
  <2>3. ASSUME NEW k \in LargeRequests, AllocLarge(t, k) \/ AllocLargeThrows(t, k)
        PROVE  PC!Next
    <3>1. k \in CentralRequests \cup LargeRequests
      OBVIOUS
    <3> QED  BY <2>3, <3>1 DEF AllocLarge, AllocLargeThrows, PC!Next
  <2>4. CASE GetSpan(t) \/ GetSpanThrows(t)
    <3>1. cls[t] \in Classes
      BY <2>2, <2>4 DEF GetSpan, GetSpanThrows, ThreadOK, Fetching
    <3>2. MovePages[cls[t]] \in CentralRequests
      BY <3>1 DEF CentralRequests
    <3> QED  BY <2>4, <3>2 DEF GetSpan, GetSpanThrows, FromPageCache, PC!Next
  <2>5. CASE ReleaseSpan(t)
    BY <2>5, ReleaseSpanStarts DEF PC!Next, PC!StartRelease
  <2>6. CASE MergeStep(t)
    BY <2>6 DEF MergeStep, PC!Next
  <2>7. CASE Call(t)
    BY <2>3, <2>7 DEF Call, AllocHit, AllocMiss, AskCentral, AllocFirst, FreeLarge,
                      FreeSmall, FreeCold
  <2>8. CASE Work(t)
    BY <2>4, <2>5, <2>6, <2>8
       DEF Work, MakeCache, AskCentral, MakeCacheThrows, LockToFetch, FetchFound,
           FetchEmpty, Take, CarveAndPush, LockToReturn, ReturnObject, ReturnLastObject,
           ReturnDone
  <2> QED  BY <2>1, <2>7, <2>8
<1> QED  BY <1>1, <1>2

(* One at a time, asking for what the page cache serves, and giving back   *)
(* only a span they were given, once: the pool is a client of PageCache,   *)
(* and what PageCacheProofs shows of any client's steps holds in it.  When *)
(* a held span has been merged neither takes a step in the page cache.     *)
THEOREM PoolUsesPageCache ==
  ASSUME NoHuge
  PROVE  Spec => UsesPageCache
<1>1. Init => PC!Init  BY DEF Init
<1>2. UntilMerged /\ [Next]_vars => [PC!Next]_(PC!vars)
  BY UsesStep, MergedStays DEF UntilMerged, PC!Intact, pageVars, PC!vars
<1> QED  BY <1>1, <1>2, Invariance, PTL DEF Spec, UsesPageCache, PC!Spec

-----------------------------------------------------------------------------
(* What a thread keeps is bounded. *)

(* Other threads' lists are their own. *)
LEMMA OthersBounded ==
  ASSUME ListsBounded, NEW t \in Threads, Bounded(t)',
         \A u \in Threads : u # t =>
           /\ pc'[u] = pc[u] /\ cls'[u] = cls[u] /\ batch'[u] = batch[u]
           /\ freeLists'[u] = freeLists[u] /\ maxSize'[u] = maxSize[u]
           /\ u \in cached' <=> u \in cached
  PROVE  ListsBounded'
BY DEF ListsBounded, Bounded, Served

(* A step that neither asks the central cache nor touches a list. *)
LEMMA IdleBounded ==
  ASSUME IInv, ListsBounded, NEW t \in Threads,
         UNCHANGED <<freeLists, maxSize, cached>>,
         \E label : pc' = [pc EXCEPT ![t] = label],
         \/ UNCHANGED <<cls, batch>> /\ (pc'[t] \in Fetching => pc[t] \in Fetching)
                                     /\ (Served(t)' => Served(t))
         \/ pc'[t] \notin Fetching /\ \E k, b : /\ cls' = [cls EXCEPT ![t] = k]
                                              /\ batch' = [batch EXCEPT ![t] = b]
  PROVE  ListsBounded'
<1>1. TypeOK
  BY DEF IInv
<1>2. Bounded(t)
  BY DEF ListsBounded
<1>3. Bounded(t)'
  BY <1>2 DEF Bounded, Served
<1>4. \A u \in Threads : u # t =>
        pc'[u] = pc[u] /\ cls'[u] = cls[u] /\ batch'[u] = batch[u]
  BY <1>1 DEF TypeOK
<1> QED  BY <1>3, <1>4, OthersBounded

(* Slow start asks for no more than a list may hold, and moves the bound   *)
(* no further than one past NumMoveSize.                                   *)
LEMMA AskBounded ==
  ASSUME IInv, ListsBounded, NEW t \in Threads, NEW c \in Classes, AskCentral(t, c),
         cls' = [cls EXCEPT ![t] = c], freeLists[t][c] = <<>>,
         cached' = cached \cup {t}
  PROVE  ListsBounded'
<1> DEFINE m == maxSize[t][c]
           b == IF m < MoveLimit[c] THEN m ELSE MoveLimit[c]
           k == IF b = m THEN m + 1 ELSE m
<1>1. /\ batch' = [batch EXCEPT ![t] = b] /\ maxSize' = [maxSize EXCEPT ![t][c] = k]
      /\ pc' = [pc EXCEPT ![t] = "lock"] /\ UNCHANGED freeLists
  BY DEF AskCentral, Goto
<1>2. /\ batch \in [Threads -> Nat] /\ maxSize \in [Threads -> [Classes -> Nat]]
      /\ freeLists \in [Threads -> [Classes -> Seq(Nat)]]
      /\ TypeOK /\ Bounded(t)
  BY DEF IInv, TypeOK, ListsBounded
<1>3. m \in Nat /\ m <= MoveLimit[c] + 1 /\ MoveLimit[c] \in Nat
  BY <1>2, ClassesAssumption DEF Bounded
<1>4. b \in Nat /\ k \in Nat /\ b <= k /\ m <= k /\ k <= MoveLimit[c] + 1
  BY <1>3
<1> HIDE DEF b, k
<1>5. /\ batch'[t] = b /\ cls'[t] = c /\ pc'[t] = "lock"
      /\ \A d \in Classes : maxSize'[t][d] = IF d = c THEN k ELSE maxSize[t][d]
  BY <1>1, <1>2 DEF TypeOK
<1>6. Bounded(t)'
  <2>1. ASSUME NEW d \in Classes
        PROVE  /\ Len(freeLists[t][d]) < maxSize'[t][d]
               /\ maxSize'[t][d] <= MoveLimit[d] + 1
    <3>1. Len(freeLists[t][d]) \in Nat /\ maxSize[t][d] \in Nat
      BY <1>2, LenProperties
    <3>2. Len(freeLists[t][d]) < maxSize[t][d] /\ maxSize[t][d] <= MoveLimit[d] + 1
      BY <1>2 DEF Bounded
    <3>3. CASE d = c  BY <1>3, <1>4, <1>5, <3>1, <3>2, <3>3
    <3>4. CASE d # c  BY <1>5, <3>2, <3>4
    <3> QED  BY <3>3, <3>4
  <2> QED  BY <1>1, <1>4, <1>5, <2>1 DEF Bounded, Served
<1>7. \A u \in Threads : u # t =>
        /\ pc'[u] = pc[u] /\ cls'[u] = cls[u] /\ batch'[u] = batch[u]
        /\ freeLists'[u] = freeLists[u] /\ maxSize'[u] = maxSize[u]
        /\ u \in cached' <=> u \in cached
  BY <1>1, <1>2 DEF TypeOK
<1> QED  BY <1>6, <1>7, OthersBounded

(* The first of the list goes to the caller. *)
LEMMA HitBounded ==
  ASSUME IInv, ListsBounded, NEW t \in Threads, NEW c \in Classes, AllocHit(t, c)
  PROVE  ListsBounded'
<1>1. /\ freeLists[t][c] # <<>> /\ freeLists[t][c] \in Seq(Nat)
      /\ freeLists \in [Threads -> [Classes -> Seq(Nat)]] /\ Bounded(t) /\ pc[t] = "idle"
  BY DEF AllocHit, IInv, TypeOK, ListsBounded
<1>2. /\ freeLists' = [freeLists EXCEPT ![t][c] = Tail(freeLists[t][c])]
      /\ UNCHANGED <<cached, maxSize, pc, cls, batch>>
  BY DEF AllocHit, threadVars
<1>3. Len(Tail(freeLists[t][c])) = Len(freeLists[t][c]) - 1 /\ Len(freeLists[t][c]) \in Nat
  BY <1>1, Popped, LenProperties
<1>4. \A d \in Classes : freeLists'[t][d] = IF d = c THEN Tail(freeLists[t][c])
                                                     ELSE freeLists[t][d]
  BY <1>1, <1>2
<1>5. maxSize[t][c] \in Nat
  BY DEF IInv, TypeOK
<1>6. Bounded(t)'
  BY <1>1, <1>2, <1>3, <1>4, <1>5 DEF Bounded, Served, Fetching
<1>7. \A u \in Threads : u # t => freeLists'[u] = freeLists[u]
  BY <1>1, <1>2
<1> QED  BY <1>2, <1>6, <1>7, OthersBounded

(* What is fetched fits, the caller having the first of it. *)
LEMMA TakeBounded ==
  ASSUME IInv, ListsBounded, NEW t \in Threads, Take(t)
  PROVE  ListsBounded'
<1>0. PICK s, c : s = mine[t] /\ c = cls[t]
  OBVIOUS
<1> DEFINE q == freeList[s]
           k == Fetched(s, batch[t])
           took == SubSeq(q, 1, k)
           more == Tail(took) \o freeLists[t][c]
<1>1. TypeOK /\ ThreadOK(t) /\ Bounded(t) /\ pc[t] = "take"
  BY DEF IInv, ThreadsOK, ListsBounded, Take
<1>2. s \in Spans /\ c \in Classes /\ q # <<>> /\ q \in Seq(Nat) /\ batch[t] \in Nat
      /\ batch[t] > 0
  BY <1>0, <1>1 DEF ThreadOK, Fetching, TypeOK
<1>3. Len(q) \in Nat /\ Len(q) > 0
  BY <1>2, EmptyList, LenProperties
<1>4. k \in 0 .. Len(q) /\ k > 0 /\ k <= batch[t]
  BY <1>2, <1>3 DEF Fetched
<1>5. /\ freeLists[t][c] = <<>> /\ batch[t] <= maxSize[t][c]
      /\ maxSize[t][c] \in Nat /\ t \in cached
  BY <1>0, <1>1, <1>2 DEF Bounded, Served, Fetching, TypeOK
<1>6. /\ freeLists' = [freeLists EXCEPT ![t][c] = more]
      /\ UNCHANGED <<cached, maxSize>>
      /\ pc' = [pc EXCEPT ![t] = "idle"] /\ cls' = [cls EXCEPT ![t] = Large]
      /\ batch' = [batch EXCEPT ![t] = 0]
  BY <1>0 DEF Take, Return, Goto
<1>7. took \in Seq(Nat) /\ Len(took) = k
  <2> HIDE DEF q, k
  <2> QED  BY <1>2, <1>4, CutOff
<1> HIDE DEF took, k, q
<1>8. Tail(took) \in Seq(Nat) /\ Len(Tail(took)) = k - 1
  <2>1. took # <<>>  BY <1>4, <1>7, EmptyList
  <2> QED  BY <1>7, <2>1, Popped
<1>9. Len(more) = k - 1
  <2>1. <<>> \in Seq(Nat) /\ Len(<<>>) = 0  BY EmptyList
  <2>2. Len(Tail(took) \o <<>>) = Len(Tail(took)) + 0  BY <1>8, <2>1, Joined
  <2> QED  BY <1>4, <1>5, <1>8, <2>2
<1> HIDE DEF more
<1>10. \A d \in Classes : freeLists'[t][d] = IF d = c THEN more ELSE freeLists[t][d]
  BY <1>1, <1>2, <1>6 DEF TypeOK
<1>11. Len(more) < maxSize[t][c]
  BY <1>2, <1>4, <1>5, <1>9
<1>12. pc'[t] = "idle" /\ cls'[t] = Large
  BY <1>1, <1>6 DEF TypeOK
<1>13. Bounded(t)'
  BY <1>1, <1>5, <1>6, <1>10, <1>11, <1>12 DEF Bounded, Served, Fetching
<1>14. \A u \in Threads : u # t =>
         /\ pc'[u] = pc[u] /\ cls'[u] = cls[u] /\ batch'[u] = batch[u]
         /\ freeLists'[u] = freeLists[u]
  BY <1>1, <1>6 DEF TypeOK
<1> QED  BY <1>6, <1>13, <1>14, OthersBounded

(* A list that reaches its bound is cut. *)
LEMMA FreeBounded ==
  ASSUME IInv, ListsBounded, NEW t \in Threads, NEW a \in held, FreeSmall(t, a)
  PROVE  ListsBounded'
<1>0. PICK c : c = objSize[SpanOf(a)]
  OBVIOUS
<1> DEFINE q == freeLists[t][c]
           list == <<a>> \o q
           m == maxSize[t][c]
<1>1. TypeOK /\ Bounded(t) /\ pc[t] = "idle" /\ t \in cached
  BY DEF IInv, ListsBounded, FreeSmall
<1>2. c \in Classes
  BY <1>0, <1>1, HomeOfHeld DEF TypeOK, FreeSmall
<1>3. q \in Seq(Nat) /\ a \in Nat /\ m \in Nat /\ Len(q) \in Nat /\ Len(q) < m
  BY <1>1, <1>2, LenProperties DEF TypeOK, Bounded
<1>4. list \in Seq(Nat) /\ Len(list) = Len(q) + 1
  BY <1>3, Pushed
<1>5. /\ UNCHANGED <<cached, maxSize, batch>>
      /\ \/ /\ TooLong(list, m)
            /\ freeLists' = [freeLists EXCEPT ![t][c] = SubSeq(list, m + 1, Len(list))]
            /\ cls' = [cls EXCEPT ![t] = c] /\ pc' = [pc EXCEPT ![t] = "retlock"]
         \/ /\ ~TooLong(list, m)
            /\ freeLists' = [freeLists EXCEPT ![t][c] = list]
            /\ UNCHANGED <<cls, pc>>
  BY <1>0 DEF FreeSmall, Goto
<1> HIDE DEF list
<1>6. PICK new \in Seq(Nat) :
        /\ freeLists' = [freeLists EXCEPT ![t][c] = new] /\ Len(new) < m
  <2>1. CASE TooLong(list, m)
    <3>1. m = Len(list)  BY <1>3, <1>4, <2>1 DEF TooLong
    <3>2. m \in 0 .. Len(list)  BY <1>3, <3>1
    <3>3. /\ SubSeq(list, m + 1, Len(list)) \in Seq(Nat)
          /\ Len(SubSeq(list, m + 1, Len(list))) = Len(list) - m
      <4> HIDE DEF m
      <4> QED  BY <1>4, <3>2, CutOff
    <3> QED  BY <1>3, <1>5, <2>1, <3>1, <3>3
  <2>2. CASE ~TooLong(list, m)
    BY <1>3, <1>4, <1>5, <2>2 DEF TooLong
  <2> QED  BY <2>1, <2>2
<1>7. \A d \in Classes : freeLists'[t][d] = IF d = c THEN new ELSE freeLists[t][d]
  BY <1>1, <1>2, <1>6 DEF TypeOK
<1>8. pc'[t] \in {"idle", "retlock"}
  BY <1>1, <1>5 DEF TypeOK
<1>9. Bounded(t)'
  BY <1>1, <1>5, <1>6, <1>7, <1>8 DEF Bounded, Served, Fetching
<1>10. \A u \in Threads : u # t =>
         /\ pc'[u] = pc[u] /\ cls'[u] = cls[u] /\ freeLists'[u] = freeLists[u]
  BY <1>1, <1>5, <1>6 DEF TypeOK
<1> QED  BY <1>5, <1>9, <1>10, OthersBounded

(* Every step of the pool keeps the thread caches within their limits. *)
LEMMA BoundedStep ==
  ASSUME IInv, ListsBounded, Next
  PROVE  ListsBounded'
<1>1. PICK t \in Threads : Call(t) \/ Work(t)
  BY DEF Next
<1>2. TypeOK /\ ThreadOK(t) /\ Bounded(t)
  BY DEF IInv, ThreadsOK, ListsBounded
<1>3. ASSUME NEW c \in Classes, AllocMiss(t, c) PROVE ListsBounded'
  <2>1. cached' = cached \cup {t}  BY <1>3 DEF AllocMiss
  <2> QED  BY <1>3, <2>1, AskBounded DEF AllocMiss
<1>4. CASE MakeCache(t)
  <2>1. cls[t] \in Classes /\ freeLists[t][cls[t]] = <<>>
    BY <1>2, <1>4 DEF MakeCache, ThreadOK, Fetching, Bounded
  <2>2. cls' = [cls EXCEPT ![t] = cls[t]]
    BY <1>2, <1>4 DEF MakeCache, TypeOK
  <2>3. AskCentral(t, cls[t]) /\ cached' = cached \cup {t}
    BY <1>4 DEF MakeCache
  <2> QED  BY <2>1, <2>2, <2>3, AskBounded
<1>5. ASSUME NEW c \in Classes, AllocFirst(t, c) PROVE ListsBounded'
  <2>1. /\ t \notin cached /\ cls' = [cls EXCEPT ![t] = c]
        /\ pc' = [pc EXCEPT ![t] = "tclock"]
        /\ UNCHANGED <<freeLists, maxSize, cached, batch>>
    BY <1>5 DEF AllocFirst, Goto, cacheVars
  <2>2. Bounded(t)'
    BY <1>2, <2>1 DEF Bounded, Served, TypeOK
  <2>3. \A u \in Threads : u # t => pc'[u] = pc[u] /\ cls'[u] = cls[u]
    BY <1>2, <2>1 DEF TypeOK
  <2> QED  BY <2>1, <2>2, <2>3, OthersBounded
<1>6. ASSUME UNCHANGED <<freeLists, maxSize, cached, cls, batch>>,
             NEW label, pc' = [pc EXCEPT ![t] = label],
             \/ label \notin Fetching
             \/ Served(t)
      PROVE  ListsBounded'
  <2>1. pc'[t] = label  BY <1>2, <1>6 DEF TypeOK
  <2>2. pc'[t] \in Fetching => pc[t] \in Fetching  BY <1>6, <2>1 DEF Served
  <2>3. Served(t)' => Served(t)  BY <1>6, <2>1 DEF Served
  <2> QED  BY <1>6, <2>2, <2>3, IdleBounded
<1>7. CASE \/ MakeCacheThrows(t) \/ LockToFetch(t) \/ FetchFound(t) \/ FetchEmpty(t)
           \/ GetSpan(t) \/ GetSpanThrows(t) \/ CarveAndPush(t) \/ LockToReturn(t)
           \/ ReturnLastObject(t)
           \/ \E k : AllocLargeThrows(t, k)
           \/ \E a : FreeLarge(t, a) \/ FreeCold(t, a)
  <2>1. UNCHANGED <<freeLists, maxSize, cached, cls, batch>>
    BY <1>7 DEF MakeCacheThrows, LockToFetch, FetchFound, FetchEmpty, GetSpan,
                GetSpanThrows, CarveAndPush, LockToReturn, ReturnLastObject,
                AllocLargeThrows, FreeLarge, FreeCold, cacheVars
  <2>2. \E label : /\ pc' = [pc EXCEPT ![t] = label]
                   /\ label \notin Fetching \/ Served(t)
    <3>1. CASE \/ MakeCacheThrows(t) \/ GetSpanThrows(t) \/ LockToReturn(t)
               \/ ReturnLastObject(t) \/ \E k : AllocLargeThrows(t, k)
               \/ \E a : FreeLarge(t, a) \/ FreeCold(t, a)
      <4>1. \E label \in {"thrown", "pagelock", "aborted", "return"} :
              pc' = [pc EXCEPT ![t] = label]
        BY <3>1 DEF MakeCacheThrows, GetSpanThrows, LockToReturn, ReturnLastObject,
                    AllocLargeThrows, FreeLarge, FreeCold, Goto
      <4> QED  BY <4>1 DEF Fetching
    <3>2. CASE \/ LockToFetch(t) \/ FetchFound(t) \/ FetchEmpty(t) \/ GetSpan(t)
               \/ CarveAndPush(t)
      BY <3>2 DEF LockToFetch, FetchFound, FetchEmpty, GetSpan, CarveAndPush, Goto,
                  Fetching, Served
    <3> QED  BY <1>7, <3>1, <3>2
  <2> QED  BY <1>6, <2>1, <2>2
<1>8. ASSUME UNCHANGED <<freeLists, maxSize, cached, pc, cls, batch>> PROVE ListsBounded'
  BY <1>8 DEF ListsBounded, Bounded, Served
<1>9. CASE ReturnObject(t) \/ \E k : AllocLarge(t, k)
  BY <1>8, <1>9 DEF ReturnObject, AllocLarge, cacheVars, threadVars
<1>10. ASSUME UNCHANGED <<freeLists, maxSize, cached>>, Return(t) PROVE ListsBounded'
  <2>1. /\ pc' = [pc EXCEPT ![t] = "idle"] /\ cls' = [cls EXCEPT ![t] = Large]
        /\ batch' = [batch EXCEPT ![t] = 0]
    BY <1>10 DEF Return, Goto
  <2>2. pc'[t] \notin Fetching  BY <1>2, <2>1 DEF TypeOK, Fetching
  <2> QED  BY <1>10, <2>1, <2>2, IdleBounded
<1>11. ASSUME UNCHANGED <<freeLists, maxSize, cached>>, AfterRelease(t)
       PROVE  ListsBounded'
  <2>1. CASE cls[t] = Large
    BY <1>10, <1>11, <2>1 DEF AfterRelease
  <2>2. CASE cls[t] # Large
    BY <1>6, <1>11, <2>2 DEF AfterRelease, Goto, Fetching
  <2> QED  BY <2>1, <2>2
<1>12. CASE ReturnDone(t)
  BY <1>10, <1>12 DEF ReturnDone, cacheVars
<1>13. CASE ReleaseSpan(t)
  <2>1. UNCHANGED <<freeLists, maxSize, cached>>
    BY <1>13 DEF ReleaseSpan, cacheVars
  <2>2. CASE pc' = [pc EXCEPT ![t] = "merging"] /\ UNCHANGED <<cls, batch>>
    BY <1>6, <2>1, <2>2 DEF Fetching
  <2> QED  BY <1>11, <1>13, <2>1, <2>2 DEF ReleaseSpan, Goto
<1>14. CASE MergeStep(t)
  <2>1. UNCHANGED <<freeLists, maxSize, cached>>
    BY <1>14 DEF MergeStep, cacheVars
  <2>2. CASE UNCHANGED threadVars
    BY <1>8, <2>1, <2>2 DEF threadVars
  <2> QED  BY <1>11, <1>14, <2>1, <2>2 DEF MergeStep
<1>15. CASE Call(t)
  BY <1>3, <1>5, <1>7, <1>9, <1>15, HitBounded, FreeBounded DEF Call
<1>16. CASE Work(t)
  BY <1>4, <1>7, <1>9, <1>12, <1>13, <1>14, <1>16, TakeBounded DEF Work
<1> QED  BY <1>1, <1>15, <1>16

(* Until a held span is merged, a thread's list is shorter than its        *)
(* maxSize, which slow start moves no further than one past NumMoveSize.   *)
THEOREM CachesBounded ==
  ASSUME NoHuge
  PROVE  Spec => [](PC!Intact => CacheBounded)
<1> DEFINE Until == PC!Intact => ListsBounded
<1>1. Init => Until
  <2>1. Len(<<>>) = 0  BY EmptyList
  <2>2. \A c \in Classes : MoveLimit[c] \in Nat  BY ClassesAssumption
  <2> QED  BY <2>1, <2>2, NamesAssumption
           DEF Init, ListsBounded, Bounded, Served, Fetching
<1>2. UntilMerged /\ Until /\ [Next]_vars => Until'
  <2> SUFFICES ASSUME UntilMerged, Until, [Next]_vars, PC!Intact' PROVE ListsBounded'
    OBVIOUS
  <2>0. IInv /\ ListsBounded
    BY BeforeMerged DEF UntilMerged
  <2>1. CASE UNCHANGED vars
    BY <2>0, <2>1 DEF vars, cacheVars, threadVars, ListsBounded, Bounded, Served
  <2> QED  BY <2>0, <2>1, BoundedStep
<1>3. Until => (PC!Intact => CacheBounded)
  BY DEF ListsBounded, Bounded, CacheBounded
<1> QED  BY <1>1, <1>2, <1>3, Invariance, PTL DEF Spec

-----------------------------------------------------------------------------
(* No span stays in the central cache with none of its objects out. *)

(* It is about to be taken from. *)
Awaited(s) == \E t \in Threads : pc[t] = "take" /\ mine[t] = s

(* Steps that change no bucket, and after which whoever was about to take  *)
(* still is.                                                               *)
LEMMA HoardStay ==
  ASSUME NothingHoarded, UNCHANGED <<centralLists, useCount>>,
         \A u \in Threads : pc[u] = "take" => pc'[u] = "take" /\ mine'[u] = mine[u]
  PROVE  NothingHoarded'
BY DEF NothingHoarded

(* A fetch that takes from a span leaves no unused span behind. *)
LEMMA TakeHoards ==
  ASSUME IInv, NothingHoarded, NEW t \in Threads, Take(t)
  PROVE  NothingHoarded'
<1>1. PICK s \in Spans, c \in Classes, h \in Nat, more \in Seq(Nat), rest \in Seq(Nat),
           k \in Nat : Taken(t, s, c, h, more, rest, k)
  BY TakeLists
<1>2. TypeOK
  BY DEF IInv
<1>3. /\ s = mine[t] /\ k > 0 /\ useCount' = [useCount EXCEPT ![s] = useCount[s] + k]
      /\ centralLists' = centralLists
      /\ pc' = [pc EXCEPT ![t] = "idle"] /\ mine' = [mine EXCEPT ![t] = NoSpan]
  BY <1>1 DEF Taken, Take, Return, Goto
<1>4. \A r \in Spans : useCount'[r] = IF r = s THEN useCount[s] + k ELSE useCount[r]
  BY <1>2, <1>3 DEF TypeOK
<1>5. useCount[s] \in Nat
  BY <1>2 DEF TypeOK
<1>6. \A u \in Threads : u # t => pc'[u] = pc[u] /\ mine'[u] = mine[u]
  BY <1>2, <1>3 DEF TypeOK
<1> SUFFICES ASSUME NEW d \in Classes, NEW r \in ToSet(centralLists[d])
             PROVE  useCount'[r] > 0 \/ Awaited(r)'
  BY <1>3 DEF NothingHoarded, Awaited
<1>7. r \in Spans
  BY HandedOut DEF IInv, BucketsOK, Found
<1>8. CASE r = s
  BY <1>3, <1>4, <1>5, <1>7, <1>8
<1>9. CASE r # s
  <2>1. useCount[r] > 0 \/ Awaited(r)
    BY DEF NothingHoarded, Awaited
  <2>2. Awaited(r) => Awaited(r)'
    BY <1>3, <1>6, <1>9 DEF Awaited
  <2> QED  BY <1>4, <1>7, <1>9, <2>1, <2>2
<1> QED  BY <1>8, <1>9

(* A span just carved is awaited by the fetch that is about to take from it. *)
LEMMA CarveHoards ==
  ASSUME IInv, NothingHoarded, NEW t \in Threads, CarveAndPush(t)
  PROVE  NothingHoarded'
<1>0. PICK s, c : s = mine[t] /\ c = cls[t]
  OBVIOUS
<1>1. TypeOK /\ ThreadOK(t) /\ pc[t] = "carve"
  BY DEF IInv, ThreadsOK, CarveAndPush
<1>2. c \in Classes /\ s \in Spans
  <2>1. c \in Classes  BY <1>0, <1>1 DEF ThreadOK, Fetching
  <2>2. s \in used  BY <1>0, <1>1 DEF IInv, PrivateOK, PrivateSpan, Private
  <2> QED  BY <2>1, <2>2, HandedOut DEF IInv, Found
<1>3. /\ centralLists' = [centralLists EXCEPT ![c] = <<s>> \o centralLists[c]]
      /\ pc' = [pc EXCEPT ![t] = "take"] /\ UNCHANGED <<useCount, mine>>
  BY <1>0 DEF CarveAndPush, Goto
<1>4. centralLists[c] \in Seq(Spans)
  BY <1>1, <1>2 DEF TypeOK
<1>5. ToSet(<<s>> \o centralLists[c]) = ToSet(centralLists[c]) \cup {s}
  BY <1>2, <1>4, Pushed
<1>6. /\ pc'[t] = "take" /\ mine'[t] = s
      /\ \A u \in Threads : pc[u] = "take" => pc'[u] = "take" /\ mine'[u] = mine[u]
  BY <1>0, <1>1, <1>3 DEF TypeOK
<1> SUFFICES ASSUME NEW d \in Classes, NEW r \in ToSet(centralLists'[d])
             PROVE  useCount'[r] > 0 \/ Awaited(r)'
  BY DEF NothingHoarded, Awaited
<1>7. r = s \/ r \in ToSet(centralLists[d])
  <2>1. CASE d = c
    <3>1. centralLists'[c] = <<s>> \o centralLists[c]
      BY <1>1, <1>2, <1>3 DEF TypeOK
    <3> QED  BY <1>5, <2>1, <3>1
  <2>2. CASE d # c
    <3>1. centralLists'[d] = centralLists[d]
      BY <1>1, <1>3, <2>2 DEF TypeOK
    <3> QED  BY <3>1
  <2> QED  BY <2>1, <2>2
<1>8. CASE r = s
  BY <1>6, <1>8 DEF Awaited
<1>9. CASE r # s
  <2>1. useCount[r] > 0 \/ Awaited(r)
    BY <1>7, <1>9 DEF NothingHoarded, Awaited
  <2>2. Awaited(r) => Awaited(r)'
    BY <1>6 DEF Awaited
  <2> QED  BY <1>3, <2>1, <2>2
<1> QED  BY <1>8, <1>9

(* The count of the span whose object comes back stays above zero unless   *)
(* the span leaves.                                                        *)
LEMMA ReturnHoards ==
  ASSUME IInv, NothingHoarded, NEW t \in Threads, ReturnObject(t) \/ ReturnLastObject(t)
  PROVE  NothingHoarded'
<1>1. TypeOK /\ BucketsOK /\ pc[t] = "return" /\ queue[t] # <<>>
  BY DEF IInv, ReturnObject, ReturnLastObject
<1>2. PICK a, s, c : Fronted(t, a, s, c)
  BY <1>1, FrontOfQueue
<1>3. /\ s \in Spans /\ c \in Classes /\ objSize[s] = c /\ Central(s)
      /\ useCount[s] \in Nat /\ useCount[s] > 0
  BY <1>2 DEF Fronted
<1>4. \A u \in Threads : pc[u] = "take" => pc'[u] = "take" /\ mine'[u] = mine[u]
  BY <1>1 DEF ReturnObject, ReturnLastObject, Goto, TypeOK
<1>5. \A r : Awaited(r) => Awaited(r)'
  BY <1>4 DEF Awaited
<1>6. ASSUME NEW d \in Classes, NEW r \in ToSet(centralLists[d])
      PROVE  r \in Spans /\ objSize[r] = d /\ (useCount[r] > 0 \/ Awaited(r))
  BY <1>1, HandedOut DEF IInv, BucketsOK, Found, NothingHoarded, Awaited
<1>7. CASE ReturnObject(t)
  <2>1. /\ useCount[s] # 1 /\ useCount' = [useCount EXCEPT ![s] = useCount[s] - 1]
        /\ centralLists' = centralLists
    BY <1>2, <1>7 DEF ReturnObject, Fronted, LastOut
  <2>2. \A r \in Spans : useCount[r] > 0 => useCount'[r] > 0
    BY <1>1, <1>3, <2>1 DEF TypeOK
  <2> QED  BY <1>5, <1>6, <2>1, <2>2 DEF NothingHoarded, Awaited
<1>8. CASE ReturnLastObject(t)
  <2>1. /\ useCount' = [useCount EXCEPT ![s] = 0]
        /\ centralLists' = [centralLists EXCEPT ![c] = PC!Erase(centralLists[c], s)]
    BY <1>2, <1>8 DEF ReturnLastObject, Fronted
  <2>2. /\ centralLists[c] \in Seq(Spans) /\ IsInjective(centralLists[c])
        /\ s \in ToSet(centralLists[c])
    BY <1>1, <1>3 DEF TypeOK, BucketsOK, Central
  <2>3. ToSet(PC!Erase(centralLists[c], s)) = ToSet(centralLists[c]) \ {s}
    BY <2>2, Erased
  <2>4. ASSUME NEW d \in Classes, NEW r \in ToSet(centralLists'[d])
        PROVE  r \in ToSet(centralLists[d]) /\ r # s
    <3>1. CASE d = c
      <4>1. centralLists'[c] = PC!Erase(centralLists[c], s)
        BY <1>1, <1>3, <2>1 DEF TypeOK
      <4> QED  BY <2>3, <3>1, <4>1
    <3>2. CASE d # c
      <4>1. centralLists'[d] = centralLists[d]
        BY <1>1, <2>1, <3>2 DEF TypeOK
      <4> QED  BY <1>3, <1>6, <3>2, <4>1
    <3> QED  BY <3>1, <3>2
  <2>5. \A r \in Spans : r # s => useCount'[r] = useCount[r]
    BY <1>1, <2>1 DEF TypeOK
  <2> SUFFICES ASSUME NEW d \in Classes, NEW r \in ToSet(centralLists'[d])
               PROVE  useCount'[r] > 0 \/ Awaited(r)'
    BY DEF NothingHoarded, Awaited
  <2>6. r \in ToSet(centralLists[d]) /\ r # s
    BY <2>4
  <2> QED  BY <1>5, <1>6, <2>5, <2>6
<1> QED  BY <1>7, <1>8

(* Every step of the pool leaves no unused span behind in a bucket. *)
LEMMA HoardStep ==
  ASSUME IInv, NothingHoarded, Next
  PROVE  NothingHoarded'
<1>1. PICK t \in Threads : Call(t) \/ Work(t)
  BY DEF Next
<1>2. TypeOK
  BY DEF IInv
<1>3. CASE Call(t)
  <2>1. /\ UNCHANGED <<centralLists, useCount>>
        /\ pc[t] = "idle"
        /\ pc' = pc \/ \E label : pc' = [pc EXCEPT ![t] = label]
        /\ mine' = mine \/ \E s : mine' = [mine EXCEPT ![t] = s]
    BY <1>3 DEF Call, AllocHit, AllocMiss, AskCentral, AllocFirst, AllocLarge,
                AllocLargeThrows, FreeLarge, FreeSmall, FreeCold, Goto, centralVars,
                threadVars
  <2> QED  BY <1>2, <2>1, HoardStay DEF TypeOK
<1>4. CASE \/ MakeCache(t) \/ MakeCacheThrows(t) \/ LockToFetch(t) \/ FetchFound(t)
           \/ FetchEmpty(t) \/ GetSpan(t) \/ GetSpanThrows(t) \/ LockToReturn(t)
           \/ ReturnDone(t)
  <2>1. /\ UNCHANGED <<centralLists, useCount>>
        /\ pc[t] # "take"
        /\ \E label : pc' = [pc EXCEPT ![t] = label]
        /\ mine' = mine \/ \E s : mine' = [mine EXCEPT ![t] = s]
    BY <1>4 DEF MakeCache, AskCentral, MakeCacheThrows, LockToFetch, FetchFound,
                FetchEmpty, GetSpan, GetSpanThrows, LockToReturn, ReturnDone, Return,
                Goto, centralVars
  <2> QED  BY <1>2, <2>1, HoardStay DEF TypeOK
<1>5. CASE ReleaseSpan(t) \/ MergeStep(t)
  <2>1. /\ UNCHANGED <<centralLists, useCount>>
        /\ pc[t] # "take"
        /\ pc' = pc \/ \E label : pc' = [pc EXCEPT ![t] = label]
        /\ mine' = mine \/ \E s : mine' = [mine EXCEPT ![t] = s]
    BY <1>5 DEF ReleaseSpan, MergeStep, AfterRelease, Return, Goto, centralVars,
                threadVars
  <2> QED  BY <1>2, <2>1, HoardStay DEF TypeOK
<1>6. CASE Work(t)
  BY <1>4, <1>5, <1>6, TakeHoards, CarveHoards, ReturnHoards DEF Work
<1> QED  BY <1>1, <1>3, <1>6

(* A span none of whose objects is out goes back to the page cache: in a   *)
(* bucket it is only until the thread that made it takes from it.  So it   *)
(* is until a held span is merged.                                         *)
THEOREM NoSpanHoarded ==
  ASSUME NoHuge
  PROVE  Spec => [](PC!Intact => NothingHoarded)
<1> DEFINE Until == PC!Intact => NothingHoarded
<1>1. Init => Until
  <2>1. ToSet(<<>>) = {}  BY EmptyList
  <2> QED  BY <2>1 DEF Init, NothingHoarded
<1>2. UntilMerged /\ Until /\ [Next]_vars => Until'
  <2> SUFFICES ASSUME UntilMerged, Until, [Next]_vars, PC!Intact' PROVE NothingHoarded'
    OBVIOUS
  <2>0. IInv /\ NothingHoarded
    BY BeforeMerged DEF UntilMerged
  <2>1. CASE UNCHANGED vars
    BY <2>0, <2>1 DEF vars, centralVars, threadVars, NothingHoarded
  <2> QED  BY <2>0, <2>1, HoardStep
<1> QED  BY <1>1, <1>2, Invariance, PTL DEF Spec
-----------------------------------------------------------------------------
(***************************************************************************)
(* To its callers the pool is the abstract allocator: what is obtained is  *)
(* disjoint from all that is held, and stays where it is until it is       *)
(* freed, whatever the threads do in between.  It is the invariant read    *)
(* from outside.                                                           *)
(*                                                                         *)
(* Two hypotheses delimit it: no large span can be merged while it is held *)
(* (NoMergeableLarge), for else its pages are handed out again; and every  *)
(* size divides the span it is cut from, for else the last object reaches  *)
(* past its end.                                                           *)
(***************************************************************************)

(* Objects fill their spans, so that cutting never overruns one.           *)
SizesDivide == \A c \in Classes : (MovePages[c] * PageUnits) % ObjSize[c] = 0

-----------------------------------------------------------------------------
(* Where a block lies. *)

(* A multiple of the size before the end leaves room for one more.         *)
LEMMA RoomForOne ==
  ASSUME NEW size \in Nat \ {0}, NEW bytes \in Nat, bytes % size = 0,
         NEW i \in Nat, i < (bytes + size - 1) \div size
  PROVE  i * size \in Nat /\ i * size + size <= bytes
<1> DEFINE q == bytes \div size
           k == (bytes + size - 1) \div size
<1>1. q \in Nat /\ bytes = q * size
  BY Z3
<1>2. k \in Nat /\ k * size <= bytes + size - 1 /\ bytes + size - 1 < k * size + size
  BY bytes + size - 1 \in Nat
<1>3. i < k
  OBVIOUS
<1> HIDE DEF q, k
<1>4. k <= q
  <2>1. CASE q + 1 <= k
    <3>1. (q + 1) * size <= k * size  BY <1>1, <1>2, <2>1, TimesKeepsOrder
    <3>2. (q + 1) * size = q * size + size  BY <1>1
    <3>3. q * size \in Nat /\ k * size \in Nat  BY <1>1, <1>2
    <3> QED  BY <1>1, <1>2, <3>1, <3>2, <3>3
  <2> QED  BY <1>1, <1>2, <2>1
<1>5. (i + 1) * size <= q * size
  BY <1>1, <1>2, <1>3, <1>4, TimesKeepsOrder, i + 1 \in Nat, i + 1 <= q
<1>6. (i + 1) * size = i * size + size /\ i * size \in Nat
  OBVIOUS
<1> QED  BY <1>1, <1>5, <1>6

(* The objects cut from a span are its size apart, and the last one ends   *)
(* with the span when the size divides it.                                 *)
LEMMA CutFits ==
  ASSUME NEW s, pageId[s] \in Nat, n[s] \in Nat, n[s] > 0, NEW size \in Nat \ {0},
         (n[s] * PageUnits) % size = 0, NEW a \in ToSet(Carved(s, size))
  PROVE  \E i \in Nat : /\ a = pageId[s] * PageUnits + i * size
                        /\ i * size \in Nat /\ i * size + size <= n[s] * PageUnits
<1> DEFINE bytes == n[s] * PageUnits
           count == (bytes + size - 1) \div size
           q == Carved(s, size)
<1>1. bytes \in Nat /\ bytes + size - 1 \in Nat
  BY ClassesAssumption
<1>2. q \in Seq(Nat) /\ q = [i \in 1 .. count |-> pageId[s] * PageUnits + (i - 1) * size]
  <2>1. q \in Seq(Nat)  BY CarvedSound
  <2> QED  BY <2>1 DEF Carved
<1>3. PICK i \in 1 .. count : a = pageId[s] * PageUnits + (i - 1) * size
  <2>1. DOMAIN q = 1 .. count  BY <1>2
  <2>2. \E i \in 1 .. Len(q) : q[i] = a /\ i \in DOMAIN q
    <3>1. q \in Seq(Nat) /\ a \in ToSet(q)  BY <1>2
    <3> QED  BY <3>1, OnList, SMTT(20)
  <2> QED  BY <1>2, <2>1, <2>2
<1>4. count \in Nat /\ i \in Nat /\ i - 1 \in Nat /\ i - 1 < count
  BY <1>1, <1>3
<1>5. (i - 1) * size \in Nat /\ (i - 1) * size + size <= bytes
  <2> HIDE DEF bytes
  <2>1. bytes % size = 0  BY DEF bytes
  <2> QED  BY <1>1, <1>4, <2>1, RoomForOne DEF count
<1>6. \A j \in Nat :
        /\ a = pageId[s] * PageUnits + j * size
        /\ j * size \in Nat /\ j * size + size <= bytes
        => \E k \in Nat : /\ a = pageId[s] * PageUnits + k * size
                         /\ k * size \in Nat /\ k * size + size <= n[s] * PageUnits
  OBVIOUS
<1> QED  BY <1>3, <1>4, <1>5, <1>6

(* What a caller holds of span s: its first unit, or an object of a span   *)
(* in the bucket of its size.                                              *)
Held(a, s) ==
  /\ s \in used /\ Found(s) /\ SpanOf(a) = s
  /\ \/ objSize[s] = Large /\ a = pageId[s] * PageUnits
     \/ /\ objSize[s] \in Classes /\ n[s] = MovePages[objSize[s]]
        /\ a \in Objects(s)

(* Every object held is at home in a span handed out.                      *)
LEMMA HeldSpan ==
  ASSUME IInv, NEW a \in held
  PROVE  Held(a, SpanOf(a))
<1>1. CASE objSize[SpanOf(a)] = Large
  <2>1. SpanOf(a) \in used /\ a = pageId[SpanOf(a)] * PageUnits
    BY <1>1 DEF IInv, LargeOK
  <2> QED  BY <1>1, <2>1, HandedOut DEF Held, IInv
<1>2. CASE objSize[SpanOf(a)] # Large
  <2>1. a \in OutOfSpan
    BY <1>2, OutMembers
  <2>2. SpanOf(a) \in Spans /\ Central(SpanOf(a))
    BY <2>1 DEF IInv, HomesOK
  <2>3. a \in Objects(SpanOf(a))
    BY <2>1, <2>2 DEF IInv, SpansOK
  <2> QED  BY <2>2, <2>3, CentralSpan, HandedOut DEF Held, IInv
<1> QED  BY <1>1, <1>2

(* The same, of the state after a step.                                    *)
LEMMA HeldSpanAfter == IInv' => (\A a \in held : Held(a, SpanOf(a)))'
<1>1. IInv => \A a \in held : Held(a, SpanOf(a))
  BY HeldSpan
<1> QED  BY <1>1, PTL

(* What a caller may write to lies within the span.                        *)
Start(s) == pageId[s] * PageUnits
End(s) == Start(s) + n[s] * PageUnits

(* A block of `count' units at a, in span s.                               *)
Inside(a, s, count) ==
  /\ a \in Nat /\ count \in Nat /\ count > 0
  /\ Start(s) \in Nat /\ n[s] * PageUnits \in Nat
  /\ Start(s) <= a /\ a + count <= End(s)

(* A block that is held lies inside the span its address is mapped to.     *)
LEMMA BlockInside ==
  ASSUME SizesDivide, IInv, NEW a \in held
  PROVE  /\ Block(a).first = a
         /\ Inside(a, SpanOf(a), Block(a).count)
<1>0. PICK s : s = SpanOf(a)
  OBVIOUS
<1>1. Held(a, s)
  BY <1>0, HeldSpan
<1>2. /\ pageId[s] \in Nat /\ n[s] \in Nat /\ n[s] > 0 /\ s # NoSpan
      /\ PageUnits \in Nat /\ PageUnits > 0
  BY <1>1, ClassesAssumption DEF Held, Found
<1>3. Start(s) \in Nat /\ n[s] * PageUnits \in Nat /\ n[s] * PageUnits > 0
  <2>1. ASSUME NEW k \in Nat, k > 0 PROVE k * PageUnits \in Nat /\ k * PageUnits > 0
    <3>1. 1 * PageUnits <= k * PageUnits  BY <1>2, <2>1, TimesKeepsOrder
    <3> QED  BY <1>2, <2>1, <3>1
  <2> QED  BY <1>2, <2>1 DEF Start
<1>4. Block(a) = [first |-> a, count |-> IF objSize[s] = Large THEN n[s] * PageUnits
                                         ELSE ObjSize[objSize[s]]]
  BY <1>0, <1>2 DEF Block
<1>5. CASE objSize[s] = Large /\ a = pageId[s] * PageUnits
  BY <1>0, <1>3, <1>4, <1>5 DEF Inside, Start, End
<1>6. CASE /\ objSize[s] \in Classes /\ n[s] = MovePages[objSize[s]]
           /\ a \in Objects(s)
  <2>0. PICK size : size = ObjSize[objSize[s]]
    OBVIOUS
  <2>1. Block(a).count = size
    BY <1>4, <1>6, <2>0, NamesAssumption
  <2>2. size \in Nat \ {0} /\ (n[s] * PageUnits) % size = 0
    BY <1>6, <2>0, ClassesAssumption DEF SizesDivide
  <2>3. a \in ToSet(Carved(s, size))
    BY <1>6, <2>0 DEF Objects
  <2>4. PICK i \in Nat : /\ a = pageId[s] * PageUnits + i * size
                         /\ i * size \in Nat /\ i * size + size <= n[s] * PageUnits
    BY <1>2, <2>2, <2>3, CutFits
  <2> QED  BY <1>0, <1>3, <1>4, <2>1, <2>2, <2>4 DEF Inside, Start, End
<1> QED  BY <1>1, <1>5, <1>6 DEF Held

(* Every unit of a block is in a page of its span, which the map finds.    *)
LEMMA UnitsFound ==
  ASSUME SizesDivide, IInv, NEW a \in held, NEW u \in Nat,
         a <= u, u < a + Block(a).count
  PROVE  /\ SpanOf(u) = SpanOf(a) /\ PageOf(u) \in Pages
         /\ PageOf(u) * PageUnits <= u /\ u <= PageOf(u) * PageUnits + PageUnits - 1
<1>0. PICK s : s = SpanOf(a)
  OBVIOUS
<1>1. Held(a, s) /\ Inside(a, s, Block(a).count)
  BY <1>0, HeldSpan, BlockInside
<1>2. pageId[s] \in Nat /\ n[s] \in Nat /\ PageUnits \in Nat \ {0}
  BY <1>1, ClassesAssumption DEF Held, Found
<1>3. (pageId[s] + n[s]) * PageUnits = End(s)
  BY <1>2 DEF Start, End
<1>4. pageId[s] * PageUnits <= u /\ u < (pageId[s] + n[s]) * PageUnits
  <2>1. /\ Start(s) <= a /\ a + Block(a).count <= End(s) /\ Start(s) \in Nat
        /\ n[s] * PageUnits \in Nat /\ a \in Nat /\ Block(a).count \in Nat
    BY <1>1 DEF Inside
  <2>2. Start(s) = pageId[s] * PageUnits  BY DEF Start
  <2>3. End(s) \in Nat  BY <2>1 DEF End
  <2> QED  BY <1>3, <2>1, <2>2, <2>3
<1>5. Within(u, s)
  BY <1>2, <1>4, PageOfUnit DEF Within
<1>6. SpanOf(u) = s /\ s # NoSpan
  BY <1>1, <1>5 DEF Held, Found
<1>7. PageOf(u) \in Pages
  BY <1>6 DEF SpanOf, PC!MapGet
<1>8. PageOf(u) * PageUnits <= u /\ u <= PageOf(u) * PageUnits + PageUnits - 1
  BY <1>2 DEF PageOf
<1> QED  BY <1>0, <1>6, <1>7, <1>8

(* No unit belongs to two callers.                                         *)
LEMMA BlocksApart ==
  ASSUME SizesDivide, IInv, NEW a \in held, NEW b \in held, NEW u \in Nat,
         a <= u, u < a + Block(a).count, b <= u, u < b + Block(b).count
  PROVE  a = b
<1>0. PICK s : s = SpanOf(a)
  OBVIOUS
<1>1. SpanOf(b) = s
  BY <1>0, UnitsFound
<1>2. Held(a, s) /\ Held(b, s)
  BY <1>0, <1>1, HeldSpan
<1>3. CASE objSize[s] = Large
  BY <1>2, <1>3, NamesAssumption DEF Held
<1>4. CASE objSize[s] # Large
  <2>0. PICK size : size = ObjSize[objSize[s]]
    OBVIOUS
  <2>1. /\ objSize[s] \in Classes /\ n[s] = MovePages[objSize[s]]
        /\ a \in ToSet(Carved(s, size)) /\ b \in ToSet(Carved(s, size))
    BY <1>2, <1>4, <2>0 DEF Held, Objects
  <2>2. /\ size \in Nat \ {0} /\ (n[s] * PageUnits) % size = 0
        /\ pageId[s] \in Nat /\ n[s] \in Nat /\ n[s] > 0 /\ s # NoSpan
        /\ pageId[s] * PageUnits \in Nat
    BY <1>2, <2>0, <2>1, ClassesAssumption DEF SizesDivide, Held, Found
  <2>3. PICK i \in Nat : a = pageId[s] * PageUnits + i * size /\ i * size \in Nat
    BY <2>1, <2>2, CutFits
  <2>4. PICK j \in Nat : b = pageId[s] * PageUnits + j * size /\ j * size \in Nat
    BY <2>1, <2>2, CutFits
  <2>5. Block(a).count = size /\ Block(b).count = size
    BY <1>0, <1>1, <1>4, <2>0, <2>2 DEF Block
  <2>6. i * size < j * size + size /\ j * size < i * size + size
    BY <2>2, <2>3, <2>4, <2>5
  <2>7. ASSUME NEW x \in Nat, NEW y \in Nat, x < y PROVE x * size + size <= y * size
    <3>1. (x + 1) * size <= y * size  BY <2>2, <2>7, TimesKeepsOrder, x + 1 \in Nat
    <3> QED  BY <2>2, <3>1
  <2>8. i = j
    <3>1. ~(i < j)  BY <2>2, <2>3, <2>4, <2>6, <2>7
    <3>2. ~(j < i)  BY <2>2, <2>3, <2>4, <2>6, <2>7
    <3> QED  BY <3>1, <3>2
  <2> QED  BY <2>3, <2>4, <2>8
<1> QED  BY <1>3, <1>4

-----------------------------------------------------------------------------
(* What the steps do to what is held. *)

(* A span that something is held of is not given back, and none that is    *)
(* handed out changes its class.                                           *)
LEMMA SpansStay ==
  ASSUME NoHuge, IInv, Next
  PROVE  /\ \A a \in held : a \in held' => SpanOf(a) \in used'
         /\ \A s \in used : s \in used' => objSize'[s] = objSize[s]
<1>1. PICK t \in Threads : Call(t) \/ Work(t)
  BY DEF Next
<1>2. TypeOK /\ PrivateOK
  BY DEF IInv
<1>3. \A a \in held : SpanOf(a) \in used
  BY HeldSpan DEF Held
<1>4. CASE UNCHANGED <<used, objSize>>
  BY <1>3, <1>4
<1>5. CASE GetSpan(t)
  <2>1. PICK s \in Spans :
          PC!NewSpan(MovePages[cls[t]], TRUE, s) /\ objSize' = [objSize EXCEPT ![s] = cls[t]]
    BY <1>5 DEF GetSpan, FromPageCache
  <2>2. MovePages[cls[t]] \in CentralRequests
    BY <1>5 DEF IInv, ThreadsOK, ThreadOK, Fetching, GetSpan, CentralRequests
  <2>3. s \notin used /\ used' = used \cup {s}
    BY <2>1, <2>2, ObtainedSpan DEF IInv
  <2> QED  BY <1>2, <1>3, <2>1, <2>3, HandedOut DEF TypeOK, IInv, Found
<1>6. ASSUME NEW k \in LargeRequests, AllocLarge(t, k)
      PROVE  /\ \A a \in held : a \in held' => SpanOf(a) \in used'
             /\ \A s \in used : s \in used' => objSize'[s] = objSize[s]
  <2>1. PICK s \in Spans : PC!NewSpan(k, FALSE, s) /\ objSize' = [objSize EXCEPT ![s] = Large]
    BY <1>6 DEF AllocLarge
  <2>2. s \notin used /\ used' = used \cup {s}
    BY <2>1, ObtainedSpan DEF IInv
  <2> QED  BY <1>2, <1>3, <2>1, <2>2, HandedOut DEF TypeOK, IInv, Found
<1>7. CASE ReleaseSpan(t)
  <2>1. PC!StartRelease(mine[t]) /\ pc[t] = "pagelock" /\ objSize' = objSize
    BY <1>7, ReleaseSpanStarts DEF centralVars
  <2>2. used' = used \ {mine[t]}
    BY <2>1 DEF PC!StartRelease
  <2>3. \A a \in held : SpanOf(a) # mine[t]
    BY <1>2, <2>1 DEF PrivateOK, PrivateSpan, Private
  <2> QED  BY <1>3, <2>1, <2>2, <2>3
<1>8. ASSUME NEW k, AllocLargeThrows(t, k) PROVE UNCHANGED <<used, objSize>>
  BY <1>8 DEF AllocLargeThrows, PC!NewSpanThrows, centralVars
<1>9. CASE GetSpanThrows(t)
  <2>1. UNCHANGED <<used, objSize>>
    BY <1>9 DEF GetSpanThrows, PC!NewSpanThrows, centralVars
  <2> QED  BY <1>4, <2>1
<1>10. CASE MergeStep(t)
  <2>1. UNCHANGED <<used, objSize>>
    BY <1>10 DEF MergeStep, PC!ReleaseStep, PC!MergePrev, PC!StopPrev, PC!MergeNext,
             PC!FinishRelease, centralVars
  <2> QED  BY <1>4, <2>1
<1>11. \/ UNCHANGED <<used, objSize>>
       \/ GetSpan(t) \/ ReleaseSpan(t) \/ GetSpanThrows(t) \/ MergeStep(t)
       \/ \E k \in LargeRequests : AllocLarge(t, k) \/ AllocLargeThrows(t, k)
  BY <1>1 DEF Call, Work, AllocHit, AllocMiss, AskCentral, AllocFirst, MakeCache,
       MakeCacheThrows, LockToFetch, FetchFound, FetchEmpty, Take, CarveAndPush, FreeLarge,
       FreeSmall, FreeCold, LockToReturn, ReturnObject, ReturnLastObject, ReturnDone,
       pageVars, centralVars
<1> QED  BY <1>4, <1>5, <1>6, <1>7, <1>8, <1>9, <1>10, <1>11

(* A span's first unit is found to be in it.                               *)
LEMMA FirstUnit ==
  \A s, a : Found(s) /\ a = pageId[s] * PageUnits => Within(a, s) /\ SpanOf(a) = s
<1> SUFFICES ASSUME NEW s, NEW a, Found(s), a = pageId[s] * PageUnits
             PROVE  Within(a, s)
  BY DEF Found
<1>1. pageId[s] \in Nat /\ n[s] \in Nat /\ n[s] > 0 /\ PageUnits \in Nat \ {0}
  BY ClassesAssumption DEF Found
<1>2. a \in Nat /\ pageId[s] * PageUnits <= a /\ a < (pageId[s] + n[s]) * PageUnits
  <2>1. (pageId[s] + 1) * PageUnits <= (pageId[s] + n[s]) * PageUnits
    BY <1>1, TimesKeepsOrder, pageId[s] + 1 \in Nat, pageId[s] + n[s] \in Nat
  <2>2. (pageId[s] + 1) * PageUnits = pageId[s] * PageUnits + PageUnits
    BY <1>1
  <2>3. (pageId[s] + n[s]) * PageUnits \in Nat /\ pageId[s] * PageUnits \in Nat
    BY <1>1
  <2> QED  BY <1>1, <2>1, <2>2, <2>3
<1> QED  BY <1>1, <1>2, PageOfUnit DEF Within

(* FirstUnit, of the state after a step.                                   *)
LEMMA FirstUnitAfter ==
  (\A s, a : Found(s) /\ a = pageId[s] * PageUnits => Within(a, s) /\ SpanOf(a) = s)'
BY FirstUnit, PTL

(* The block of what is held throughout a step stays as it is.             *)
LEMMA BlockStays ==
  ASSUME NoHuge, IInv, IInv', Next, NEW a \in held, a \in held'
  PROVE  Block(a)' = Block(a)
<1>0. PICK s : s = SpanOf(a)
  OBVIOUS
<1>1. Held(a, s) /\ PageUnits \in Nat \ {0}
  BY <1>0, HeldSpan, ClassesAssumption
<1>2. s \in used /\ s \in used' /\ objSize'[s] = objSize[s]
  BY <1>0, <1>1, SpansStay DEF Held
<1>3. pageId'[s] = pageId[s] /\ n'[s] = n[s]
  <2>1. [PC!Next]_pageVars  BY UsesStep
  <2>2. op' # "corrupt"  BY DEF IInv, PCP!IInv, PCP!Intact
  <2> QED  BY <1>2, <2>1, <2>2, PageStep DEF IInv
<1>4. Found(s)'
  BY <1>2, HandedOutAfter DEF IInv
<1>5. Within(a, s)
  <2>1. CASE objSize[s] = Large
    BY <1>1, <2>1, NamesAssumption, FirstUnit DEF Held
  <2>2. CASE objSize[s] # Large
    <3>1. Central(s) /\ a \in Objects(s)
      <4>1. a \in OutOfSpan  BY <1>0, <2>2, OutMembers
      <4> QED  BY <1>0, <1>1, <2>2, <4>1 DEF IInv, HomesOK, Held
    <3> QED  BY <3>1, CentralSpan
  <2> QED  BY <2>1, <2>2
<1>6. SpanOf(a)' = s
  <2>1. Within(a, s)'  BY <1>3, <1>5 DEF Within, PageOf
  <2> QED  BY <1>4, <2>1 DEF Found
<1> QED  BY <1>0, <1>2, <1>3, <1>6 DEF Block

(* A run of the large path is one of those asked for.                      *)
AskedFor(a) == objSize[SpanOf(a)] = Large => n[SpanOf(a)] \in LargeRequests

(* Every step hands out one object, takes one back, or neither.            *)
LEMMA HeldStep ==
  ASSUME NoHuge, IInv, Next
  PROVE  \/ held' = held
         \/ \E h : held' = held \cup {h} /\ AskedFor(h)'
         \/ \E a \in held : held' = held \ {a}
<1>1. PICK t \in Threads : Call(t) \/ Work(t)
  BY DEF Next
<1>2. TypeOK
  BY DEF IInv
<1>3. ASSUME NEW c \in Classes, NEW h, objSize[SpanOf(h)] = c,
             UNCHANGED <<pageVars, objSize>>
      PROVE  AskedFor(h)'
  <2>1. SpanOf(h)' = SpanOf(h)  BY <1>3, Unmoved
  <2> QED  BY <1>3, <2>1, NamesAssumption DEF AskedFor
<1>4. ASSUME NEW c \in Classes, AllocHit(t, c)
      PROVE  \E h : held' = held \cup {h} /\ AskedFor(h)'
  <2>1. freeLists[t][c] \in Seq(Nat) /\ freeLists[t][c] # <<>>
    BY <1>2, <1>4 DEF TypeOK, AllocHit
  <2>2. PICK h : h = Head(freeLists[t][c])
    OBVIOUS
  <2>3. h \in InCache(t, c)
    BY <2>1, <2>2, Popped DEF InCache
  <2>4. objSize[SpanOf(h)] = c
    BY <2>3 DEF IInv, HomesOK
  <2>5. /\ held' = held \cup {h} /\ UNCHANGED <<pageVars, objSize>>
    BY <1>4, <2>2 DEF AllocHit, centralVars
  <2> QED  BY <1>3, <2>4, <2>5
<1>5. CASE Take(t)
  <2>1. PICK s \in Spans, c \in Classes, h \in Nat, more \in Seq(Nat), rest \in Seq(Nat),
             k \in Nat : Taken(t, s, c, h, more, rest, k)
    BY <1>5, TakeLists
  <2>2. /\ held' = held \cup {h} /\ h \in InSpan(s) /\ s \in ToSet(centralLists[c])
    BY <2>1 DEF Taken
  <2>3. objSize[s] = c /\ Central(s)
    BY <2>2 DEF IInv, BucketsOK, Central
  <2>4. SpanOf(h) = s
    <3>1. h \in Objects(s)  BY <2>2, <2>3 DEF IInv, SpansOK
    <3> QED  BY <2>3, <3>1, CentralSpan
  <2>5. UNCHANGED <<pageVars, objSize>>
    BY <1>5 DEF Take
  <2> QED  BY <1>3, <2>2, <2>3, <2>4, <2>5
<1>6. ASSUME NEW k \in LargeRequests, AllocLarge(t, k)
      PROVE  \E h : held' = held \cup {h} /\ AskedFor(h)'
  <2>1. PICK s \in Spans : /\ PC!NewSpan(k, FALSE, s)
                           /\ held' = held \cup {pageId'[s] * PageUnits}
    BY <1>6 DEF AllocLarge
  <2>2. n'[s] = k /\ Found(s)'
    BY <2>1, ObtainedSpan DEF IInv
  <2>3. PICK h : h = pageId'[s] * PageUnits
    OBVIOUS
  <2>4. SpanOf(h)' = s
    BY <2>2, <2>3, FirstUnitAfter
  <2>5. AskedFor(h)'
    BY <2>2, <2>4 DEF AskedFor
  <2> QED  BY <2>1, <2>3, <2>5
<1>7. ASSUME NEW a \in held, FreeLarge(t, a) \/ FreeSmall(t, a)
      PROVE  held' = held \ {a}
  BY <1>7 DEF FreeLarge, FreeSmall
<1>8. \/ held' = held
      \/ \E c \in Classes : AllocHit(t, c)
      \/ Take(t)
      \/ \E k \in LargeRequests : AllocLarge(t, k)
      \/ \E a \in held : FreeLarge(t, a) \/ FreeSmall(t, a)
  BY <1>1 DEF Call, Work, AllocMiss, AskCentral, AllocFirst, AllocLargeThrows, MakeCache,
       MakeCacheThrows, LockToFetch, FetchFound, FetchEmpty, GetSpan, GetSpanThrows,
       CarveAndPush, FreeCold, LockToReturn, ReturnObject, ReturnLastObject, ReturnDone,
       ReleaseSpan, MergeStep, cacheVars
<1> QED  BY <1>4, <1>5, <1>6, <1>7, <1>8

-----------------------------------------------------------------------------
(* The blocks from outside. *)

(* A block begins where its caller was told, and lies in pages that exist. *)
BlockOK(a) ==
  /\ Block(a).first = a /\ a \in Nat /\ Block(a).count \in Nat /\ Block(a).count > 0
  /\ \A u \in Nat : a <= u /\ u < a + Block(a).count =>
       \E p \in Pages : p * PageUnits <= u /\ u <= p * PageUnits + PageUnits - 1

(* A block is of a size on offer, or of whole pages.                       *)
Offered(a) ==
  \/ \E c \in Classes : Block(a) = [first |-> a, count |-> ObjSize[c]]
  \/ Block(a) = [first |-> a, count |-> n[SpanOf(a)] * PageUnits] /\ objSize[SpanOf(a)] = Large

Overlap(a, b) == \E u \in Nat : /\ a <= u /\ u < a + Block(a).count
                                /\ b <= u /\ u < b + Block(b).count

Outside ==
  /\ \A a \in held : BlockOK(a) /\ Offered(a)
  /\ \A a, b \in held : Overlap(a, b) => a = b

(* That is how the invariant looks from outside.                           *)
LEMMA SeenOutside ==
  ASSUME SizesDivide
  PROVE  IInv => Outside
<1> SUFFICES ASSUME IInv PROVE Outside
  OBVIOUS
<1>1. ASSUME NEW a \in held PROVE BlockOK(a)
  <2>1. /\ Block(a).first = a /\ a \in Nat /\ Block(a).count \in Nat
        /\ Block(a).count > 0
    BY BlockInside DEF Inside
  <2> QED  BY <2>1, UnitsFound DEF BlockOK
<1>2. ASSUME NEW a \in held PROVE Offered(a)
  <2>1. Held(a, SpanOf(a))  BY HeldSpan
  <2> QED  BY <2>1, NamesAssumption DEF Held, Found, Offered, Block
<1>3. ASSUME NEW a \in held, NEW b \in held, Overlap(a, b) PROVE a = b
  BY <1>3, BlocksApart DEF Overlap
<1> QED  BY <1>1, <1>2, <1>3 DEF Outside

(* SeenOutside, of the state after a step.                                 *)
LEMMA SeenOutsideAfter ==
  ASSUME SizesDivide
  PROVE  IInv' => Outside'
<1>1. IInv => Outside  BY SeenOutside
<1> QED  BY <1>1, PTL

(* No unit belongs to two callers.                                         *)
LEMMA CallersApart == Outside => HeldApart
<1> SUFFICES ASSUME Outside, NEW a \in held, NEW b \in held, Block(a) # Block(b),
                    NEW u \in Block(a).first .. Block(a).first + Block(a).count - 1,
                    u \in Block(b).first .. Block(b).first + Block(b).count - 1
             PROVE  FALSE
  BY DEF HeldApart, Blocks
<1>1. /\ Block(a).first = a /\ a \in Nat /\ Block(a).count \in Nat
      /\ Block(b).first = b /\ b \in Nat /\ Block(b).count \in Nat
  BY DEF Outside, BlockOK
<1>2. u \in Nat /\ a <= u /\ u < a + Block(a).count /\ b <= u /\ u < b + Block(b).count
  BY <1>1
<1>3. Overlap(a, b)
  BY <1>2 DEF Overlap
<1> QED  BY <1>3 DEF Outside

(* What is handed out is what Obtain hands out.                            *)
LEMMA HandsOut ==
  ASSUME NoHuge, SizesDivide, IInv, IInv', Next,
         NEW h, h \notin held, held' = held \cup {h}, AskedFor(h)'
  PROVE  Malloc!Next
<1>1. Outside'
  BY SeenOutsideAfter
<1>2. PICK r : r = Block(h)'
  OBVIOUS
<1>3. /\ r.first = h /\ h \in Nat /\ r.count \in Nat /\ r.count > 0
      /\ \A u \in Nat : h <= u /\ u < h + r.count =>
           \E p \in Pages : p * PageUnits <= u /\ u <= p * PageUnits + PageUnits - 1
  <2>1. BlockOK(h)'  BY <1>1 DEF Outside
  <2> QED  BY <1>2, <2>1 DEF BlockOK
<1>4. /\ r = [first |-> h, count |-> r.count]
      /\ r.count \in {ObjSize[c] : c \in Classes} \cup {k * PageUnits : k \in LargeRequests}
  <2>1. Offered(h)'  BY <1>1 DEF Outside
  <2>2. CASE \E c \in Classes : r = [first |-> h, count |-> ObjSize[c]]
    BY <2>2
  <2>3. CASE \E k \in LargeRequests : r = [first |-> h, count |-> k * PageUnits]
    BY <2>3
  <2> QED  BY <1>2, <2>1, <2>2, <2>3 DEF Offered, AskedFor
<1>5. \A a \in held : Block(a)' = Block(a)
  BY BlockStays
<1>6. Blocks' = Blocks \cup {r}
  BY <1>2, <1>5 DEF Blocks
<1>7. ASSUME NEW x \in Blocks
      PROVE  (x.first .. x.first + x.count - 1) \cap (r.first .. r.first + r.count - 1) = {}
  <2>1. PICK a \in held : x = Block(a)'
    BY <1>5 DEF Blocks
  <2>2. x.first = a /\ a \in Nat /\ x.count \in Nat
    <3>1. BlockOK(a)'  BY <1>1 DEF Outside
    <3> QED  BY <2>1, <3>1 DEF BlockOK
  <2>3. ~Overlap(a, h)'
    BY <1>1 DEF Outside
  <2>4. \A u \in Nat : ~(a <= u /\ u < a + x.count /\ h <= u /\ u < h + r.count)
    BY <1>2, <2>1, <2>3 DEF Overlap
  <2> QED  BY <1>3, <2>2, <2>4
<1> DEFINE Cells == UNION {p * PageUnits .. p * PageUnits + PageUnits - 1 : p \in Pages}
<1>8. \A u \in r.first .. r.first + r.count - 1 : u \in Cells
  <2> SUFFICES ASSUME NEW u \in r.first .. r.first + r.count - 1
               PROVE  u \in Cells
    OBVIOUS
  <2>1. u \in Nat /\ h <= u /\ u < h + r.count
    BY <1>3
  <2>2. PICK p \in Pages : p * PageUnits <= u /\ u <= p * PageUnits + PageUnits - 1
    BY <1>3, <2>1
  <2>3. p * PageUnits \in Int /\ p * PageUnits + PageUnits - 1 \in Int
    BY PagesAssumption, ClassesAssumption
  <2>4. u \in p * PageUnits .. p * PageUnits + PageUnits - 1
    BY <2>1, <2>2, <2>3
  <2> QED  BY <2>4
<1>9. h \in Cells
  <2>1. h \in r.first .. r.first + r.count - 1  BY <1>3
  <2> QED  BY <1>8, <2>1
<1>10. Malloc!Obtain(r.count)
  BY <1>4, <1>6, <1>7, <1>8, <1>9 DEF Malloc!Obtain, Malloc!CellsOf
<1> QED  BY <1>4, <1>10 DEF Malloc!Next

(* What is taken back is what GiveBack takes back.                         *)
LEMMA TakesBack ==
  ASSUME NoHuge, SizesDivide, IInv, IInv', Next,
         NEW a \in held, held' = held \ {a}
  PROVE  Malloc!Next
<1>1. Outside
  BY SeenOutside
<1>2. \A b \in held' : Block(b)' = Block(b)
  BY BlockStays
<1>3. \A b \in held : Block(b).first = b
  BY <1>1 DEF Outside, BlockOK
<1>4. Blocks' = Blocks \ {Block(a)}
  BY <1>2, <1>3 DEF Blocks
<1>5. Block(a) \in Blocks
  BY DEF Blocks
<1> QED  BY <1>4, <1>5 DEF Malloc!Next, Malloc!GiveBack

(* Every step of the threads is a step of the allocator, or one its        *)
(* callers do not see.                                                     *)
LEMMA MallocStep ==
  ASSUME NoHuge, SizesDivide
  PROVE  IInv /\ IInv' /\ [Next]_vars => [Malloc!Next]_Blocks
<1> SUFFICES ASSUME IInv, IInv', [Next]_vars PROVE [Malloc!Next]_Blocks
  OBVIOUS
<1>1. CASE UNCHANGED vars
  BY <1>1 DEF vars, pageVars, centralVars, cacheVars, Blocks, Block, SpanOf, PC!MapGet
<1>2. CASE Next /\ held' = held
  <2>1. \A a \in held : Block(a)' = Block(a)  BY <1>2, BlockStays
  <2> QED  BY <1>2, <2>1 DEF Blocks
<1>3. ASSUME Next, NEW h, held' = held \cup {h}, AskedFor(h)'
      PROVE  [Malloc!Next]_Blocks
  <2>1. CASE h \in held
    BY <1>2, <1>3, <2>1
  <2> QED  BY <1>3, <2>1, HandsOut
<1>4. ASSUME Next, NEW a \in held, held' = held \ {a}
      PROVE  [Malloc!Next]_Blocks
  BY <1>4, TakesBack
<1> QED  BY <1>1, <1>2, <1>3, <1>4, HeldStep

-----------------------------------------------------------------------------
(* No merge takes a span that is held when the only large spans are those  *)
(* no merge can reach.                                                     *)
LEMMA NeverMerged ==
  ASSUME NoMergeableLarge
  PROVE  Spec => []PC!Intact
<1>1. NoHuge /\ PCP!NoMergeableLarge
  BY PagesAssumption DEF NoHuge, NoMergeableLarge, PCP!NoMergeableLarge, PCP!Limit
<1>2. Spec => PC!Spec
  BY <1>1, PoolUsesPageCache DEF UsesPageCache
<1>3. PC!Init => PCP!Init
  BY SameInit
<1>4. [PC!Next]_(PC!vars) => [PCP!Next]_(PCP!vars)
  BY SameNext DEF pageVars, PC!vars
<1>5. PCP!Spec => []PCP!Intact
  BY <1>1, PageAssumptions, PCP!NeverCorrupted
<1>6. PCP!Intact => PC!Intact
  BY DEF PCP!Intact, PC!Intact
<1> QED  BY <1>2, <1>3, <1>4, <1>5, <1>6, PTL DEF PC!Spec, PCP!Spec

(* ConcurrentAlloc gives a caller units that no one else holds, for as     *)
(* long as it holds them, whatever the threads do: the three layers        *)
(* implement the abstract allocator, as long as no large span can be       *)
(* merged.                                                                 *)
THEOREM PoolIsAnAllocator ==
  ASSUME NoMergeableLarge, SizesDivide
  PROVE  Spec => ImplementsMalloc
<1>0. NoHuge
  BY PagesAssumption DEF NoHuge, NoMergeableLarge
<1>1. Init => Malloc!Init
  BY DEF Init, Malloc!Init, Blocks
<1>2. /\ UntilMerged /\ PC!Intact /\ UntilMerged' /\ PC!Intact' /\ [Next]_vars
        => [Malloc!Next]_Blocks
  BY <1>0, MallocStep DEF UntilMerged
<1> QED  BY <1>0, <1>1, <1>2, Invariance, NeverMerged, PTL
         DEF Spec, ImplementsMalloc, Malloc!Spec

(* No two callers hold the same unit of memory, until a held span is       *)
(* merged.                                                                 *)
THEOREM BlocksNeverShared ==
  ASSUME NoHuge, SizesDivide
  PROVE  Spec => [](PC!Intact => HeldApart)
<1>1. UntilMerged => (PC!Intact => HeldApart)
  BY SeenOutside, CallersApart DEF UntilMerged
<1> QED  BY <1>1, Invariance, PTL
=============================================================================
