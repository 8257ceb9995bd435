----------------------------- MODULE MemoryPool -----------------------------
(***************************************************************************)
(* The three layers of ConcurrentMemoryPool put together: threads that     *)
(* call ConcurrentAlloc and ConcurrentFree, each with its ThreadCache, the *)
(* CentralCache they share, and the PageCache below it.                    *)
(*                                                                         *)
(* Memory is counted in units, PageUnits of them to a page; an object is   *)
(* named by the unit it begins at.  A class stands for one size of         *)
(* SizeClass, and with it for one bucket of either cache.                  *)
(*                                                                         *)
(* A step is what a thread does between two points where another can get   *)
(* in its way: taking a bucket's mutex, the work under it, one turn of     *)
(* a merging loop.  _pageMtx is PageCache's `op': taken unless "idle".     *)
(***************************************************************************)
EXTENDS Integers, Sequences, FiniteSets, SequencesExt

CONSTANTS NPAGES, Pages, Granularity, Spans, NoSpan, LargeRequests,
          Threads,
          PageUnits,   \* units in a page
          Classes,     \* 1 .. number of size classes
          ObjSize,     \* class -> units of its objects
          MoveLimit,   \* class -> NumMoveSize of its size
          MovePages,   \* class -> NumMovePage of its size
          Large,       \* the _objSize of a span of the large path
          NoThread     \* owner of a free mutex

CentralRequests == {MovePages[c] : c \in Classes}

(* What PageCache assumes of the constants it shares. *)
ASSUME PagesAssumption ==
  /\ NPAGES \in Nat /\ NPAGES > 1 /\ Pages \subseteq Nat \ {0}
  /\ Granularity \in Nat \ {0} /\ NoSpan \notin Spans
  /\ LargeRequests \subseteq Nat \ {0}
ASSUME ClassesAssumption ==
  /\ PageUnits \in Nat \ {0}
  /\ \A c \in Classes : /\ ObjSize[c] \in Nat \ {0}
                        /\ MoveLimit[c] \in Nat \ {0, 1}
                        /\ MovePages[c] \in 1 .. NPAGES - 1
                        /\ ObjSize[c] <= MovePages[c] * PageUnits
ASSUME NamesAssumption == Large \notin Classes /\ NoThread \notin Threads

VARIABLES pageId, n, isUse, live, spanLists, idSpanMap, sysPages, used, op,
          releasing

PC == INSTANCE PageCache

VARIABLES objSize, useCount, freeList,  \* the descriptors' _objSize (as a class),
                                        \* _useCount and _freeList
          centralLists,  \* CentralCache::_spanLists, front first
          bucketMtx,     \* the owner of each bucket's mutex
          tcMtx,         \* ConcurrentAlloc's mutex: locked for good, or free
          cached,        \* threads whose pTLSThreadCache is set
          freeLists,     \* ThreadCache::_freeLists
          maxSize,       \* their _maxSize
          held,          \* objects callers hold
          pc,            \* where each thread stands
          cls,           \* the class it works for
          batch,         \* batchNum: objects it asks the central cache for
          mine,          \* the span it has from, or takes to, the page cache
          queue          \* objects on their way from its list to their spans

pageVars == <<pageId, n, isUse, live, spanLists, idSpanMap, sysPages, used, op,
              releasing>>
centralVars == <<objSize, useCount, freeList, centralLists, bucketMtx>>
cacheVars == <<tcMtx, cached, freeLists, maxSize, held>>
threadVars == <<pc, cls, batch, mine, queue>>
vars == <<pageVars, centralVars, cacheVars, threadVars>>

PageOf(a) == a \div PageUnits

(* PageCache::MapObjectToSpan. *)
SpanOf(a) == PC!MapGet(PageOf(a))

Init ==
  /\ PC!Init
  /\ objSize = [s \in Spans |-> Large]
  /\ useCount = [s \in Spans |-> 0]
  /\ freeList = [s \in Spans |-> <<>>]
  /\ centralLists = [c \in Classes |-> <<>>]
  /\ bucketMtx = [c \in Classes |-> NoThread]
  /\ tcMtx = "free"
  /\ cached = {}
  /\ freeLists = [t \in Threads |-> [c \in Classes |-> <<>>]]
  /\ maxSize = [t \in Threads |-> [c \in Classes |-> 1]]
  /\ held = {}
  /\ pc = [t \in Threads |-> "idle"]
  /\ cls = [t \in Threads |-> Large]
  /\ batch = [t \in Threads |-> 0]
  /\ mine = [t \in Threads |-> NoSpan]
  /\ queue = [t \in Threads |-> <<>>]

Goto(t, label) == pc' = [pc EXCEPT ![t] = label]

(* Back in the caller; the locals are gone. *)
Return(t) ==
  /\ Goto(t, "idle")
  /\ cls' = [cls EXCEPT ![t] = Large]
  /\ batch' = [batch EXCEPT ![t] = 0]
  /\ mine' = [mine EXCEPT ![t] = NoSpan]
  /\ queue' = [queue EXCEPT ![t] = <<>>]

Lock(t, c) == /\ bucketMtx[c] = NoThread
              /\ bucketMtx' = [bucketMtx EXCEPT ![c] = t]

\* Wrong form: the mutex is not let go.
UnlockForgotten(t, c) == UNCHANGED bucketMtx

Unlock(t, c) == bucketMtx' = [bucketMtx EXCEPT ![c] = NoThread]

-----------------------------------------------------------------------------
(* ConcurrentAlloc *)

(* A small object from the thread's own list. *)
AllocHit(t, c) ==
  /\ pc[t] = "idle"
  /\ freeLists[t][c] # <<>>
  /\ held' = held \cup {Head(freeLists[t][c])}
  /\ freeLists' = [freeLists EXCEPT ![t][c] = Tail(@)]
  /\ UNCHANGED <<pageVars, centralVars, tcMtx, cached, maxSize, threadVars>>

(* The list is empty: FetchFromCentralCache, slow start included. *)
AskCentral(t, c) ==
  /\ LET m == maxSize[t][c]
         b == IF m < MoveLimit[c] THEN m ELSE MoveLimit[c]
     IN  /\ batch' = [batch EXCEPT ![t] = b]
         /\ maxSize' = [maxSize EXCEPT ![t][c] = IF b = m THEN m + 1 ELSE m]
  /\ Goto(t, "lock")
  /\ UNCHANGED <<pageVars, centralVars, tcMtx, freeLists, held, mine, queue>>

AllocMiss(t, c) ==
  /\ pc[t] = "idle"
  /\ t \in cached
  /\ freeLists[t][c] = <<>>
  /\ cls' = [cls EXCEPT ![t] = c]
  /\ AskCentral(t, c)
  /\ UNCHANGED cached

(* The thread's first small request: it needs a ThreadCache. *)
AllocFirst(t, c) ==
  /\ pc[t] = "idle"
  /\ t \notin cached
  /\ cls' = [cls EXCEPT ![t] = c]
  /\ Goto(t, "tclock")
  /\ UNCHANGED <<pageVars, centralVars, cacheVars, batch, mine, queue>>

(* tcPool.New under tcMtx, and on with the request. *)
MakeCache(t) ==
  /\ pc[t] = "tclock"
  /\ tcMtx = "free"
  /\ cached' = cached \cup {t}
  /\ AskCentral(t, cls[t])
  /\ UNCHANGED cls

(* Its SystemAlloc throws, and nobody unlocks tcMtx. *)
MakeCacheThrows(t) ==
  /\ pc[t] = "tclock"
  /\ tcMtx = "free"
  /\ tcMtx' = "locked"
  /\ Goto(t, "thrown")
  /\ UNCHANGED <<pageVars, centralVars, cached, freeLists, maxSize, held, cls,
                 batch, mine, queue>>

LockToFetch(t) ==
  /\ pc[t] = "lock"
  /\ Lock(t, cls[t])
  /\ Goto(t, "scan")
  /\ UNCHANGED <<pageVars, objSize, useCount, freeList, centralLists, cacheVars,
                 cls, batch, mine, queue>>

HasFree(s) == freeList[s] # <<>>

(* GetOneSpan finds a span: the first of the bucket with free objects. *)
FetchFound(t) ==
  /\ pc[t] = "scan"
  /\ LET list == centralLists[cls[t]]
     IN  \E i \in DOMAIN list :
           /\ HasFree(list[i])
           /\ \A j \in 1 .. i - 1 : ~HasFree(list[j])
           /\ mine' = [mine EXCEPT ![t] = list[i]]
  /\ Goto(t, "take")
  /\ UNCHANGED <<pageVars, centralVars, cacheVars, cls, batch, queue>>

(* actualNum, when `want' objects are asked of s *)
Fetched(s, want) == IF want < Len(freeList[s]) THEN want ELSE Len(freeList[s])

\* Wrong forms: the last object taken stays in the span's list, ...
RestKeepsLast(s, want) == SubSeq(freeList[s], Fetched(s, want), Len(freeList[s]))

\* ... or the one after it is dropped.
RestDropsOne(s, want) == SubSeq(freeList[s], Fetched(s, want) + 2, Len(freeList[s]))

(* what they leave in the span's list *)
Rest(s, want) == SubSeq(freeList[s], Fetched(s, want) + 1, Len(freeList[s]))

\* Wrong forms: a batch counts as one object, ...
ChargedOnce(s, want) == useCount[s] + 1

\* ... or as what was asked for, not what there was.
ChargedAsked(s, want) == useCount[s] + want

(* and its _useCount with them out. *)
Charged(s, want) == useCount[s] + Fetched(s, want)

(* Up to batch objects of the span go to the thread, the first of them to  *)
(* the caller, the others on the thread's list.                            *)
Take(t) ==
  /\ pc[t] = "take"
  /\ LET c == cls[t]
         s == mine[t]
         took == SubSeq(freeList[s], 1, Fetched(s, batch[t]))
     IN  /\ freeList' = [freeList EXCEPT ![s] = Rest(s, batch[t])]
         /\ useCount' = [useCount EXCEPT ![s] = Charged(s, batch[t])]
         /\ held' = held \cup {Head(took)}
         /\ freeLists' = [freeLists EXCEPT ![t][c] = Tail(took) \o @]
         /\ Unlock(t, c)
  /\ Return(t)
  /\ UNCHANGED <<pageVars, objSize, centralLists, tcMtx, cached, maxSize>>

(* GetOneSpan finds none, and lets go of the bucket. *)
FetchEmpty(t) ==
  /\ pc[t] = "scan"
  /\ \A s \in ToSet(centralLists[cls[t]]) : ~HasFree(s)
  /\ Unlock(t, cls[t])
  /\ Goto(t, "newspan")
  /\ UNCHANGED <<pageVars, objSize, useCount, freeList, centralLists, cacheVars,
                 cls, batch, mine, queue>>

\* Wrong form: the span is not marked in use.
FromPageCacheUnmarked(c, s) == PC!NewSpan(MovePages[c], FALSE, s)

(* NewSpan(NumMovePage(size)), then _isUse set before _pageMtx is let go.  *)
FromPageCache(c, s) == PC!NewSpan(MovePages[c], TRUE, s)

(* Under _pageMtx: a span, marked in use and given its object size. *)
GetSpan(t) ==
  /\ pc[t] = "newspan"
  /\ \E s \in Spans :
       /\ FromPageCache(cls[t], s)
       /\ objSize' = [objSize EXCEPT ![s] = cls[t]]
       /\ mine' = [mine EXCEPT ![t] = s]
  /\ Goto(t, "carve")
  /\ UNCHANGED <<useCount, freeList, centralLists, bucketMtx, cacheVars, cls,
                 batch, queue>>

GetSpanThrows(t) ==
  /\ pc[t] = "newspan"
  /\ PC!NewSpanThrows(MovePages[cls[t]])
  /\ Goto(t, "thrown")
  /\ UNCHANGED <<centralVars, cacheVars, cls, batch, mine, queue>>

\* Wrong form: start <= end, one object too many.
CarvedToEnd(s, size) ==
  [i \in 1 .. ((n[s] * PageUnits) \div size + 1) |->
     pageId[s] * PageUnits + (i - 1) * size]

(* The span cut into objects: one at every size-th unit that lies before   *)
(* the end of the span.                                                    *)
Carved(s, size) ==
  LET bytes == n[s] * PageUnits
  IN  [i \in 1 .. (bytes + size - 1) \div size |->
         pageId[s] * PageUnits + (i - 1) * size]

(* The span is cut without a lock, then pushed under the bucket's, and it  *)
(* is the one GetOneSpan returns.                                          *)
CarveAndPush(t) ==
  /\ pc[t] = "carve"
  /\ Lock(t, cls[t])
  /\ freeList' = [freeList EXCEPT ![mine[t]] = Carved(mine[t], ObjSize[cls[t]])]
  /\ centralLists' = [centralLists EXCEPT ![cls[t]] = <<mine[t]>> \o @]
  /\ Goto(t, "take")
  /\ UNCHANGED <<pageVars, objSize, useCount, cacheVars, cls, batch, mine, queue>>

(* More than MAX_BYTES: whole pages, and _isUse stays as NewSpan left it. *)
AllocLarge(t, k) ==
  /\ pc[t] = "idle"
  /\ \E s \in Spans :
       /\ PC!NewSpan(k, FALSE, s)
       /\ objSize' = [objSize EXCEPT ![s] = Large]
       /\ held' = held \cup {pageId'[s] * PageUnits}
  /\ UNCHANGED <<useCount, freeList, centralLists, bucketMtx, tcMtx, cached,
                 freeLists, maxSize, threadVars>>

AllocLargeThrows(t, k) ==
  /\ pc[t] = "idle"
  /\ PC!NewSpanThrows(k)
  /\ Goto(t, "thrown")
  /\ UNCHANGED <<centralVars, cacheVars, cls, batch, mine, queue>>

-----------------------------------------------------------------------------
(* ConcurrentFree; the span and its _objSize are read without any lock. *)

FreeLarge(t, a) ==
  /\ pc[t] = "idle"
  /\ objSize[SpanOf(a)] = Large
  /\ held' = held \ {a}
  /\ mine' = [mine EXCEPT ![t] = SpanOf(a)]
  /\ Goto(t, "pagelock")
  /\ UNCHANGED <<pageVars, centralVars, tcMtx, cached, freeLists, maxSize, cls,
                 batch, queue>>

\* Wrong form: the list may reach maxSize.
TooLongPast(list, limit) == Len(list) > limit

(* Deallocate's test, after the push. *)
TooLong(list, limit) == Len(list) >= limit

(* Onto the thread's list; when that is full, ListTooLong takes the        *)
(* maxSize objects at its front.                                           *)
FreeSmall(t, a) ==
  /\ pc[t] = "idle"
  /\ t \in cached
  /\ objSize[SpanOf(a)] # Large
  /\ held' = held \ {a}
  /\ LET c == objSize[SpanOf(a)]
         list == <<a>> \o freeLists[t][c]
         m == maxSize[t][c]
     IN  IF TooLong(list, m)
         THEN /\ freeLists' = [freeLists EXCEPT ![t][c] = SubSeq(list, m + 1, Len(list))]
              /\ queue' = [queue EXCEPT ![t] = SubSeq(list, 1, m)]
              /\ cls' = [cls EXCEPT ![t] = c]
              /\ Goto(t, "retlock")
         ELSE /\ freeLists' = [freeLists EXCEPT ![t][c] = list]
              /\ UNCHANGED <<queue, cls, pc>>
  /\ UNCHANGED <<pageVars, centralVars, tcMtx, cached, maxSize, batch, mine>>

(* assert(pTLSThreadCache) stops the program. *)
FreeCold(t, a) ==
  /\ pc[t] = "idle"
  /\ t \notin cached
  /\ objSize[SpanOf(a)] # Large
  /\ Goto(t, "aborted")
  /\ UNCHANGED <<pageVars, centralVars, cacheVars, cls, batch, mine, queue>>

(* ReleaseListToSpans *)
LockToReturn(t) ==
  /\ pc[t] = "retlock"
  /\ Lock(t, cls[t])
  /\ Goto(t, "return")
  /\ UNCHANGED <<pageVars, objSize, useCount, freeList, centralLists, cacheVars,
                 cls, batch, mine, queue>>

\* Wrong forms: the count is tested before it goes down, ...
LastOutLate(s) == useCount[s] = 0

\* ... or one object too early.
LastOutEarly(s) == useCount[s] = 2

(* The object about to come back is the last of its span that is out. *)
LastOut(s) == useCount[s] = 1

(* One object back to its span, which has others out. *)
ReturnObject(t) ==
  /\ pc[t] = "return"
  /\ queue[t] # <<>>
  /\ LET a == Head(queue[t])
         s == SpanOf(a)
     IN  /\ ~LastOut(s)
         /\ freeList' = [freeList EXCEPT ![s] = <<a>> \o @]
         /\ useCount' = [useCount EXCEPT ![s] = @ - 1]
  /\ queue' = [queue EXCEPT ![t] = Tail(@)]
  /\ UNCHANGED <<pageVars, objSize, centralLists, bucketMtx, cacheVars, pc, cls,
                 batch, mine>>

(* The last object of its span: the span leaves the bucket. *)
ReturnLastObject(t) ==
  /\ pc[t] = "return"
  /\ queue[t] # <<>>
  /\ LET s == SpanOf(Head(queue[t]))
     IN  /\ LastOut(s)
         /\ useCount' = [useCount EXCEPT ![s] = 0]
         /\ centralLists' = [centralLists EXCEPT ![cls[t]] = PC!Erase(@, s)]
         /\ freeList' = [freeList EXCEPT ![s] = <<>>]
         /\ mine' = [mine EXCEPT ![t] = s]
  /\ queue' = [queue EXCEPT ![t] = Tail(@)]
  /\ Unlock(t, cls[t])
  /\ Goto(t, "pagelock")
  /\ UNCHANGED <<pageVars, objSize, cacheVars, cls, batch>>

ReturnDone(t) ==
  /\ pc[t] = "return"
  /\ queue[t] = <<>>
  /\ Unlock(t, cls[t])
  /\ Return(t)
  /\ UNCHANGED <<pageVars, objSize, useCount, freeList, centralLists, cacheVars>>

(* After _pageMtx is released: the large path returns, the other takes the *)
(* bucket's mutex again for the objects that are left.                     *)
AfterRelease(t) ==
  IF cls[t] = Large
  THEN Return(t)
  ELSE /\ mine' = [mine EXCEPT ![t] = NoSpan]
       /\ Goto(t, "retlock")
       /\ UNCHANGED <<cls, batch, queue>>

ReleaseSpan(t) ==
  /\ pc[t] = "pagelock"
  /\ \/ /\ PC!StartRelease(mine[t])
        /\ Goto(t, "merging")
        /\ UNCHANGED <<cls, batch, mine, queue>>
     \/ /\ PC!ReleaseHuge(mine[t])
        /\ AfterRelease(t)
  /\ UNCHANGED <<centralVars, cacheVars>>

MergeStep(t) ==
  /\ pc[t] = "merging"
  /\ PC!ReleaseStep
  /\ IF op' = "idle" THEN AfterRelease(t) ELSE UNCHANGED threadVars
  /\ UNCHANGED <<centralVars, cacheVars>>

-----------------------------------------------------------------------------
Running == \A t \in Threads : pc[t] # "aborted"

(* A thread in the middle of a call. *)
Work(t) ==
  /\ Running
  /\ \/ MakeCache(t) \/ MakeCacheThrows(t)
     \/ LockToFetch(t) \/ FetchFound(t) \/ FetchEmpty(t) \/ Take(t)
     \/ GetSpan(t) \/ GetSpanThrows(t) \/ CarveAndPush(t)
     \/ LockToReturn(t) \/ ReturnObject(t) \/ ReturnLastObject(t)
     \/ ReturnDone(t) \/ ReleaseSpan(t) \/ MergeStep(t)

(* A thread makes a call; any thread may free what another allocated. *)
Call(t) ==
  /\ Running
  /\ \/ \E c \in Classes : AllocHit(t, c) \/ AllocMiss(t, c) \/ AllocFirst(t, c)
     \/ \E k \in LargeRequests : AllocLarge(t, k) \/ AllocLargeThrows(t, k)
     \/ \E a \in held : FreeLarge(t, a) \/ FreeSmall(t, a) \/ FreeCold(t, a)

Next == \E t \in Threads : Call(t) \/ Work(t)

Spec == Init /\ [][Next]_vars

(* A thread that can go on with its call does: nothing but a mutex makes   *)
(* it wait.  No call is ever owed, and no mutex is promised to be fair.    *)
FairSpec == Spec /\ \A t \in Threads : WF_vars(Work(t))

-----------------------------------------------------------------------------
(* Properties *)

(* Every variable stays in its range. *)
TypeOK ==
  /\ PC!TypeOK
  /\ objSize \in [Spans -> Classes \cup {Large}]
  /\ useCount \in [Spans -> Nat]
  /\ freeList \in [Spans -> Seq(Nat)]
  /\ centralLists \in [Classes -> Seq(Spans)]
  /\ bucketMtx \in [Classes -> Threads \cup {NoThread}]
  /\ tcMtx \in {"free", "locked"}
  /\ cached \subseteq Threads
  /\ freeLists \in [Threads -> [Classes -> Seq(Nat)]]
  /\ maxSize \in [Threads -> [Classes -> Nat]]
  /\ held \subseteq Nat
  /\ pc \in [Threads -> {"idle", "tclock", "lock", "scan", "take", "newspan", "carve",
                         "retlock", "return", "pagelock", "merging", "thrown",
                         "aborted"}]
  /\ cls \in [Threads -> Classes \cup {Large}]
  /\ batch \in [Threads -> Nat]
  /\ mine \in [Threads -> Spans \cup {NoSpan}]
  /\ queue \in [Threads -> Seq(Nat)]

(* The linked lists of free objects, each with a name. *)
Chains == {<<"cache", t, c, freeLists[t][c]>> : t \in Threads, c \in Classes}
     \cup {<<"queue", t, 0, queue[t]>> : t \in Threads}
     \cup {<<"span", s, 0, freeList[s]>> : s \in Spans}

(* An object is with one owner: a caller, or one list, where it hangs      *)
(* once.  The link in its first bytes serves one list at a time.           *)
OneOwner ==
  /\ \A x \in Chains : /\ IsInjective(x[4])
                       /\ ToSet(x[4]) \cap held = {}
  /\ \A x, y \in Chains : x # y => ToSet(x[4]) \cap ToSet(y[4]) = {}

CentralSpans == UNION {ToSet(centralLists[c]) : c \in Classes}

(* Objects that have left their span. *)
OutOfSpan == {a \in held : objSize[SpanOf(a)] # Large}
        \cup (UNION {ToSet(freeLists[t][c]) : t \in Threads, c \in Classes})
        \cup (UNION {ToSet(queue[t]) : t \in Threads})

(* _useCount is the number of a span's objects that callers, thread caches *)
(* and threads on their way to it have: it may reach 0, and the span leave *)
(* for the page cache, only with the last of them back.                    *)
UseCountExact ==
  \A s \in Spans : useCount[s] = Cardinality({a \in OutOfSpan : SpanOf(a) = s})

(* No object of a span is lost: it is in the span's list or out of it.     *)
NoObjectLost ==
  \A c \in Classes : \A s \in ToSet(centralLists[c]) :
    ToSet(Carved(s, ObjSize[c])) =
      ToSet(freeList[s]) \cup {a \in OutOfSpan : SpanOf(a) = s}

(* The lock-free lookup of an object that is out of its span finds a span  *)
(* of the right bucket, in use and not on its way to the page cache.       *)
HomeListed ==
  /\ \A a \in OutOfSpan :
       LET s == SpanOf(a) IN s \in used /\ s \in ToSet(centralLists[objSize[s]])
  /\ \A t \in Threads, c \in Classes : \A a \in ToSet(freeLists[t][c]) :
       objSize[SpanOf(a)] = c
  /\ \A c \in Classes : IsInjective(centralLists[c])

(* A span none of whose objects is out does not stay in the central cache: *)
(* it is there only until the thread that made it takes from it.           *)
NothingHoarded ==
  \A c \in Classes : \A s \in ToSet(centralLists[c]) :
    useCount[s] > 0 \/ \E t \in Threads : pc[t] = "take" /\ mine[t] = s

(* What a thread keeps to itself is bounded: a list is shorter than its    *)
(* maxSize, which slow start moves no further than one past NumMoveSize.   *)
CacheBounded ==
  \A t \in Threads, c \in Classes : /\ Len(freeLists[t][c]) < maxSize[t][c]
                                    /\ maxSize[t][c] <= MoveLimit[c] + 1

(* The units a caller may write to, given what it asked for: none at an    *)
(* address the page map has no span for.                                   *)
Block(a) ==
  LET s == SpanOf(a)
  IN  [first |-> a,
       count |-> IF s = NoSpan THEN 0
                 ELSE IF objSize[s] = Large THEN n[s] * PageUnits
                 ELSE ObjSize[objSize[s]]]

Blocks == {Block(a) : a \in held}

(* No unit belongs to two callers. *)
HeldApart ==
  \A x, y \in Blocks :
    x # y => (x.first .. x.first + x.count - 1) \cap
             (y.first .. y.first + y.count - 1) = {}

(* To its callers the pool is an allocator of units: what one holds is its *)
(* own, unmoved and unchanged, until it frees it, whatever the threads do. *)
Malloc == INSTANCE RunAllocator
            WITH Cells <- UNION {p * PageUnits .. p * PageUnits + PageUnits - 1 :
                                   p \in Pages},
                 Requests <- {ObjSize[c] : c \in Classes}
                               \cup {k * PageUnits : k \in LargeRequests},
                 held <- Blocks

ImplementsMalloc == Malloc!Spec

(* The threads use the page cache as its specification assumes: one at a   *)
(* time, and giving back only a span they were given, once.                *)
UsesPageCache == PC!Spec

(* Waiting for a mutex that an exception has left locked, or past one. *)
Stranded(t) ==
  \/ pc[t] = "thrown"
  \/ pc[t] \in {"newspan", "pagelock"} /\ op = "thrown"
  \/ pc[t] = "tclock" /\ tcMtx = "locked"

(* If no more calls are made, those in progress end, unless an assertion   *)
(* stops the program.  When the system has refused memory to one of them,  *)
(* only the calls that need the mutex this one held wait for ever: none is *)
(* left waiting for a bucket (the locks of GetOneSpan, FetchRangeObj and   *)
(* ReleaseListToSpans, taken and let go by hand).                          *)
CallsEnd ==
  \/ []<><<\E t \in Threads : Call(t)>>_vars
  \/ <>[](\A t \in Threads : pc[t] = "idle" \/ Stranded(t))
  \/ <>(\E t \in Threads : pc[t] = "aborted")
=============================================================================
