------------------------------ MODULE PageCache ------------------------------
(***************************************************************************)
(* The page cache of ConcurrentMemoryPool (PageCache.cpp): spans of whole  *)
(* pages, cut from chunks of NPAGES-1 pages asked of the system, handed    *)
(* out by NewSpan and merged with their free neighbours when they come     *)
(* back through ReleaseSpanToPageCache.                                    *)
(*                                                                         *)
(* NewSpan runs under _pageMtx from beginning to end and is one action; a  *)
(* release is one action per turn of its two merging loops, because other  *)
(* threads read the page map without the lock while it runs.  `op' is      *)
(* where the holder of _pageMtx stands, "idle" when nobody holds it.       *)
(*                                                                         *)
(* A descriptor (struct Span) comes from an ObjectPool, of which only its  *)
(* promise is used here: New returns one that is not live.  Its contents   *)
(* stay readable after Delete, through the stale entries of the page map.  *)
(***************************************************************************)
EXTENDS Integers, Sequences

CONSTANTS NPAGES,          \* one more than the pages of the longest listed span
          Pages,           \* page numbers of the address space
          Granularity,     \* the system places allocations at multiples of it
          Spans,           \* descriptors of the pool
          NoSpan,          \* the null pointer
          CentralRequests, \* page counts GetOneSpan asks for
          LargeRequests    \* page counts ConcurrentAlloc asks for, past MAX_BYTES

ASSUME NPAGESAssumption   == NPAGES \in Nat /\ NPAGES > 1
ASSUME PagesAssumption    == Pages \subseteq Nat \ {0}
ASSUME GranularityAssumption == Granularity \in Nat \ {0}
ASSUME NoSpanAssumption   == NoSpan \notin Spans
ASSUME RequestsAssumption == /\ CentralRequests \subseteq 1 .. NPAGES - 1
                             /\ LargeRequests \subseteq Nat \ {0}

VARIABLES pageId, n, isUse,  \* the descriptors' _pageId, _n, _isUse
          live,              \* descriptors constructed and not yet deleted
          spanLists,         \* _spanLists: free spans by page count, front first
          idSpanMap,         \* _idSpanMap
          sysPages,          \* pages the system has given
          used,              \* spans handed out and not yet given back
          op,                \* progress of the holder of _pageMtx
          releasing          \* the span a release in progress is growing

vars == <<pageId, n, isUse, live, spanLists, idSpanMap, sysPages, used, op,
          releasing>>

Limit == NPAGES - 1

PagesOf(s) == pageId[s] .. (pageId[s] + n[s] - 1)

Range(list) == {list[i] : i \in DOMAIN list}

Listed == UNION {Range(spanLists[k]) : k \in 1 .. Limit}

(* PageMap1::get: no entry outside the table. *)
MapGet(page) == IF page \in Pages THEN idSpanMap[page] ELSE NoSpan

\* Wrong form: the node is cleared in its place instead of unlinked.
EraseLeavesNull(list, s) ==
  [i \in DOMAIN list |-> IF list[i] = s THEN NoSpan ELSE list[i]]

(* SpanList::Erase of a span that is on the list. *)
Erase(list, s) ==
  LET i == CHOOSE j \in DOMAIN list : list[j] = s
  IN  SubSeq(list, 1, i - 1) \o SubSeq(list, i + 1, Len(list))

(* The constructor of Span, run by ObjectPool::New on the descriptors S. *)
Constructed(S) == [s \in Spans |-> IF s \in S THEN FALSE ELSE isUse[s]]

(* ObjectPool::Delete writes its free-list link over _pageId; whatever     *)
(* that link is, it is no page of ours.                                    *)
Link == 0

Init ==
  /\ pageId = [s \in Spans |-> 0]
  /\ n = [s \in Spans |-> 0]
  /\ isUse = [s \in Spans |-> FALSE]
  /\ live = {}
  /\ spanLists = [k \in 1 .. Limit |-> <<>>]
  /\ idSpanMap = [p \in Pages |-> NoSpan]
  /\ sysPages = {}
  /\ used = {}
  /\ op = "idle"
  /\ releasing = NoSpan

-----------------------------------------------------------------------------
(* NewSpan(k).  inUse is what the caller makes of _isUse before it lets go *)
(* of _pageMtx: GetOneSpan sets it, ConcurrentAlloc does not.  s is the    *)
(* span returned.                                                          *)

(* SystemAlloc(k): k free pages in a row, beginning at `first', wherever   *)
(* the system likes.                                                       *)
SystemAlloc(k, first) ==
  /\ first % Granularity = 0
  /\ first .. (first + k - 1) \subseteq Pages \ sysPages
  /\ sysPages' = sysPages \cup first .. (first + k - 1)

(* More pages than a list can hold: straight from the system, and only     *)
(* the first page enters the map.                                          *)
NewHugeSpan(k, inUse, s) ==
  /\ k > Limit
  /\ s \notin live
  /\ \E first \in Pages :
       /\ SystemAlloc(k, first)
       /\ pageId' = [pageId EXCEPT ![s] = first]
       /\ idSpanMap' = [idSpanMap EXCEPT ![first] = s]
  /\ n' = [n EXCEPT ![s] = k]
  /\ isUse' = [Constructed({s}) EXCEPT ![s] = inUse]
  /\ live' = live \cup {s}
  /\ UNCHANGED spanLists

(* A span of exactly k pages is listed. *)
TakeWhole(k, inUse, s) ==
  /\ k <= Limit
  /\ spanLists[k] # <<>>
  /\ s = Head(spanLists[k])
  /\ spanLists' = [spanLists EXCEPT ![k] = Tail(@)]
  /\ idSpanMap' = [p \in Pages |-> IF p \in PagesOf(s) THEN s ELSE idSpanMap[p]]
  /\ isUse' = [isUse EXCEPT ![s] = inUse]
  /\ UNCHANGED <<pageId, n, live, sysPages>>

\* Wrong form: of the pages handed out, only the first is mapped.
MapAfterCutFirstOnly(first, total, k, s, rest) ==
  [p \in Pages |-> CASE p = first                             -> s
                     [] p \in {first + k, first + total - 1}  -> rest
                     [] OTHER                                 -> idSpanMap[p]]

\* Wrong form: the last page of what is left is not mapped.
MapAfterCutNoEnd(first, total, k, s, rest) ==
  [p \in Pages |-> CASE p \in first .. (first + k - 1)  -> s
                     [] p = first + k                   -> rest
                     [] OTHER                           -> idSpanMap[p]]

(* The page map after k pages were cut for s from the head of `total'      *)
(* pages beginning at `first', of which `rest' keeps the others.           *)
MapAfterCut(first, total, k, s, rest) ==
  [p \in Pages |-> CASE p \in first .. (first + k - 1)          -> s
                     [] p \in {first + k, first + total - 1}    -> rest
                     [] OTHER                                   -> idSpanMap[p]]

Cut(first, total, k, s, rest, lists, inUse) ==
  /\ s \notin live \cup {rest}
  /\ pageId' = [pageId EXCEPT ![s] = first, ![rest] = first + k]
  /\ n' = [n EXCEPT ![s] = k, ![rest] = total - k]
  /\ isUse' = [Constructed({s, rest} \ live) EXCEPT ![s] = inUse]
  /\ live' = live \cup {s, rest}
  /\ spanLists' = [lists EXCEPT ![total - k] = <<rest>> \o @]
  /\ idSpanMap' = MapAfterCut(first, total, k, s, rest)

NoneListed(low, high) == \A i \in low .. high : spanLists[i] = <<>>

(* The shortest longer span is cut in two. *)
SplitLonger(k, inUse, s) ==
  \E i \in k + 1 .. Limit :
    /\ NoneListed(k, i - 1)
    /\ spanLists[i] # <<>>
    /\ LET rest == Head(spanLists[i]) IN
         Cut(pageId[rest], n[rest], k, s, rest,
             [spanLists EXCEPT ![i] = Tail(@)], inUse)
    /\ UNCHANGED sysPages

(* Nothing long enough is listed: a chunk of Limit pages is asked of the   *)
(* system and listed, and the recursive call takes it whole or cuts it.    *)
GrowAndTake(k, inUse, s) ==
  /\ k <= Limit
  /\ NoneListed(k, Limit)
  /\ \E first \in Pages :
       /\ SystemAlloc(Limit, first)
       /\ IF k = Limit
          THEN /\ s \notin live
               /\ pageId' = [pageId EXCEPT ![s] = first]
               /\ n' = [n EXCEPT ![s] = Limit]
               /\ isUse' = [Constructed({s}) EXCEPT ![s] = inUse]
               /\ live' = live \cup {s}
               /\ idSpanMap' = [p \in Pages |->
                                  IF p \in first .. (first + Limit - 1)
                                  THEN s ELSE idSpanMap[p]]
               /\ UNCHANGED spanLists
          ELSE \E bigSpan \in Spans \ live :
                 Cut(first, Limit, k, s, bigSpan, spanLists, inUse)

NewSpan(k, inUse, s) ==
  /\ op = "idle"
  /\ \/ NewHugeSpan(k, inUse, s)
     \/ TakeWhole(k, inUse, s)
     \/ SplitLonger(k, inUse, s)
     \/ GrowAndTake(k, inUse, s)
  /\ used' = used \cup {s}
  /\ UNCHANGED <<op, releasing>>

(* The system refuses: SystemAlloc throws through NewSpan and its caller,  *)
(* neither of which unlocks _pageMtx on the way; the descriptor made for   *)
(* the chunk is lost.                                                      *)
NewSpanThrows(k) ==
  /\ op = "idle"
  /\ NoneListed(k, Limit)
  /\ op' = "thrown"
  /\ IF k > Limit THEN UNCHANGED live
                  ELSE \E bigSpan \in Spans \ live : live' = live \cup {bigSpan}
  /\ UNCHANGED <<pageId, n, isUse, spanLists, idSpanMap, sysPages, used,
                 releasing>>

-----------------------------------------------------------------------------
(* ReleaseSpanToPageCache(s): what no list can hold goes back to the       *)
(* system, while its entry stays in the map.                               *)

\* Wrong form: the pages are not given back to the system.
ReleaseHugeKeepsPages(s) ==
  /\ op = "idle"
  /\ n[s] > Limit
  /\ live' = live \ {s}
  /\ pageId' = [pageId EXCEPT ![s] = Link]
  /\ used' = used \ {s}
  /\ UNCHANGED <<n, isUse, spanLists, idSpanMap, sysPages, op, releasing>>

ReleaseHuge(s) ==
  /\ op = "idle"
  /\ n[s] > Limit
  /\ sysPages' = sysPages \ PagesOf(s)
  /\ live' = live \ {s}
  /\ pageId' = [pageId EXCEPT ![s] = Link]
  /\ used' = used \ {s}
  /\ UNCHANGED <<n, isUse, spanLists, idSpanMap, op, releasing>>

StartRelease(s) ==
  /\ op = "idle"
  /\ n[s] <= Limit
  /\ op' = "prev"
  /\ releasing' = s
  /\ used' = used \ {s}
  /\ UNCHANGED <<pageId, n, isUse, live, spanLists, idSpanMap, sysPages>>

PrevSpan == MapGet(pageId[releasing] - 1)
NextSpan == MapGet(pageId[releasing] + n[releasing])

\* Wrong forms: the neighbour may be in use, ...
MergeableInUse(t) == t # NoSpan /\ n[t] + n[releasing] <= Limit

\* ... or must be shorter than the longest a list holds.
MergeableBelowLimit(t) == /\ t # NoSpan
                          /\ ~isUse[t]
                          /\ n[t] + n[releasing] < Limit

(* None of the three conditions that end a merging loop holds for t. *)
Mergeable(t) == /\ t # NoSpan
                /\ ~isUse[t]
                /\ n[t] + n[releasing] <= Limit

IsListed(t) == t \in Range(spanLists[n[t]])

\* Wrong form: the neighbour's descriptor is not deleted.
AbsorbLeaks(t, first) ==
  /\ n' = [n EXCEPT ![releasing] = @ + n[t]]
  /\ pageId' = [pageId EXCEPT ![releasing] = first]
  /\ UNCHANGED live
  /\ IF IsListed(t)
     THEN spanLists' = [spanLists EXCEPT ![n[t]] = Erase(@, t)] /\ UNCHANGED op
     ELSE op' = "corrupt" /\ UNCHANGED spanLists

(* The descriptor of the neighbour t is deleted; the span being released   *)
(* now begins at `first'.                                                  *)
Drop(t, first) ==
  /\ pageId' = [pageId EXCEPT ![releasing] = first, ![t] = Link]
  /\ live' = live \ {t}

AbsorbListed(t, first) ==
  /\ IsListed(t)
  /\ spanLists' = [spanLists EXCEPT ![n[t]] = Erase(@, t)]
  /\ Drop(t, first)
  /\ UNCHANGED op

(* Nothing tells the code that t is on no list: its pages are taken all    *)
(* the same, and Erase follows t's pointers.  Either they are null and the *)
(* program ends there, before t is deleted, or they are what PopFront left *)
(* and t is deleted.  The release would go on and list pages that somebody *)
(* holds, in rings that no longer are what spanLists says: the model ends  *)
(* with this step, and what it promises, it promises up to it.             *)
AbsorbUnlisted(t, first) ==
  /\ ~IsListed(t)
  /\ \/ Drop(t, first)
     \/ pageId' = [pageId EXCEPT ![releasing] = first] /\ UNCHANGED live
  /\ op' = "corrupt"
  /\ UNCHANGED spanLists

(* The neighbour t joins the span being released. *)
Absorb(t, first) ==
  /\ n' = [n EXCEPT ![releasing] = @ + n[t]]
  /\ AbsorbListed(t, first) \/ AbsorbUnlisted(t, first)

\* Wrong form: the span grows at its end.
MergePrevUnmoved ==
  /\ op = "prev"
  /\ Mergeable(PrevSpan)
  /\ Absorb(PrevSpan, pageId[releasing])
  /\ UNCHANGED <<isUse, idSpanMap, sysPages, used, releasing>>

MergePrev ==
  /\ op = "prev"
  /\ Mergeable(PrevSpan)
  /\ Absorb(PrevSpan, pageId[PrevSpan])
  /\ UNCHANGED <<isUse, idSpanMap, sysPages, used, releasing>>

StopPrev ==
  /\ op = "prev"
  /\ ~Mergeable(PrevSpan)
  /\ op' = "next"
  /\ UNCHANGED <<pageId, n, isUse, live, spanLists, idSpanMap, sysPages, used,
                 releasing>>

\* Wrong form: the span is moved as if the neighbour came before it.
MergeNextMoved ==
  /\ op = "next"
  /\ Mergeable(NextSpan)
  /\ Absorb(NextSpan, pageId[NextSpan])
  /\ UNCHANGED <<isUse, idSpanMap, sysPages, used, releasing>>

MergeNext ==
  /\ op = "next"
  /\ Mergeable(NextSpan)
  /\ Absorb(NextSpan, pageId[releasing])
  /\ UNCHANGED <<isUse, idSpanMap, sysPages, used, releasing>>

FinishRelease ==
  /\ op = "next"
  /\ ~Mergeable(NextSpan)
  /\ LET s == releasing IN
       /\ spanLists' = [spanLists EXCEPT ![n[s]] = <<s>> \o @]
       /\ idSpanMap' = [p \in Pages |->
                          IF p \in {pageId[s], pageId[s] + n[s] - 1}
                          THEN s ELSE idSpanMap[p]]
       /\ isUse' = [isUse EXCEPT ![s] = FALSE]
  /\ op' = "idle"
  /\ releasing' = NoSpan
  /\ UNCHANGED <<pageId, n, live, sysPages, used>>

ReleaseStep == MergePrev \/ StopPrev \/ MergeNext \/ FinishRelease

-----------------------------------------------------------------------------
Next ==
  \/ \E k \in CentralRequests, s \in Spans : NewSpan(k, TRUE, s)
  \/ \E k \in LargeRequests, s \in Spans : NewSpan(k, FALSE, s)
  \/ \E k \in CentralRequests \cup LargeRequests : NewSpanThrows(k)
  \/ \E s \in used : ReleaseHuge(s) \/ StartRelease(s)
  \/ ReleaseStep

Spec == Init /\ [][Next]_vars

-----------------------------------------------------------------------------
(* Properties.  A span is active while somebody answers for its pages: its *)
(* holder, a list, or the release that is growing it.                      *)

Active == used \cup Listed \cup ({releasing} \ {NoSpan})

(* Every variable stays in its range.                                      *)
TypeOK ==
  /\ pageId \in [Spans -> Nat]
  /\ n \in [Spans -> Nat]
  /\ isUse \in [Spans -> BOOLEAN]
  /\ live \subseteq Spans
  /\ spanLists \in [1 .. Limit -> Seq(Spans)]
  /\ idSpanMap \in [Pages -> Spans \cup {NoSpan}]
  /\ sysPages \subseteq Pages
  /\ used \subseteq Spans
  /\ op \in {"idle", "prev", "next", "thrown", "corrupt"}
  /\ releasing \in Spans \cup {NoSpan}

(* No merge has taken a span that is on no list: one that is held, or one  *)
(* deleted that a huge span's entry still names.  That happens: see        *)
(* CorruptOnlyByLarge.  What is said below of spans, lists and the map     *)
(* holds until it does.                                                    *)
Intact == op # "corrupt"

(* No page belongs to two spans, whatever was cut and merged before: until *)
(* a held span is merged, two callers of NewSpan never share memory.       *)
SpansDisjoint ==
  Intact => \A s, t \in Active : s # t => PagesOf(s) \cap PagesOf(t) = {}

(* No page is lost or made up: the active spans cover exactly what the     *)
(* system gave, in the middle of a release too.                            *)
NoPageLost == Intact => sysPages = UNION {PagesOf(s) : s \in Active}

(* MapObjectToSpan, which takes no lock, finds the right descriptor for    *)
(* every page of a span that is held, until one that is held is merged;    *)
(* for a huge one, for its first page, the only one whose address its      *)
(* holder frees.                                                           *)
LookupExact ==
  Intact => \A s \in used : \A p \in PagesOf(s) :
              n[s] <= Limit \/ p = pageId[s] => MapGet(p) = s

(* A listed span can be found by the release of either neighbour, is not   *)
(* marked in use, and hangs on the list of its own length, once.           *)
FreeSpansFound ==
  Intact => \A k \in 1 .. Limit : \A i \in DOMAIN spanLists[k] :
    LET s == spanLists[k][i] IN
      /\ n[s] = k
      /\ ~isUse[s]
      /\ MapGet(pageId[s]) = s
      /\ MapGet(pageId[s] + k - 1) = s
      /\ \A j \in DOMAIN spanLists[k] : spanLists[k][j] = s => j = i

(* The span the loop a release stands in looks at. *)
Neighbour == IF op = "prev" THEN PrevSpan ELSE NextSpan

(* The one way to lose all this: the span taken for a free neighbour is    *)
(* held by somebody who obtained it through ConcurrentAlloc, which leaves  *)
(* _isUse unset.  Spans of the central cache are never taken.              *)
CorruptOnlyByLarge ==
  [][op' = "corrupt" /\ Intact => Neighbour \in used /\ ~isUse[Neighbour]]_vars

(* Descriptors are neither leaked nor used after Delete, but for the one   *)
(* lost when SystemAlloc throws, until the descriptor of a held span is    *)
(* deleted.                                                                *)
DescriptorsAccounted ==
  Intact => live = Active \/ (op = "thrown" /\ Active \subseteq live)

(* Two spans touch when one begins where the other ends. *)
Touch(s, t) == \/ pageId[t] + n[t] = pageId[s]
               \/ pageId[s] + n[s] = pageId[t]

(* A release goes on as long as it can: when its span is listed, no free   *)
(* span that touches it could have been merged as well.                    *)
FullyMerged ==
  \A t \in Listed : Touch(releasing, t) => n[t] + n[releasing] > Limit

ReleaseMergesFully == [][op = "next" /\ op' = "idle" => FullyMerged]_vars

(* A release only ever takes in spans that touch the one released.         *)
MergesOnlyNeighbours ==
  [][releasing # NoSpan => \A t \in live \ live' : Touch(releasing, t)]_vars

(* What the callers hold, and how they see the page cache: as an allocator *)
(* of runs of pages and nothing else, until the step that merges a held    *)
(* span, which takes its pages from its holder.                            *)
RunOf(s) == [first |-> pageId[s], count |-> n[s]]
HeldRuns == {RunOf(s) : s \in used}

Allocator == INSTANCE RunAllocator
               WITH Cells <- Pages,
                    Requests <- CentralRequests \cup LargeRequests,
                    held <- HeldRuns

ImplementsAllocator ==
  Allocator!Init /\ [][op' # "corrupt" => [Allocator!Next]_HeldRuns]_vars
=============================================================================
