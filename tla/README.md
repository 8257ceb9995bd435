# Verification of ConcurrentMemoryPool and Boost_Searcher

TLA+ models of the two C++ programs of this repository, TLC configurations that
check them on small instances, and TLAPS proofs that hold for every instance.
`src/ConcurrentMemoryPool` is a three-layer memory allocator in the manner of
tcmalloc. `src/Boost_Searcher` is a search engine for the Boost documentation: a
parser, an index, an HTTP server, a web page, and the part of `cppjieba` that
decides what a word is. The two programs share nothing, and neither do their models,
but for one walk over the numbers that both do arithmetic with.

## Inventory

### ConcurrentMemoryPool

| part | state | operations | talks to |
|---|---|---|---|
| `ConcurrentAlloc.h` | the thread-local `pTLSThreadCache`; the static `tcMtx` and `tcPool` | `ConcurrentAlloc`, `ConcurrentFree` | ThreadCache up to 256 KB, PageCache above |
| ThreadCache | per thread: 208 lists of free objects, each with `_maxSize`, `_size` | `Allocate`, `Deallocate`, `FetchFromCentralCache`, `ListTooLong` | CentralCache, in batches |
| CentralCache | 208 buckets of spans, a mutex each; per span its free objects and `_useCount` | `FetchRangeObj`, `GetOneSpan`, `ReleaseListToSpans` | PageCache for whole spans |
| PageCache | lists of free spans by length (1..128 pages), the page map, `_pageMtx` | `NewSpan`, `ReleaseSpanToPageCache`, `MapObjectToSpan` (no lock) | ObjectPool, PageMap, the system |
| SizeClass | none | `RoundUp`, `Index`, `NumMoveSize`, `NumMovePage` | used by all |
| Span, SpanList, FreeList | descriptors, linked lists | push, pop, insert, erase | |
| ObjectPool | a chunk being cut, a free list | `New`, `Delete` | the system |
| PageMap | arrays indexed by page number, of one, two or three levels | `get`, `set`, `Ensure` | |

What is hard here: the layers are called by many threads, and hand objects from
one to another; the mutexes are taken and let go by hand, in mid-loop and
mid-function; the page map is read without a lock while it changes and keeps
entries that nobody clears; spans are cut and merged in any order; a refused
system allocation throws through held mutexes; much rests on arithmetic at
boundaries. What makes the parts correct:

* PageCache: no page in two spans, none lost, lookups right at every moment,
  merging complete and only of free neighbours, descriptors neither leaked nor
  used twice, the rings of pointers whole.
* CentralCache and ThreadCache: an object has one owner, counts are exact, a
  span leaves only when nothing of it is out, caches are bounded, calls end.
* The whole: an allocator. What a caller holds is its own until it frees it.
* SizeClass and PageMap: an object is freed to the list it was allocated from, a list
  holds one size, and a page number has one place.

### Boost_Searcher

| part | state | operations | talks to |
|---|---|---|---|
| `start_linux.sh` | none | runs the parser if there is no `raw.txt`, then the server | parser, server |
| `parser.cpp` | `raw.txt`: records whose fields end in `\3` | `EnumFile`, `ParseHtml`, `SaveHtml` | the index, through the file |
| `index.hpp` | forward index, inverted index, the singleton pointer | `GetInstance`, `BuildIndex`, `GetForwardIndex`, `GetInvertedList` | tokenizer |
| `searcher.hpp` | none of its own | `InitSearcher`, `Search`, `GetDesc` | index, tokenizer |
| `cppjieba` (the part called) | dictionary and hidden Markov model, fixed | `CutForSearch`: separators, heaviest path, Viterbi, short words | |
| `http_server.cpp` | the searcher | `/s?word=` | the page |
| `wwwroot/index.html` | results, page number, history, `localStorage` | search, turn pages, search again | the server, by `$.ajax` |

Hard here: documents that drop out of the passes without a word, steps whose
failure is ignored and is met later by another program, two dynamic programs,
a text that is cut by one rule and searched for in another, offsets at the ends of
a document, answers that reach the page in another order than asked. What makes
the parts correct: what is served is what was parsed; the index agrees with the
documents; a search answers what reading all of them would; every rune of a text is in
one word, whatever stands around it; the page shows a page that exists of the results it
holds, and the last answer when searches do not overlap.

## Modules

| module | models | form |
|---|---|---|
| `RunAllocator` | what an allocator promises: runs of cells, obtained and given back, never overlapping | abstract specification |
| `PageCache` | `PageCache.cpp`, with the map, the lists and the descriptors | state machine |
| `PageCacheLinks` | the same with the rings of pointers and the pool of descriptors | state machine over `PageCache` |
| `SpanList` | `SpanList` of `Common.h`, `ObjectPool.h`: what memory holds after each call | operators |
| `MemoryPool` | `ConcurrentAlloc.h`, `ThreadCache.cpp`, `CentralCache.cpp`, over `PC == INSTANCE PageCache` | state machine |
| `SizeClass` | `SizeClass` of `Common.h`, and the count of objects cut from a span | operators |
| `PageMap` | `PageMap.h`, its three maps | operators |
| `ScanSearch` | what a search promises: the documents that hold a word, weightiest first | abstract specification |
| `SearchEngine` | `start_linux.sh`, `parser.cpp`, `index.hpp`, `searcher.hpp`, `http_server.cpp` | state machine |
| `Tokenizer` | what `JiebaUtil::CutString` does | operators |
| `Excerpt` | the offsets of `GetDesc` | operators |
| `SearchPage` | the script of `wwwroot/index.html` | state machine |
| `PageCacheProofs`, `PageCacheLinksProofs`, `MemoryPoolProofs`, `ArithmeticProofs`, `SearchEngineProofs`, `TokenizerProofs`, `SearchPageProofs` | theorems about the module each is named for; `TokenizerProofs` also about the engine with the tokenizer | TLAPS |
| `ListLemmas` | what pushing, popping and joining lists do to the things on them; folds, sums, walks along a list | TLAPS |
| `MCPageCache`, `MCPageCacheLinks`, `MCMemoryPool`, `MCTokenizer`, `MCSearchEngine`, `MCSearchPage`, `TokenizerData` | instances for TLC | |
| `MCArithmetic` | a walk over the numbers, for `SizeClass`, `PageMap` and `Excerpt` | |

`RunAllocator` is implemented twice: by `PageCache` with pages for cells, and by
`MemoryPool` with units of memory. `MemoryPool` calls the actions of `PageCache`
inside its own and is checked and proved to be a behaviour of it (`UsesPageCache`), so
that what is proved of the page cache holds of the one in the pool.
`PageCacheLinks` conjoins to every action of `PageCache` what it does to the
pointers; it can take no step `PageCache` cannot (`LinksRefine`). `MemoryPool` assumes of
its sizes what `ArithmeticProofs` proves of the real ones (`ClassesAssumption`, theorem
`SpanSuitsEverySize`). `SearchEngine` is written for any way to cut a text (`Cut`);
`MCSearchEngine` gives it `Tokenizer`'s. It implements `ScanSearch`, which knows no index and
no order of building one, and shares only the definition of a word with it.

Definitions called a "wrong form" are plausible slips in the code; each shows
that some property notices it (`mutants` in PROJECT.json). No specification uses
them.

### PageCache

The variables are the fields: `pageId`, `n`, `isUse` per descriptor, `spanLists`
per length with the front first, `idSpanMap`. `live` are the descriptors between
`New` and `Delete`; `sysPages` what the system has given; `used` (history) what
callers hold. `op` says where the holder of `_pageMtx` stands, "idle" when nobody
holds it.

* `NewSpan(k, inUse, s)` is one action, for it runs under `_pageMtx`; its
  disjuncts are the ways of the code: `NewHugeSpan` (11-24), `TakeWhole` (26-38),
  `SplitLonger` (40-72), `GrowAndTake` (73-84 with the recursive call). `inUse`
  is what the caller does with `_isUse` before letting go: the central cache
  sets it, the large path does not.
* `NewSpanThrows` is `SystemAlloc` failing: `_pageMtx` is not unlocked ("thrown").
* A release is one action per turn of its two loops: `StartRelease`, `MergePrev`*,
  `StopPrev`, `MergeNext`*, `FinishRelease`. So other threads' reads of the
  map, which take no lock, meet every state in between.
* A deleted descriptor keeps its contents but `_pageId`, over which ObjectPool
  writes its link; the map keeps its entry. Both are so in the code and are what
  the hazards of merging come from.
* A merge can meet a span that is on no list: a large one that is held. The code does not
  notice. It takes the span's pages (`_pageId` and `_n` of the one released grow), `Erase`
  follows the pointers the span has, and `Delete` puts its descriptor on the free list
  (149-157, 187-193). If the span was cut for its holder the pointers are null and the
  program ends in `Erase`; if it was taken whole, `PopFront` left them set, and the release
  goes on. `AbsorbUnlisted` is that step, with either end. `op` is "corrupt" from
  it on, and the model takes no more steps: the code would list the pages of the holder,
  map the last of them to the released span, and hand them out again, so that nothing
  that is said of the page cache need be true of it any longer. `Intact` says that it has not happened, and
  is written into every property it concerns: they say what holds until a held span
  is merged.

The system places an allocation anywhere among the free pages at a multiple of
`Granularity`.

### PageCacheLinks and SpanList

`memory` is `_next` and `_prev` of every descriptor and of the heads of the lists,
which are named by their numbers; `pool` is `_spanPool`: `_freeList`, the links that
`Delete` leaves inside dead descriptors, and which descriptors were ever cut from a
chunk. Each operation of `SpanList` is an operator from memory to memory, written
as the code is, pointer by pointer. `NewSpanLinked` decides as the code does, from
the rings (`Empty`) and from the pool (`Offers`), and must then agree with the
step `PageCache` takes on its sequences.

`PopFront` leaves the pointers of the span it takes as they are (`Common.h` 361-365). Nobody
reads them again but the `Erase` of a merge that takes the span while it is held, and
`AbsorbLinked` does go through them: the node before the span and the node behind it are
linked, whatever stands there now. A span listed since may so drop out of its ring: hold a span
of 2 pages taken whole from its list, list another of 2 pages, release a neighbour of the first,
and the list is empty in the head's pointers. `RingsAgree` and `PoolExact` hold up to that step;
the `Delete` that follows it puts a descriptor on the pool's free list while its holder has it.
Two kinds of pointers are cleared in the model to have fewer states: of a span marked
in use (`HandedOut`), which the central cache links into its own list and no merge
takes; and of a descriptor that is deleted, which only a merge by the stale entry of a
huge span could read, the step of run `stale` and the last one of the model.

### MemoryPool

Memory is counted in units, `PageUnits` to a page; an object is the unit it begins
at. Per thread, `pc` says where it stands:

    idle -> tclock -> lock                                 (first request: a ThreadCache)
    idle -> lock -> scan -> take -> idle                   (AllocMiss: fetch)
                    scan -> newspan -> carve -> take       (no span: GetOneSpan)
    idle -> retlock -> return -> idle                      (ListTooLong)
                       return -> pagelock -> merging -> retlock
    idle -> pagelock -> merging -> idle                    (FreeLarge)
    tclock, newspan, idle -> thrown;  idle -> aborted      (bad_alloc; assert)

A step is what lies between two points where another thread can interfere: the
work under a mutex is cut where the code reads something and acts on it later
(`scan`/`take`), where it turns a loop (`return`), and where it lets go of one
mutex to take another. `AllocHit` and `FreeSmall` touch only the thread's own
lists, apart from the lock-free lookup of the object's span. `aborted` stops the
program: the assertion a thread meets that frees and never allocated. A thread that
is `thrown` makes no more calls, and leaves `_pageMtx` or `tcMtx` locked, as the
code does.

Abstractions: the links inside objects and spans are sequences; a size is a class
with the three numbers SizeClass gives it; free memory's contents are not modelled.

### SizeClass, PageMap, Excerpt

With the code's numbers, or with any. `Word` is how many values `size_t` has; sums
wrap at it. The arrays of the page maps are functions, a level that is not allocated
is `Null`; `Visits` is the loop of `Ensure`, which gives up at a page past the last leaf.
Of an excerpt its ends are modelled. `end` begins as `size() - 1` and the excerpt stops before
it, so that the last byte of a document is never shown.

### Tokenizer

A text is a sequence of runes; the alphabet has a rune for each kind the code tells
apart: letters, digits, the dot, other ASCII, separators, characters that the
dictionary and the Markov model know and ones they do not, a byte that does not decode.
Weights are integers, MIN_DOUBLE included: `Absorb` does to a sum what adding a small
number to one of 10^100 does, and what adding two such gives. The recursive functions
follow the code's loops: `BestFrom` from the last rune to the first, `Viterbi` column
by column, `MixCut` and `HMMCut` run by run.

### SearchEngine

`site` is what lies under `data/input`; `disk` is `raw.txt`; `pc` says which program
runs: "script" none, "build" the server in `BuildIndex`, "serve" the server listening.

* `ParserCompletes`, `ParserCutShort`: the whole of `parser.cpp`, with any order the
  directory is listed in. The second leaves any first part of the text: a parser
  that is killed, and one whose disk is full, which reports success. A directory that
  does not exist (`NoSite`), and a file that cannot be opened, change nothing.
* `StartServer`, `IndexLine`, `Listen`: `BuildIndex`, a line at a time. A document's
  number is the length of the forward index when it is pushed. Without a
  `raw.txt`, `BuildIndex` fails and `InitSearcher` goes on, as the code does.
* `Search`, `Respond`: one query. The order of equal weights is `std::sort`'s, any.
* `StopServer`: the server ends, the script may be run again.

Text is a sequence of bytes and runes at once: the excerpt's steps are 1 back and 2 on
where the code's are 50 and 100 bytes, and `"<title>"` is one rune. The excerpt cut
inside a character is not modelled.

### SearchPage

A list of results is abstracted to the query it answers and its length; `inFlight` are
the requests sent. `Succeed(i)` and `Fail(i)` are the callbacks of any of them, in
any order; `Turn` the handlers of the page buttons; `Reload` the page loaded again, which
forgets what is in flight. `DisplayResults` ends where the code throws: reading the
length of `null`, which the server answers when nothing is found. `shown` is what is on
the screen, the numbers of the results and of the buttons. `last` and `overlapped`
are kept for the properties.

## Runs

Seven runs pass. TLC checks all safety properties at every reachable state:

| run | instance | question | states |
|---|---|---|---|
| `pages` | chunks of 3 pages, 6 pages, 7 descriptors; requests of 1 and 2 pages by the central cache, large ones of 2, 3 and 4 | until a held span is merged, are cutting, merging, rings and descriptors right in every order, and are the unmarked spans the only way to a wrong merge? | 75799 |
| `pool` | 2 threads, sizes of 1 and 4 units in spans of 1 and 2 pages, large requests of 2 pages | do counts, lists, spans and owners agree under every interleaving? | 678007 |
| `calls_end` | 2 threads, one size, large requests of 3 pages, which here are huge; with fairness | does every call end? | 657628 |
| `numbers` | 1 to 262144, as sizes, page numbers and lengths of a text | is the arithmetic right at every boundary? | 262144 |
| `tokens` | every text of up to 5 runes out of 8 | is a text cut into its words, wherever they stand? | 37449 |
| `search` | 4 sites of up to 7 files, 17 queries, an end of the parser at any byte | does the engine serve, find, rank and show what it should? | 6453 |
| `page` | queries of 0, 8 and 57 hits, 2 in flight, a history of 2 | is the page right in every order of answers and clicks? | 26596 |

Why these bounds are enough to meet the cases.

*Page cache.* Two chunks that touch and three pages each give every split (1+2, 2+1,
1+1+1, whole), merging on either side, on both, and merging refused because the
result would not fit a list (3+1 and up); three pages are also a large request that
fills a chunk, and four a huge one. Seven descriptors are as many as six pages can
need, and one more; so they are deleted and made again in every order.
*Pool.* Two pages of two units are a span of two small objects each, or one span of a
large one, so a batch of two can be served in full, in part, or need a second span; a
returned batch can hold objects of two spans and of two threads, can empty a span in
mid-list and go on, and the two spans then merge and serve the other size. Two
threads meet on a bucket, on `_pageMtx`, on `tcMtx`, and on opposite sides of the gap in
`GetOneSpan`. `MoveLimit` 2 lets `_maxSize` run its course (1, 2, 3). Descriptors and
threads are symmetric: nothing compares them. The liveness run has no symmetry.
*Numbers.* All sizes there are, and all page numbers of 19 bits, the map's width in a
32-bit program.
*Tokens.* Five runes hold a word of four and what stands beside it, two separators
with words around them, and runs of single runes at either side of ASCII.
*Search.* The sites have documents that share words, one with no content, one with a
separator in it, titles with tags, files of the wrong kind or without a title, no
files. A parser may end in a field, between two, and between two lines.
*Page.* Eight hits are exactly one page, 57 are eight pages: the window of five
buttons starts at each of its places. A history of two is full and pushed out; two in
flight give either order.

Deadlock checking is off where the program or the walk does stop: in the pool and the
page cache when `SystemAlloc` has thrown with a mutex locked or an assertion has failed
(that nothing else stops them is `CallsEnd`), and at the end of `numbers` and `tokens`. It
is on in `search` and `page`. Counters are bounded by the instances: pages and descriptors
by their sets, `MaxInFlight`, `MaxLen`, `To`; no other bound is added.

**Fairness.** `FairSpec` of `MemoryPool` is weak fairness of each thread's `Work`: a
thread in the middle of a call goes on if it can go on. Calls are never owed, and
`std::mutex` promises no fairness, so a thread can wait as long as others keep coming:
the property is that if calls stop being made, those in progress end, or some thread
has met an assertion; and after `bad_alloc` that only those wait for ever that wait for
the mutex it left locked (`Stranded`). `FairSpec` of `SearchPage` is weak fairness of the
callbacks: `$.ajax` calls `success` or `error` of each request. Searches need not end, so
`LoaderEnds` says that the loader is hidden again each time, not that it stays so.

### Disagreements between the code and what is said of it

Five runs expect a violation; each is a `finding` in PROJECT.json with the sentence
it contradicts.

| run | what the code does |
|---|---|
| `unmarked` | large spans of up to 128 pages are held without `_isUse`; their neighbour's release takes their pages, erases them through the pointers they were left with, and deletes their descriptor |
| `stale` | the map entry of a released huge span stays, and a merge may follow it when the descriptor is used again |
| `overrun` | the last object of a span may end beyond it, when the size does not divide the span (24 bytes: 16 bytes over) |
| `no_match` | an answer without hits is `null`, on which the page's script fails before it tells the user |
| `line_ends` | the parser joins lines without a blank; the last word of one and the first of the next are indexed as one |

The passing runs and the theorems say what holds besides: the unmarked spans are the only
way to a wrong merge as long as no request is huge (`pages` shows it, with huge spans
given back whole, and `OnlyLargeCorrupt` proves it); until that merge, and for good when large
requests are of the one length it cannot reach, the page cache is an allocator (`Refinement`,
`RefinementForGood`); the excerpt shows the place of the word but for that byte (`ExcerptsSound`); sizes that divide their span
never overlap (`pool`), and `LastCutEverySize` says exactly which sizes do.

The sixth finding is what a passing run states. The comment of `GetDesc` says that the excerpt
goes to the end of the document when fewer than 100 bytes follow the word
(`searcher.hpp:124`). The code takes `size() - 1` for the end and stops before it (142, 149): the
last byte is in no excerpt, and a word that ends a document loses its last byte.
`ExcerptsSound` says so of every document and every place in it (run `numbers`, and for any
length `ExcerptsSoundEverywhere`).

Other disagreements are steps of the models that the properties except by name: a
thread that only frees ends the program (`FreeCold`); `bad_alloc` leaves `_pageMtx` or
`tcMtx` locked for good (`GetSpanThrows`, `AllocLargeThrows`, `MakeCacheThrows`); a
document with no content is not indexed (`Fit`), and one with a separator in it is not, or
in other parts (`NoSeparators`); a text with one
byte that does not decode has no words (`Decodes`); a title with a tag in it can be found
by a word its content does not have (`None1` in `HitsHaveExcerpts`); when two searches
overlap, the later answer stays, whichever query it is for (`overlapped`).

## Proofs

All proofs are checked by tlapm with SMT (Z3), Zenon and LS4. Every theorem is for any
constants that satisfy the assumptions of its module, and for any number of threads,
pages, descriptors, sizes, documents, requests, and texts of any length. The safety
properties of all passing runs are among the theorems. Three hypotheses appear beyond them, each
because without it the code does not do what the theorem says, as a run shows:

| hypothesis | says | without it | where the code meets it |
|---|---|---|---|
| `NoHuge` | `LargeRequests \subseteq 1 .. Limit` | a huge span's entry in the map outlives it, and a merge may follow it (run `stale`) | requests of at most 128 pages, 1 MB |
| `NoMergeableLarge` | `LargeRequests \subseteq {Limit}` | a large span is merged while it is held, and what is promised ends there (run `unmarked`) | no large requests, or of 128 pages, which a merge can make no longer |
| `SizesDivide` | every size divides its span | the last object ends in the next span (run `overrun`) | the sizes `LastCutEverySize` tells apart |

What some theorems of `SearchEngine` ask of `Cut`, which stands for the segmenter, is said
with them; `Tokenizer` is proved to meet it.

**PageCacheProofs**, under `NoHuge`: `Typing`, `PagesNeverShared`, `PagesConserved`,
`LookupsCorrect`, `ListsSound`, `MergingIsMaximal`, the properties of run `pages`; and
`Refinement`, that every step is one of the allocator of runs. They are promises until a
held span is merged, and say so: `Intact` is a premise of each of the properties, and
`Refinement` excepts the step of that merge alone. `OnlyLargeCorrupt` says which span that step
takes: one of the large path, never one of the central cache. Under `NoMergeableLarge` it is
never taken: `NeverCorrupted` is `Intact` for good, and with it `RefinementForGood` is the
refinement without exception, `Spec => Allocator!Spec`.

The properties are not inductive. The strengthening `IInv` adds to them what
makes the merging loops right: every listed span has both its end pages mapped to
it and is unmarked (`FreeOK`), every span held has all its pages mapped (`UsedOK`), the
released span is in neither place (`RelOK`); spans are apart (`Apart`), cover the
system's pages (`Covered`), use up the live descriptors (`LiveOK`), and a page outside them has no entry
(`Unmapped`), so that an entry that is found next to a span names a span that touches it.
Entries inside a free span may be stale, and the invariant says no more of them,
because the loops only look at pages that border a span. `NeverCorrupted` needs one part
more, `KeptOK`: a span held is marked, or so long that no merge fits a list. There is
one lemma per action; `Invariance` puts them together.

**PageCacheLinksProofs**, with no hypothesis on requests: `TypingAlways` and `LinksRefine`;
and, until a span that is on no list is merged, `DescriptorsAlways` (no descriptor leaked, none
used after `Delete`), `RingsExact` and `PoolAlwaysExact`. That merge is the one step they
cannot have: it deletes a descriptor somebody holds and erases through pointers nobody
keeps up (`LinksUntilMerged` is the invariant, `LinksOK` what holds before). What keeps descriptors apart does not depend on
what pages they stand for, so that this argument needs neither the map nor the
geometry of spans: `DescriptorsOK` says that what is listed, held and being released
are live and different descriptors, that each list has spans of its length, each
once, and that the map names descriptors. `LinksOK` joins to it that every list is a
ring (`Rings`: at each place, from either end, the pointers lead to the next one and
back) and that the links left inside dead descriptors are the free list of the pool
(`PoolOK`). `RingPushed`, `RingErased` and `RingStays` are the three things that happen
to a ring, `PoolNew` and `PoolDelete` the two that happen to the pool; then `NewSpan` and
the release are followed path by path (`HugeLinks`, `WholeLinks`, `SplitLinks`,
`GrowLinks`, `ThrowsLinks`, `HugeReleaseLinks`, `AbsorbLinks`, `FinishLinks`). It is
erasing from a ring that needs the lists apart: the pointers of one span are changed
through its neighbours.

**MemoryPoolProofs**, under `NoHuge`: `PoolTyping`, `ObjectsHaveOneOwner`, `CountsExact`,
`ObjectsConserved`, `HomesFound`, `CachesBounded`, `NoSpanHoarded` are all the safety
invariants of run `pool`, each until a held span is merged (`PC!Intact`, a premise of each
of them, which run `pool` meets always: its large request fills a chunk).
`PoolUsesPageCache` is the refinement of the page cache, without that premise.
The invariant `IInv`, which holds until then (`UntilMerged`), has the page cache's, taken over by instance (`PCP!IInv`), and
besides it says where each object is and what each thread in mid-call may rely on:
spans of a bucket are held of the page cache and cut for its class (`BucketsOK`); every
object of such a span is in it or out of it, and `_useCount` is what its list lacks
(`SpansOK`); an object that is out is found by the page map in the bucket of its size
(`HomesOK`); what is held of a large span is its first unit (`LargeOK`); no object is in
two places or twice in one list (`ListsApart`); a thread has the mutex its place in the
code says, and its locals hold what they should, the span `Scan` found among them
(`ThreadsOK`); and the span a thread carves or gives back is that thread's alone
(`PrivateOK`), though no bucket's mutex is held over it. This last part is the least obvious
of the code: `GetOneSpan` cuts its objects with the bucket unlocked, and
`ReleaseListToSpans` lets go of the bucket before it takes `_pageMtx`. Each step keeps
each part, one lemma to a step. `ListsBounded` (for `CachesBounded`) and `NothingHoarded`
are inductive relative to `IInv`.

The same module, under `NoMergeableLarge` and `SizesDivide`: `PoolIsAnAllocator`, that all three
layers with any number of threads implement `RunAllocator`, the same abstract allocator the
page cache implements, with units of memory for cells. It needs that no held span is ever
merged (`NeverMerged`, from `NeverCorrupted` of the page cache). Under `NoHuge` and `SizesDivide`,
until one is: `BlocksNeverShared`. An object
is inside its span and a span inside the system's pages (`BlockInside`), two objects of one span
do not overlap when the size divides it, and those of two spans do not for the spans
are apart (`BlocksApart`); what a caller holds stays where it is while other threads cut,
merge and give back (`BlockStays`, `HeldStep`), so that a step is an obtaining
(`HandsOut`), a giving back (`TakesBack`), or neither.

**ArithmeticProofs**. Of `SizeClass`, for every size and every `Word` that holds twice
MAX_BYTES: `SameListEverySize`, `OneSizeEveryList`, `ListExistsEverySize`,
`LittleWasteEverySize`, `SpanSuitsEverySize`, `LastCutEverySize`, together
`SizesSoundEverywhere`; `ListsAlwaysInOrder`, for a walk from any size to any;
`OverrunOf24`, which ties the run `overrun` to the real numbers; and
`LargestRequestsWrap`: a request from the last page of `size_t` is rounded up to
zero pages, which NewSpan asserts it is never asked for. The argument goes
tier by tier (`Tier1` to `Tier5`): within one the rounded size and the list are both
linear in the same quotient. Of `Excerpt`, `ExcerptsSoundEverywhere`, for a document of any
length and any two steps: the place is shown exactly when it is not the last byte. Of `PageMap`, for arrays of any lengths:
`PlacesExactEverywhere`, a page number has its own place in either tree, from the facts
that there is one quotient (`QuotientOnly`) and that dividing twice is dividing by the
product (`QuotientOfQuotient`); and `TwoLevelsAreAMap`, `ThreeLevelsAreAMap`: from it, `get` after
`set` answers what was set, and everywhere else what it answered before, through the
arrays that `Ensure` allocates on the way. `EnsureExactEverywhere` is about the loop of
`TCMalloc_PageMap3::Ensure`: for leaves of any length and any number, it goes to the leaf of
every page it is asked for that has one (`NoLeafLeft` at the end of the tree) and to no other. What is left of the loop from a page on is the leaves from
that page on (`LeavesFrom`), by induction on the distance to the last page (`LoopSolved`);
one turn of it is `OneLeafOn`. With it `PageMapSoundEverywhere` has the run's property at every page
number. `PageCache` models the map as a function; these theorems are why any of the three
would do.

**SearchEngineProofs**: `IndexAlwaysExact`, with no hypothesis, for any way `Cut` to cut a
text into words and any sites: while `BuildIndex` goes on and after it, each inverted list
names the documents pushed so far that hold its word, each once, with its weight, in order
of their numbers (`ListExact`). The proof looks at one line (`LineInv`): the list of each of its
words grows by one posting, of the greatest number (`ListOfWord`), and the others,
whose words the document does not hold, stay as they were (`ListAfter`). `TypingAlways`
assumes of `Cut` that it makes a sequence of words of any text (`CutsIntoWords`): then the
number of times a word occurs is one (`TimesFinite`) and weights are positive
(`WeightPositive`). Only texts are ever cut: queries are (`QueriesAssumption`), and titles and
contents that are served too (`TextsAlways`, from the invariant of `ServedAsParsed`).

On the same assumption `SearchIsScan`: the engine implements `ScanSearch`. The folds of
`TokensMap` are solved from the inside. One list, gone through posting by posting
(`OneHit`), leaves in `tokens_map` what going through all documents that hold the word
would (`AllHit`, which needs the list exact and without repetition: `IndexAlwaysExact`);
word by word of the query (`OneWord`), the entry of a document is the first word that hit
it with the sum of the weights of all (`TokensAre`), and the sum of the scan over the
query is the same one in another order (`ScanWeight`). Then the documents hit are those the
scan finds a weight for (`HitsWeigh`), and an order that `std::sort` may leave is one the scan may
answer (`RankedAlike`).

And `ServedAsParsed`: what is served is what was parsed, or a first part of it, for any site
and any raw.txt the parser may leave. It assumes of the characters that the separator, the
newline and the blank are different ones, and that a path has neither of the first two in
it (`MarksAssumption`, `SitesAssumption`). The invariant follows a document through the two programs:
what is parsed is texts without newlines (`HtmlParsed`, for `ReadFile` leaves them out),
and the disk has a first part of their records (`Stored`); what `getline` has read and what it has
yet to read make up the lines of the disk's text, and the index is what `BuildForwardIndex`
takes of those it has read (`Reading`). Between the two lie three lemmas. `FirstPartKept`: a
first part of the records is whole records and the first part of a line. `LinesRead`: `getline`
makes of it the lines of these records and that part. `LineTaken`: `Split` makes of a line, as long
as no separator is in its title or content, the document; and of a first part of it nothing, or the
document with a first part of its url, because the line must have three tokens.
The titles had to be excepted too: the proof failed on a title with a separator in it and a
disk that fills within its line, which the property had not allowed for.

`HitsAlwaysHaveExcerpts`: every hit shows a document that is served and a part of its content
that is not empty. It assumes of `Cut`, besides `CutsIntoWords`, that the words are pieces of the text
(`CutsIntoPieces`), and that a lower
case has none itself (`LowerAssumption`), for `GetDesc` looks in either case for a word that is in
lower case already. The word in `tokens_map` is one the document holds (`WordHits`, from `TokensAre`); the
document is one that was parsed (`ServedTexts`, from `ServedAsParsed`). A word of its content is a piece of the
content, and a word of its title is one as well (`WordPlaced`), because `ParseContent`, which only
ever adds to its text (`ContentGrows`), adds the whole title to it: unless a tag begins in the title
(`TitleInContent`). Then `GetDesc` finds a place, and its two clamped ends leave something between
them unless the content is one character (`ExcerptPlaced`). Stating it showed two cases the property
had wrong and the runs do not have: a second `<title>` within a title ends its text like a tag, and
a title with a separator in it on a disk that fills is served as another document's (so that
`NoSeparators` is asked here too).

**TokenizerProofs**, for texts of any length over any runes, any dictionary and any model:
`CutAlwaysKeepsText`, `CutAlwaysLocal`, `PathAlwaysHeaviest`, `StatesAlwaysBest`, the
properties of run `tokens`. Weights and probabilities are numbers, the latter's logarithms
not positive (`DictAssumption`, `ModelAssumption`); the numbers are whole and are added
exactly, where the code's are doubles.
*No rune is lost.* Each cutter goes through its text by steps and cuts what a step has passed:
separators (`PiecesWalk`), the places of a table of states (`BehindCut`), the heaviest path
(`MPCuts`), runs of single runes and the rest (`MixCuts`), runs of letters and digits and
the rest (`HMMCuts`). `WalkCuts` says of all of them that the words are not empty and make
the text behind each other (`CutOf`), as long as each step does so with its own part and
ends behind where it began. For `InternalCut` it takes that the last state ends a word, for
the code drops what follows the last end: `Viterbi` picks the better of E and S (`ViterbiPath`).
*Separators isolate.* A piece between separators is the same piece of the text on its side alone
(`PieceEndIs`, `PiecesAround`), so that the pieces of the text are those of the one side,
perhaps the separator, and those of the other (`CutsAround`).
*The path is heaviest.* `CalcDP` fills its table from the last rune to the first: by induction
in this direction (`Backwards`), the weight it has at a place is that of the path it says, and
no cut from there along the dictionary weighs more, whatever its first word (`TableFilled`,
`LeadingCut`, `HeaviestFrom`).
*The states are best.* By induction over the columns, no states that lead to a state weigh more
than its entry, and those that the pointers lead back to weigh as much (`NoneBetter`,
`PathWeighs`). It is so as long as sums are not absorbed: a sum with MIN_DOUBLE in it forgets
the rest, which is why the property excepts states that are all that improbable.

`TokenizerCutsIntoPieces`: a `Cut` that cuts texts as `Tokenizer` does (`CutsAsTokenizer`, what
`MCSearchEngine.cfg`s give it) meets `CutsIntoWords` and `CutsIntoPieces`; so
`TokenizerServesEngine` has `SearchIsScan` and `HitsAlwaysHaveExcerpts` of the two together.
`FindsAlwaysWhatIsThere` joins all of it: a query that stands in a document between
separators is cut into words that the document is cut into as well (`ApartFound`, from
`TextIsolated` on either side), at least one (`HasWords`); the index names the document
for it (`IndexAlwaysExact`); so `tokens_map` has it (`TokensAre`), and the sorted answer leaves
nothing out (`ListsAll`, `SearchFinds`). `AnswersAll` is the invariant in the middle: while an
answer is there, every document that holds a word of the query is in it.

**SearchPageProofs**, for any queries, numbers of hits, lengths of a page and of the
history, and any number of requests in flight: `PageTyping`, `ScreensSound`,
`HistoriesSound`, `LastAnswerShown`, the four invariants of run `page`. Two parts of `IInv`
are not among them. `Screened` says that what is shown was drawn from the
results and the page number held now, a page that exists; then `ScreenSound` is
arithmetic (`PagesHoldAll`, `EveryPageSound`, `ButtonsSound`), and a button on the screen
leads to a page that exists (`ButtonsLeadToPages`). `OneAtATime` says that until two
requests overlap the one in flight is the last one sent: without it an answer could
be to any query, and `ShowsTheLast` would not be kept. `Redraws` is where an
answer without hits and one with hits meet.

**Lists.** The library's induction theorems have an operator for a parameter, which the
provers cannot instantiate. `ListLemmas` has induction with sets in the place of
predicates, from the fact that numbers are well-founded: `LeastNumber`, `SubsetInduction`;
and from it `FoldsAgree`, that two folds from left to right are equal when each of
their steps is; `FlatAppended`, what `FlattenSeq` makes of a list that grows; `FoldExists` and `FoldRuns`,
that a fold is a run through the list, of which `RunOn` and `RunEndsOnce` say that it goes on
along what comes next and ends in one state; and `Summed`, that the sum over a finite set, whichever of its members comes next, is
the number of units in it (`Units`). `Backwards` is induction from the end of a list to its
beginning; `Walk` and the lemmas about it are loops that take a part of a list, go on behind it,
and join what they made (`WalkFlat`).

**Only model-checked.** `CallsEnd` (with `Stranded` in it) and `LoaderEnds` are liveness, which is out of
the prover's reach with ENABLED. Requests outside `NoHuge`, of which run `pages` has one that
is given back whole: the theorems of PageCacheLinksProofs hold of them, those on pages do
not, and run `stale` shows why.

## Not modelled, and why

* Of the pool: the chunks of `ObjectPool` and what a throw leaves of them
  (`_remainBytes` is set before `SystemAlloc` can fail; a `New` of the descriptors' pool
  that throws also leaves `_pageMtx` locked, so that no later `New` is reached); the links
  inside free objects, which are sequences here; a 64-bit build's page numbers, which the
  one-level map cannot hold; a request of zero bytes, which `Index` wraps.
* Of the engine: `GetInstance`'s double-checked locking, since it is called once before
  the server listens; several requests at once, since a search only reads; the bytes of
  UTF-8; the query's encoding in the page's URL; two tabs with one `localStorage`; the
  script's checks for programs and ports; logging, markup, build files.
* Of `cppjieba`: loading the dictionary and the model, keyword extraction, and the
  segmenters that `CutForSearch` does not reach.
* Tests, benchmark and `debug.cpp` only call what is modelled.

Most files of the repository are not this program. Of the C++ files, all but two dozen
are the vendored `cppjieba`, `limonp`, `cpp-httplib` and gtest, some of them
twice or three times, and the example programs of Boost.Asio that lie in
`data/input` because they are part of the documentation that is searched. The two programs'
own code, with the page's script and the segmenters that are called, is about 3000 lines,
of which some 1600 are mapped; what is left of it is declarations, includes, comments,
output, tests and markup. To model Asio's examples, or an HTTP library that no property
here is about, would say nothing of these programs.

## Plan

Done, the core first: RunAllocator, PageCache and its proofs, MemoryPool, SizeClass and its
proofs; then PageCacheLinks, PageMap, Tokenizer, SearchEngine, SearchPage, the proofs of the
arithmetic and of the page; then the proofs of MemoryPool down to `ImplementsMalloc`, of
PageCacheLinks, of the index, of the trees of the page map and of `Ensure`, and of the
search down to `ImplementsScan`, and of the way from the files to the index and back to the
excerpts; and of the tokenizer, and with it that what is written in a document is found.

Every safety property of the passing runs is proved. What could come next is model, not
proof: `ObjectPool`'s chunks with the exceptions that interrupt them, and the loading of the
dictionary.
