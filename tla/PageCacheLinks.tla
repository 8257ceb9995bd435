--------------------------- MODULE PageCacheLinks ---------------------------
(***************************************************************************)
(* PageCache with its data structures as they lie in memory: the rings of  *)
(* _spanLists, and the ObjectPool that decides which descriptor a new span *)
(* gets.  Every step is a step of PageCache and what it does to them.      *)
(*                                                                         *)
(* The head of list k, a node from another pool, is the number k.          *)
(***************************************************************************)
EXTENDS PageCache, FiniteSets

ASSUME HeadsAssumption == (Spans \cup {NoSpan}) \cap 1 .. NPAGES - 1 = {}

VARIABLES memory,   \* _next and _prev of every descriptor and head
          pool      \* _spanPool

linkVars == <<memory, pool>>

Lists == INSTANCE SpanList WITH Objects <- Spans, Null <- NoSpan

Nodes == Spans \cup 1 .. Limit

InitLinks ==
  /\ Init
  /\ memory = LET ring == [x \in Nodes |-> IF x \in Spans THEN NoSpan ELSE x]
              IN  [next |-> ring, prev |-> ring]
  /\ pool = [first |-> NoSpan, link |-> [s \in Spans |-> NoSpan], cut |-> {}]

-----------------------------------------------------------------------------
(* NewSpan(k), path by path; s is the span it answers. *)

(* A descriptor is made: memory is m, up to its constructor. *)
Make(s, m) ==
  /\ s \in Lists!Offers(pool)
  /\ pool' = Lists!New(pool, s)
  /\ memory' = Lists!Cleared(m, s)

(* s is handed out with the pointers PopFront left.  Those of a marked     *)
(* span are written by the central cache from now on, and are not kept:    *)
(* no merge takes it, and when it comes back PushFront writes both.        *)
HandedOut(m, inUse, s) == IF inUse THEN Lists!Cleared(m, s) ELSE m

HugeLinked(k, s) == k > Limit /\ Make(s, memory)

WholeLinked(k, inUse, s) ==
  /\ k <= Limit
  /\ ~Lists!Empty(memory, k)
  /\ s = Lists!Begin(memory, k)
  /\ memory' = HandedOut(Lists!PopFront(memory, k), inUse, s)
  /\ UNCHANGED pool

(* The rest of what k pages are cut from: off one list, onto another. *)
Moved(m, rest, from, to) ==
  Lists!PushFront(Lists!PopFront(m, from), to, rest)

NoneLinked(low, high) == \A i \in low .. high : Lists!Empty(memory, i)

SplitLinked(k, s) ==
  \E i \in k + 1 .. Limit :
    /\ NoneLinked(k, i - 1)
    /\ ~Lists!Empty(memory, i)
    /\ Make(s, Moved(memory, Lists!Begin(memory, i), i, i - k))

(* The chunk's descriptor is made and listed before the recursive call     *)
(* takes it, or makes another for what it cuts.                            *)
GrowLinked(k, inUse, s) ==
  /\ k <= Limit
  /\ NoneLinked(k, Limit)
  /\ \E big \in Lists!Offers(pool) :
       LET after == Lists!New(pool, big)
           grown == Lists!PushFront(Lists!Cleared(memory, big), Limit, big)
       IN  IF k = Limit
           THEN /\ s = big
                /\ memory' = HandedOut(Lists!PopFront(grown, Limit), inUse, s)
                /\ pool' = after
           ELSE /\ big \in live'
                /\ s \in Lists!Offers(after)
                /\ memory' = Lists!Cleared(Moved(grown, big, Limit, Limit - k), s)
                /\ pool' = Lists!New(after, s)

NewSpanLinked(k, inUse, s) ==
  /\ NewSpan(k, inUse, s)
  /\ \/ HugeLinked(k, s)
     \/ WholeLinked(k, inUse, s)
     \/ SplitLinked(k, s)
     \/ GrowLinked(k, inUse, s)

NewSpanThrowsLinked(k) ==
  /\ NewSpanThrows(k)
  /\ IF k > Limit
     THEN UNCHANGED linkVars
     ELSE \E bigSpan \in live' \ live : Make(bigSpan, memory)

-----------------------------------------------------------------------------
(* ReleaseSpanToPageCache *)

ReleaseHugeLinked(s) ==
  ReleaseHuge(s) /\ pool' = Lists!Delete(pool, s) /\ UNCHANGED memory

(* Erase goes through the pointers of t whether t is listed or held: null  *)
(* they end the program, left by PopFront they relink whatever is at their *)
(* ends now.  The pointers of a deleted descriptor are not kept: only a    *)
(* merge that follows the stale entry of a huge span could read them.      *)
AbsorbLinked(t) ==
  IF memory.next[t] = NoSpan
  THEN live' = live /\ UNCHANGED linkVars
  ELSE /\ op' = "corrupt" => t \notin live'
       /\ memory' = Lists!Cleared(Lists!Erase(memory, t), t)
       /\ pool' = Lists!Delete(pool, t)

FinishReleaseLinked ==
  /\ FinishRelease
  /\ memory' = Lists!PushFront(memory, n[releasing], releasing)
  /\ UNCHANGED pool

ReleaseStepLinked ==
  \/ MergePrev /\ AbsorbLinked(PrevSpan)
  \/ MergeNext /\ AbsorbLinked(NextSpan)
  \/ StopPrev /\ UNCHANGED linkVars
  \/ FinishReleaseLinked

NextLinked ==
  \/ \E k \in CentralRequests, s \in Spans : NewSpanLinked(k, TRUE, s)
  \/ \E k \in LargeRequests, s \in Spans : NewSpanLinked(k, FALSE, s)
  \/ \E k \in CentralRequests \cup LargeRequests : NewSpanThrowsLinked(k)
  \/ \E s \in used : ReleaseHugeLinked(s) \/ (StartRelease(s) /\ UNCHANGED linkVars)
  \/ ReleaseStepLinked

SpecLinked == InitLinks /\ [][NextLinked]_<<vars, linkVars>>

-----------------------------------------------------------------------------
(* The rings hold, forward and backward, exactly the sequences PageCache   *)
(* speaks of, through every insertion and erasure in the middle, until the *)
(* Erase of a span that is on no list.                                     *)
RingsAgree ==
  Intact => \A k \in 1 .. Limit :
    LET ring == <<k>> \o spanLists[k] \o <<k>>
    IN  \A i \in 1 .. Len(ring) - 1 : /\ memory.next[ring[i]] = ring[i + 1]
                                      /\ memory.prev[ring[i + 1]] = ring[i]

(* _freeList is the sequence `chain', without repetition, and a null link. *)
Chained(chain) ==
  LET path == Append(chain, NoSpan)
  IN  /\ \A i, j \in DOMAIN chain : chain[i] = chain[j] => i = j
      /\ pool.first = path[1]
      /\ \A i \in DOMAIN chain : pool.link[chain[i]] = path[i + 1]

(* A descriptor that was cut is live or hangs on _freeList, once: the pool *)
(* never answers one that is in use, and loses none, until a merge deletes *)
(* one that is held.                                                       *)
PoolExact ==
  Intact =>
    LET dead == pool.cut \ live
    IN  /\ live \subseteq pool.cut
        /\ \E chain \in [1 .. Cardinality(dead) -> dead] : Chained(chain)
=============================================================================
