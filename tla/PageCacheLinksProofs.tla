------------------------ MODULE PageCacheLinksProofs ------------------------
(***************************************************************************)
(* The page cache's data structures are exact until a merge takes a span   *)
(* that is on no list: the rings of _spanLists hold what the sequences of  *)
(* PageCache do, and the ObjectPool answers only descriptors not in use.  Unlike    *)
(* what PageCacheProofs says of the pages, this needs no hypothesis on the *)
(* large requests: huge ones may be among them.                            *)
(***************************************************************************)
EXTENDS PageCacheLinks, PageCacheProofs

ListFacts == INSTANCE ListLemmas

-----------------------------------------------------------------------------
(* What holds of the descriptors, huge spans among them. *)

(* A span is on one list at most, that of its length, and on it once.      *)
ListsOK ==
  \A k \in 1 .. Limit :
    /\ NoDup(spanLists[k])
    /\ \A s \in Range(spanLists[k]) :
         s \in live /\ s \notin used /\ s # releasing /\ n[s] = k

HeldOK == \A s \in used : s \in live /\ s # releasing /\ n[s] > 0

GrowingOK ==
  /\ op \in {"idle", "thrown"} => releasing = NoSpan
  /\ op \in {"prev", "next"} => /\ releasing \in live
                                /\ releasing \notin used
                                /\ n[releasing] \in 1 .. Limit

(* No entry of the page map, stale ones included, leads to a descriptor    *)
(* that never had a page.                                                  *)
MappedOK == \A p \in Pages : idSpanMap[p] # NoSpan => n[idSpanMap[p]] > 0

DescriptorsOK ==
  TypeOK /\ ListsOK /\ HeldOK /\ GrowingOK /\ MappedOK /\ LiveOK

(* The inductive invariant. *)
DescriptorsUntilMerged == TypeOK /\ (Intact => DescriptorsOK)

(* What is requested has pages. *)
LEMMA Requested ==
  \A k \in CentralRequests \cup LargeRequests : k \in Nat /\ k > 0
BY RequestsAssumption, NPAGESAssumption

(* Which descriptors are active, after a step that touches the list k.     *)
LEMMA ListedAfter ==
  ASSUME TypeOK, NEW k \in 1 .. Limit, NEW q,
         spanLists' = [spanLists EXCEPT ![k] = q]
  PROVE  \A s : s \in Listed' <=>
           s \in Range(q) \/ \E j \in 1 .. Limit \ {k} : s \in Range(spanLists[j])
<1>1. \A j \in 1 .. Limit : spanLists'[j] = IF j = k THEN q ELSE spanLists[j]
  BY DEF TypeOK
<1>2. \A s : s \in Listed' <=> \E j \in 1 .. Limit : s \in Range(spanLists'[j])
  BY ListedMember
<1> QED  BY <1>1, <1>2

(* NewSpan of more than a list can hold. *)
LEMMA HugeKeeps ==
  ASSUME DescriptorsOK, op = "idle", NEW k \in Nat, NEW inUse \in BOOLEAN, NEW s \in Spans,
         NewHugeSpan(k, inUse, s), used' = used \cup {s}, UNCHANGED <<op, releasing>>
  PROVE  DescriptorsOK'
<1> USE LimitType, NoSpanAssumption
<1>1. TypeOK  BY DEF DescriptorsOK
<1>2. /\ s \notin live /\ k > Limit /\ live' = live \cup {s} /\ spanLists' = spanLists
      /\ n' = [n EXCEPT ![s] = k]
  BY DEF NewHugeSpan
<1>3. PICK first \in Pages : /\ sysPages' \subseteq Pages
                             /\ pageId' = [pageId EXCEPT ![s] = first]
                             /\ idSpanMap' = [idSpanMap EXCEPT ![first] = s]
  BY <1>1 DEF NewHugeSpan, SystemAlloc, TypeOK
<1>4. isUse' \in [Spans -> BOOLEAN]
  BY <1>1 DEF NewHugeSpan, Constructed, TypeOK
<1>5. TypeOK'
  BY <1>1, <1>2, <1>3, <1>4, PagesAssumption DEF TypeOK
<1>6. ListsOK'
  BY <1>1, <1>2 DEF DescriptorsOK, ListsOK, TypeOK
<1>7. HeldOK' /\ GrowingOK'
  BY <1>1, <1>2 DEF DescriptorsOK, HeldOK, GrowingOK, TypeOK
<1>8. MappedOK'
  BY <1>1, <1>2, <1>3 DEF DescriptorsOK, MappedOK, TypeOK
<1>9. LiveOK'
  <2>1. Listed' = Listed  BY <1>2 DEF Listed
  <2> QED  BY <1>2, <2>1 DEF DescriptorsOK, LiveOK, Active
<1> QED  BY <1>5, <1>6, <1>7, <1>8, <1>9 DEF DescriptorsOK

(* NewSpan of a length that is listed. *)
LEMMA WholeKeeps ==
  ASSUME DescriptorsOK, op = "idle", NEW k \in Nat \ {0}, NEW inUse \in BOOLEAN, NEW s \in Spans,
         TakeWhole(k, inUse, s), used' = used \cup {s}, UNCHANGED <<op, releasing>>
  PROVE  DescriptorsOK'
<1> USE LimitType, NoSpanAssumption
<1>1. TypeOK /\ ListsOK /\ k \in 1 .. Limit
  BY DEF DescriptorsOK, TakeWhole
<1>2. /\ s = Head(spanLists[k]) /\ spanLists' = [spanLists EXCEPT ![k] = Tail(spanLists[k])]
      /\ UNCHANGED <<n, pageId, live, sysPages>>
      /\ idSpanMap' = [p \in Pages |-> IF p \in PagesOf(s) THEN s ELSE idSpanMap[p]]
      /\ isUse' = [isUse EXCEPT ![s] = inUse]
  BY DEF TakeWhole
<1>3. /\ s \in Range(spanLists[k]) /\ Tail(spanLists[k]) \in Seq(Spans)
      /\ Range(Tail(spanLists[k])) = Range(spanLists[k]) \ {s}
      /\ NoDup(Tail(spanLists[k]))
  BY <1>1, <1>2, PopFrontList DEF TakeWhole, TypeOK, ListsOK
<1>4. s \in live /\ s \notin used /\ s # releasing /\ n[s] = k
  BY <1>1, <1>3 DEF ListsOK
<1>5. \A j \in 1 .. Limit : spanLists'[j] = IF j = k THEN Tail(spanLists[k]) ELSE spanLists[j]
  BY <1>1, <1>2 DEF TypeOK
<1>6. TypeOK'
  BY <1>1, <1>2, <1>3 DEF TypeOK
<1>7. ListsOK'
  <2> SUFFICES ASSUME NEW j \in 1 .. Limit
               PROVE  /\ NoDup(spanLists'[j])
                      /\ \A t \in Range(spanLists'[j]) :
                           t \in live' /\ t \notin used' /\ t # releasing' /\ n'[t] = j
    BY DEF ListsOK
  <2>1. NoDup(spanLists'[j])
    BY <1>1, <1>3, <1>5 DEF ListsOK
  <2>2. ASSUME NEW t \in Range(spanLists'[j])
        PROVE  t # s /\ t \in live /\ t \notin used /\ t # releasing /\ n[t] = j
    BY <1>1, <1>3, <1>4, <1>5 DEF ListsOK
  <2> QED  BY <1>2, <2>1, <2>2
<1>8. HeldOK' /\ GrowingOK'
  BY <1>1, <1>2, <1>4 DEF DescriptorsOK, HeldOK, GrowingOK
<1>9. MappedOK'
  BY <1>1, <1>2, <1>4 DEF DescriptorsOK, MappedOK
<1>10. LiveOK'
  <2>1. \A t : t \in Listed => t \in Listed' \/ t = s
    BY <1>3, <1>5, ListedMember
  <2> QED  BY <1>2, <2>1 DEF DescriptorsOK, LiveOK, Active
<1> QED  BY <1>6, <1>7, <1>8, <1>9, <1>10 DEF DescriptorsOK

(* Cutting: `rest' is on no list, `lists' are the lists without it.        *)
LEMMA CutKeeps ==
  ASSUME DescriptorsOK, op = "idle", NEW k \in Nat \ {0}, NEW total \in 1 .. Limit, k < total,
         NEW first \in Nat, NEW s \in Spans, NEW rest \in Spans, NEW inUse \in BOOLEAN,
         NEW lists, Off(lists, rest), rest \notin used,
         Cut(first, total, k, s, rest, lists, inUse), sysPages' \subseteq Pages,
         used' = used \cup {s}, UNCHANGED <<op, releasing>>
  PROVE  DescriptorsOK'
<1> USE LimitType, NoSpanAssumption
<1> USE DEF Off
<1>1. TypeOK /\ ListsOK /\ total - k \in 1 .. Limit /\ releasing = NoSpan
  BY DEF DescriptorsOK, GrowingOK
<1>2. /\ s \notin live /\ s # rest /\ live' = live \cup {s, rest}
      /\ pageId' = [pageId EXCEPT ![s] = first, ![rest] = first + k]
      /\ n' = [n EXCEPT ![s] = k, ![rest] = total - k]
      /\ isUse' = [Constructed({s, rest} \ live) EXCEPT ![s] = inUse]
      /\ spanLists' = [lists EXCEPT ![total - k] = <<rest>> \o lists[total - k]]
  BY DEF Cut
<1>3. \A p \in Pages : idSpanMap'[p] \in {s, rest, idSpanMap[p]}
  BY DEF Cut, MapAfterCut
<1>4. idSpanMap' \in [Pages -> Spans \cup {NoSpan}]
  <2>1. idSpanMap' = [p \in Pages |-> idSpanMap'[p]]  BY DEF Cut, MapAfterCut
  <2> QED  BY <1>1, <1>3, <2>1 DEF TypeOK
<1>5. /\ <<rest>> \o lists[total - k] \in Seq(Spans)
      /\ Range(<<rest>> \o lists[total - k]) = Range(lists[total - k]) \cup {rest}
      /\ NoDup(<<rest>> \o lists[total - k])
  <2>1. lists[total - k] \in Seq(Spans) /\ NoDup(lists[total - k])
        /\ rest \notin Range(lists[total - k])
    BY <1>1
  <2> QED  BY <2>1, PushFrontList
<1>6. \A j \in 1 .. Limit :
        spanLists'[j] = IF j = total - k THEN <<rest>> \o lists[total - k] ELSE lists[j]
  BY <1>1, <1>2
<1>7. isUse' \in [Spans -> BOOLEAN]
  BY <1>1, <1>2 DEF TypeOK, Constructed
<1>8. TypeOK'
  <2>1. spanLists' \in [1 .. Limit -> Seq(Spans)]
    BY <1>1, <1>2, <1>5
  <2>2. pageId' \in [Spans -> Nat] /\ n' \in [Spans -> Nat]
    <3>1. first + k \in Nat /\ k \in Nat /\ total - k \in Nat
      BY <1>1
    <3> QED  BY <1>1, <1>2, <3>1 DEF TypeOK
  <2> QED  BY <1>1, <1>2, <1>4, <1>7, <2>1, <2>2 DEF TypeOK
<1>9. ListsOK'
  <2> SUFFICES ASSUME NEW j \in 1 .. Limit
               PROVE  /\ NoDup(spanLists'[j])
                      /\ \A t \in Range(spanLists'[j]) :
                           t \in live' /\ t \notin used' /\ t # releasing' /\ n'[t] = j
    BY DEF ListsOK
  <2>1. NoDup(spanLists'[j])
    BY <1>5, <1>6
  <2>2. ASSUME NEW t \in Range(spanLists'[j]), t # rest
        PROVE  t \in live' /\ t \notin used' /\ t # releasing' /\ n'[t] = j
    <3>1. t \in Range(spanLists[j])
      <4>1. CASE j = total - k  BY <1>5, <1>6, <2>2, <4>1
      <4>2. CASE j # total - k  BY <1>6, <2>2, <4>2
      <4> QED  BY <4>1, <4>2
    <3>2. t \in live /\ t \notin used /\ n[t] = j /\ t # releasing
      BY <1>1, <3>1 DEF ListsOK
    <3>3. t \in Spans /\ t # s
      BY <1>1, <1>2, <3>2 DEF TypeOK
    <3> QED  BY <1>1, <1>2, <2>2, <3>2, <3>3 DEF TypeOK
  <2>3. rest \in Range(spanLists'[j]) => j = total - k
    BY <1>5, <1>6
  <2>4. rest \in live' /\ rest \notin used' /\ rest # releasing' /\ n'[rest] = total - k
    BY <1>1, <1>2 DEF TypeOK
  <2> QED  BY <2>1, <2>2, <2>3, <2>4
<1>10. HeldOK' /\ GrowingOK'
  <2>1. \A t \in used : t \in Spans /\ t # s /\ t # rest
    BY <1>1, <1>2 DEF TypeOK, DescriptorsOK, HeldOK
  <2>2. \A t \in used : t \in live /\ n[t] > 0
    BY DEF DescriptorsOK, HeldOK
  <2>3. \A t \in used : n'[t] = n[t]
    BY <1>1, <1>2, <2>1 DEF TypeOK
  <2>4. n'[s] = k /\ s # releasing'
    BY <1>1, <1>2 DEF TypeOK
  <2>5. HeldOK'
    <3> SUFFICES ASSUME NEW t \in used'
                 PROVE  t \in live' /\ t # releasing' /\ n'[t] > 0
      BY DEF HeldOK
    <3>1. CASE t = s  BY <1>2, <2>4, <3>1
    <3>2. CASE t \in used
      <4>1. t \in live /\ n[t] > 0 /\ n'[t] = n[t] /\ t \in Spans
        BY <2>1, <2>2, <2>3, <3>2
      <4> QED  BY <1>1, <1>2, <4>1
    <3> QED  BY <3>1, <3>2
  <2> QED  BY <1>1, <2>5 DEF GrowingOK
<1>11. MappedOK'
  <2>1. \A t \in Spans : n[t] > 0 => n'[t] > 0
    <3>1. \A t \in Spans : n'[t] \in {n[t], k, total - k}
      BY <1>1, <1>2 DEF TypeOK
    <3>2. k > 0 /\ total - k > 0
      BY <1>1
    <3> QED  BY <3>1, <3>2
  <2>2. n'[s] > 0 /\ n'[rest] > 0
    BY <1>1, <1>2 DEF TypeOK
  <2> QED  BY <1>1, <1>3, <2>1, <2>2 DEF DescriptorsOK, MappedOK, TypeOK
<1>12. LiveOK'
  <2>1. rest \in Listed'
    BY <1>1, <1>5, <1>6, ListedMember
  <2>2. \A t : t \in Listed => t \in Listed'
    <3> SUFFICES ASSUME NEW t, t \in Listed, t # rest PROVE t \in Listed'
      BY <2>1
    <3>1. PICK j \in 1 .. Limit : t \in Range(spanLists[j])  BY ListedMember
    <3>2. t \in Range(lists[j])  BY <3>1
    <3>3. t \in Range(spanLists'[j])  BY <1>5, <1>6, <3>2
    <3> QED  BY <3>3, ListedMember
  <2> QED  BY <1>2, <2>1, <2>2 DEF DescriptorsOK, LiveOK, Active
<1> QED  BY <1>8, <1>9, <1>10, <1>11, <1>12 DEF DescriptorsOK

(* NewSpan of a length for which a longer span is cut.                     *)
LEMMA SplitKeeps ==
  ASSUME DescriptorsOK, op = "idle", NEW k \in Nat \ {0}, NEW inUse \in BOOLEAN, NEW s \in Spans,
         SplitLonger(k, inUse, s), used' = used \cup {s}, UNCHANGED <<op, releasing>>
  PROVE  DescriptorsOK'
<1> USE LimitType
<1>1. TypeOK /\ ListsOK
  BY DEF DescriptorsOK
<1>2. PICK i \in k + 1 .. Limit :
        /\ spanLists[i] # <<>>
        /\ LET rest == Head(spanLists[i]) IN
             Cut(pageId[rest], n[rest], k, s, rest, [spanLists EXCEPT ![i] = Tail(@)], inUse)
        /\ UNCHANGED sysPages
  BY DEF SplitLonger
<1>3. PICK rest, lists : /\ rest = Head(spanLists[i])
                         /\ lists = [spanLists EXCEPT ![i] = Tail(spanLists[i])]
  OBVIOUS
<1>4. i \in 1 .. Limit /\ k < i
  OBVIOUS
<1>5. /\ rest \in Range(spanLists[i]) /\ Tail(spanLists[i]) \in Seq(Spans)
      /\ Range(Tail(spanLists[i])) = Range(spanLists[i]) \ {rest}
      /\ NoDup(Tail(spanLists[i]))
  BY <1>1, <1>2, <1>3, <1>4, PopFrontList DEF TypeOK, ListsOK
<1>6. rest \in live /\ rest \notin used /\ n[rest] = i /\ rest \in Spans
  BY <1>1, <1>4, <1>5 DEF ListsOK, TypeOK
<1>7. \A j \in 1 .. Limit : j # i => rest \notin Range(spanLists[j])
  BY <1>1, <1>6 DEF ListsOK
<1>8. Off(lists, rest)
  <2>1. lists \in [1 .. Limit -> Seq(Spans)]
    BY <1>1, <1>3, <1>5 DEF TypeOK
  <2>2. \A j \in 1 .. Limit : lists[j] = IF j = i THEN Tail(spanLists[i]) ELSE spanLists[j]
    BY <1>1, <1>3 DEF TypeOK
  <2>3. \A j \in 1 .. Limit : j # i =>
          NoDup(lists[j]) /\ Range(lists[j]) = Range(spanLists[j]) \ {rest}
    BY <1>1, <1>7, <2>2 DEF ListsOK
  <2>4. NoDup(lists[i]) /\ Range(lists[i]) = Range(spanLists[i]) \ {rest}
    BY <1>4, <1>5, <2>2
  <2> QED  BY <2>1, <2>3, <2>4 DEF Off
<1>9. Cut(pageId[rest], i, k, s, rest, lists, inUse)
  BY <1>2, <1>3, <1>6
<1>10. pageId[rest] \in Nat /\ sysPages' \subseteq Pages
  BY <1>1, <1>2, <1>6 DEF TypeOK
<1>11. rest \notin used /\ i \in 1 .. Limit /\ k < i
  BY <1>4, <1>6
<1> QED  BY <1>6, <1>8, <1>9, <1>10, <1>11, CutKeeps

(* NewSpan of a length for which the system is asked.                      *)
LEMMA GrowKeeps ==
  ASSUME DescriptorsOK, op = "idle", NEW k \in Nat \ {0}, NEW inUse \in BOOLEAN, NEW s \in Spans,
         GrowAndTake(k, inUse, s), used' = used \cup {s}, UNCHANGED <<op, releasing>>
  PROVE  DescriptorsOK'
<1> USE LimitType, NoSpanAssumption
<1>1. TypeOK /\ ListsOK /\ k \in 1 .. Limit
  BY DEF DescriptorsOK, GrowAndTake
<1>2. PICK first \in Pages :
        /\ SystemAlloc(Limit, first)
        /\ IF k = Limit
           THEN /\ s \notin live
                /\ pageId' = [pageId EXCEPT ![s] = first]
                /\ n' = [n EXCEPT ![s] = Limit]
                /\ isUse' = [Constructed({s}) EXCEPT ![s] = inUse]
                /\ live' = live \cup {s}
                /\ idSpanMap' = [p \in Pages |->
                                   IF p \in first .. (first + Limit - 1)
                                   THEN s ELSE idSpanMap[p]]
                /\ UNCHANGED spanLists
           ELSE \E bigSpan \in Spans \ live :
                  Cut(first, Limit, k, s, bigSpan, spanLists, inUse)
  BY DEF GrowAndTake
<1>3. first \in Nat /\ sysPages' \subseteq Pages
  BY <1>1, <1>2, PagesAssumption DEF SystemAlloc, TypeOK
<1>4. CASE k = Limit
  <2>1. /\ s \notin live /\ live' = live \cup {s} /\ spanLists' = spanLists
        /\ n' = [n EXCEPT ![s] = Limit] /\ pageId' = [pageId EXCEPT ![s] = first]
        /\ isUse' = [Constructed({s}) EXCEPT ![s] = inUse]
        /\ \A p \in Pages : idSpanMap'[p] \in {s, idSpanMap[p]}
        /\ idSpanMap' = [p \in Pages |-> idSpanMap'[p]]
    BY <1>2, <1>4
  <2>2. TypeOK'
    BY <1>1, <1>3, <2>1, ZenonT(30) DEF TypeOK, Constructed
  <2>3. ListsOK'
    BY <1>1, <2>1 DEF DescriptorsOK, ListsOK, TypeOK
  <2>4. HeldOK' /\ GrowingOK'
    BY <1>1, <2>1 DEF DescriptorsOK, HeldOK, GrowingOK, TypeOK
  <2>5. MappedOK'
    BY <1>1, <2>1 DEF DescriptorsOK, MappedOK, TypeOK
  <2>6. LiveOK'
    <3>1. Listed' = Listed  BY <2>1 DEF Listed
    <3> QED  BY <2>1, <3>1 DEF DescriptorsOK, LiveOK, Active
  <2> QED  BY <2>2, <2>3, <2>4, <2>5, <2>6 DEF DescriptorsOK
<1>5. CASE k # Limit
  <2>1. PICK bigSpan \in Spans \ live : Cut(first, Limit, k, s, bigSpan, spanLists, inUse)
    BY <1>2, <1>5
  <2>2. bigSpan \notin used
    BY DEF DescriptorsOK, HeldOK
  <2>3. Off(spanLists, bigSpan)
    BY <1>1, <2>1 DEF TypeOK, ListsOK, Off
  <2>4. Limit \in 1 .. Limit /\ k < Limit
    BY <1>1, <1>5
  <2> QED  BY <1>3, <2>1, <2>2, <2>3, <2>4, CutKeeps
<1> QED  BY <1>4, <1>5

(* SystemAlloc throws. *)
LEMMA ThrowsKeeps ==
  ASSUME DescriptorsOK, NEW k, NewSpanThrows(k)
  PROVE  DescriptorsOK'
<1>1. /\ op = "idle" /\ op' = "thrown" /\ live \subseteq live' /\ live' \subseteq Spans
      /\ UNCHANGED <<pageId, n, isUse, spanLists, idSpanMap, sysPages, used, releasing>>
  BY DEF NewSpanThrows, DescriptorsOK, TypeOK
<1>2. TypeOK' /\ MappedOK' /\ LiveOK'
  BY <1>1 DEF DescriptorsOK, TypeOK, MappedOK, LiveOK
<1>3. ListsOK'
  BY <1>1 DEF DescriptorsOK, ListsOK
<1>4. HeldOK' /\ GrowingOK'
  BY <1>1 DEF DescriptorsOK, HeldOK, GrowingOK
<1> QED  BY <1>2, <1>3, <1>4 DEF DescriptorsOK

(* A span too long for the lists goes back to the system. *)
LEMMA HugeReleaseKeeps ==
  ASSUME DescriptorsOK, NEW s \in used, ReleaseHuge(s)
  PROVE  DescriptorsOK'
<1> USE LimitType
<1>1. /\ op = "idle" /\ n[s] > Limit /\ live' = live \ {s} /\ used' = used \ {s}
      /\ pageId' = [pageId EXCEPT ![s] = Link] /\ sysPages' = sysPages \ PagesOf(s)
      /\ UNCHANGED <<n, isUse, spanLists, idSpanMap, op, releasing>>
  BY DEF ReleaseHuge
<1>2. TypeOK /\ s \in Spans /\ s \in live /\ releasing = NoSpan
  BY <1>1 DEF DescriptorsOK, TypeOK, HeldOK, GrowingOK
<1>3. TypeOK'
  BY <1>1, <1>2 DEF TypeOK, Link
<1>4. ListsOK'
  BY <1>1, <1>2 DEF DescriptorsOK, ListsOK
<1>5. HeldOK' /\ GrowingOK' /\ MappedOK'
  BY <1>1, <1>2 DEF DescriptorsOK, HeldOK, GrowingOK, MappedOK
<1>6. LiveOK'
  <2>1. Listed' = Listed  BY <1>1 DEF Listed
  <2> QED  BY <1>1, <2>1 DEF DescriptorsOK, LiveOK, Active
<1> QED  BY <1>3, <1>4, <1>5, <1>6 DEF DescriptorsOK

(* A release begins. *)
LEMMA StartKeeps ==
  ASSUME DescriptorsOK, NEW s \in used, StartRelease(s)
  PROVE  DescriptorsOK'
<1> USE LimitType, NoSpanAssumption
<1>1. /\ op = "idle" /\ n[s] <= Limit /\ op' = "prev" /\ releasing' = s /\ used' = used \ {s}
      /\ UNCHANGED <<pageId, n, isUse, live, spanLists, idSpanMap, sysPages>>
  BY DEF StartRelease
<1>2. TypeOK /\ s \in Spans /\ s \in live /\ releasing = NoSpan /\ n[s] \in 1 .. Limit
  BY <1>1 DEF DescriptorsOK, TypeOK, HeldOK, GrowingOK
<1>3. TypeOK' /\ MappedOK'
  BY <1>1, <1>2 DEF DescriptorsOK, TypeOK, MappedOK
<1>4. ListsOK'
  BY <1>1, <1>2 DEF DescriptorsOK, ListsOK
<1>5. HeldOK' /\ GrowingOK'
  BY <1>1, <1>2 DEF DescriptorsOK, HeldOK, GrowingOK
<1>6. LiveOK'
  <2>1. Listed' = Listed  BY <1>1 DEF Listed
  <2> QED  BY <1>1, <1>2, <2>1 DEF DescriptorsOK, LiveOK, Active
<1> QED  BY <1>3, <1>4, <1>5, <1>6 DEF DescriptorsOK

(* What the page map leads to has pages, and a merge leaves it short       *)
(* enough for a list.                                                      *)
LEMMA NeighbourLength ==
  ASSUME DescriptorsOK, op \in {"prev", "next"}, NEW p, NEW t, t = MapGet(p), Mergeable(t)
  PROVE  /\ t \in Spans /\ n[t] \in 1 .. Limit /\ releasing \in Spans
         /\ n[releasing] \in 1 .. Limit /\ n[releasing] + n[t] \in 1 .. Limit
<1> USE LimitType, NoSpanAssumption
<1>1. TypeOK /\ releasing \in live /\ n[releasing] \in 1 .. Limit
  BY DEF DescriptorsOK, GrowingOK
<1>2. t # NoSpan /\ n[t] + n[releasing] <= Limit
  BY DEF Mergeable
<1>3. p \in Pages /\ t = idSpanMap[p]
  BY <1>2 DEF MapGet
<1>4. t \in Spans /\ n[t] > 0 /\ n[t] \in Nat
  BY <1>1, <1>2, <1>3 DEF DescriptorsOK, MappedOK, TypeOK
<1>5. releasing \in Spans
  BY <1>1 DEF TypeOK
<1> QED  BY <1>1, <1>2, <1>4, <1>5

(* A merge, or the end. *)
LEMMA AbsorbKeeps ==
  ASSUME DescriptorsOK, op \in {"prev", "next"}, NEW t \in Spans, NEW first \in Nat,
         n[t] \in 1 .. Limit, n[releasing] \in 1 .. Limit, n[releasing] + n[t] \in 1 .. Limit,
         Absorb(t, first), UNCHANGED <<isUse, idSpanMap, sysPages, used, releasing>>
  PROVE  DescriptorsOK' \/ (op' = "corrupt" /\ TypeOK')
<1> USE LimitType, NoSpanAssumption
<1>1. TypeOK /\ ListsOK /\ releasing \in live /\ releasing \in Spans /\ releasing \notin used
  BY DEF DescriptorsOK, GrowingOK, TypeOK
<1>2. CASE ~IsListed(t)
  <2>1. /\ op' = "corrupt" /\ spanLists' = spanLists
        /\ \/ Drop(t, first)
           \/ pageId' = [pageId EXCEPT ![releasing] = first] /\ live' = live
    BY <1>2 DEF Absorb, AbsorbListed, AbsorbUnlisted
  <2>2. n' \in [Spans -> Nat]
    <3>1. n' = [n EXCEPT ![releasing] = n[releasing] + n[t]]
      BY <1>1 DEF Absorb, TypeOK
    <3>2. n[releasing] + n[t] \in Nat  OBVIOUS
    <3> QED  BY <1>1, <3>1, <3>2 DEF TypeOK
  <2>3. pageId' \in [Spans -> Nat] /\ live' \subseteq live
    <3>1. CASE Drop(t, first)
      BY <1>1, <3>1 DEF TypeOK, Drop, Link
    <3>2. CASE pageId' = [pageId EXCEPT ![releasing] = first] /\ live' = live
      BY <1>1, <3>2 DEF TypeOK
    <3> QED  BY <2>1, <3>1, <3>2
  <2> QED  BY <1>1, <2>1, <2>2, <2>3 DEF TypeOK
<1>3. CASE IsListed(t)
  <2>1. /\ pageId' = [pageId EXCEPT ![releasing] = first, ![t] = Link]
        /\ n' = [n EXCEPT ![releasing] = n[releasing] + n[t]]
        /\ spanLists' = [spanLists EXCEPT ![n[t]] = Erase(spanLists[n[t]], t)]
        /\ live' = live \ {t} /\ op' = op
    BY <1>1, <1>3 DEF Absorb, AbsorbListed, AbsorbUnlisted, Drop, TypeOK
  <2>2. PICK k \in 1 .. Limit : k = n[t]
    OBVIOUS
  <2>3. t \in Range(spanLists[k]) /\ spanLists[k] \in Seq(Spans) /\ NoDup(spanLists[k])
    BY <1>1, <1>3, <2>2 DEF IsListed, TypeOK, ListsOK
  <2>4. t \in live /\ t \notin used /\ t # releasing
    BY <1>1, <2>3 DEF ListsOK
  <2>5. PICK q : q = Erase(spanLists[k], t)
    OBVIOUS
  <2>6. q \in Seq(Spans) /\ Range(q) = Range(spanLists[k]) \ {t} /\ NoDup(q)
    BY <2>3, <2>5, EraseList
  <2>7. \A j \in 1 .. Limit : spanLists'[j] = IF j = k THEN q ELSE spanLists[j]
    BY <1>1, <2>1, <2>2, <2>5 DEF TypeOK
  <2>8. TypeOK'
    <3>1. spanLists' \in [1 .. Limit -> Seq(Spans)]
      BY <1>1, <2>1, <2>2, <2>5, <2>6 DEF TypeOK
    <3>2. n' \in [Spans -> Nat] /\ pageId' \in [Spans -> Nat]
      <4>1. n[releasing] + n[t] \in Nat  OBVIOUS
      <4> QED  BY <1>1, <2>1, <4>1 DEF TypeOK, Link
    <3> QED  BY <1>1, <2>1, <3>1, <3>2 DEF TypeOK
  <2>9. \A u \in Spans : u # releasing => n'[u] = n[u]
    BY <1>1, <2>1 DEF TypeOK
  <2>10. n'[releasing] = n[releasing] + n[t]
    BY <1>1, <2>1 DEF TypeOK
  <2>11. ListsOK'
    <3> SUFFICES ASSUME NEW j \in 1 .. Limit
                 PROVE  /\ NoDup(spanLists'[j])
                        /\ \A u \in Range(spanLists'[j]) :
                             u \in live' /\ u \notin used' /\ u # releasing' /\ n'[u] = j
      BY DEF ListsOK
    <3>1. NoDup(spanLists'[j])
      BY <1>1, <2>6, <2>7 DEF ListsOK
    <3>2. ASSUME NEW u \in Range(spanLists'[j])
          PROVE  u \in live' /\ u \notin used' /\ u # releasing' /\ n'[u] = j
      <4>1. u \in Range(spanLists[j]) /\ (j = k => u # t)
        <5>1. CASE j = k  BY <2>6, <2>7, <5>1
        <5>2. CASE j # k  BY <2>7, <5>2
        <5> QED  BY <5>1, <5>2
      <4>2. u \in live /\ u \notin used /\ u # releasing /\ n[u] = j
        BY <1>1, <4>1 DEF ListsOK
      <4>3. u # t /\ u \in Spans
        BY <1>1, <2>2, <4>1, <4>2 DEF TypeOK
      <4> QED  BY <2>1, <2>9, <4>2, <4>3
    <3> QED  BY <3>1, <3>2
  <2>12. HeldOK'
    <3> SUFFICES ASSUME NEW u \in used PROVE u \in live' /\ u # releasing /\ n'[u] > 0
      BY DEF HeldOK
    <3>1. u \in live /\ u \in Spans /\ n[u] > 0 /\ u # releasing /\ u # t
      BY <1>1, <2>4 DEF DescriptorsOK, HeldOK, TypeOK
    <3> QED  BY <2>1, <2>9, <3>1
  <2>13. GrowingOK'
    BY <1>1, <2>1, <2>4, <2>10 DEF DescriptorsOK, GrowingOK
  <2>14. MappedOK'
    <3>1. \A u \in Spans : n[u] > 0 => n'[u] > 0
      <4>1. n[releasing] + n[t] > 0  OBVIOUS
      <4> QED  BY <2>9, <2>10, <4>1
    <3> QED  BY <1>1, <3>1 DEF DescriptorsOK, MappedOK, TypeOK
  <2>15. LiveOK'
    <3>1. \A u : u \in Listed => u \in Listed' \/ u = t
      <4> SUFFICES ASSUME NEW u, u \in Listed, u # t PROVE u \in Listed'
        OBVIOUS
      <4>1. PICK j \in 1 .. Limit : u \in Range(spanLists[j])  BY ListedMember
      <4>2. u \in Range(spanLists'[j])
        <5>1. CASE j = k  BY <2>6, <2>7, <4>1, <5>1
        <5>2. CASE j # k  BY <2>7, <4>1, <5>2
        <5> QED  BY <5>1, <5>2
      <4> QED  BY <4>2, ListedMember
    <3> QED  BY <2>1, <3>1 DEF DescriptorsOK, LiveOK, Active
  <2> QED  BY <2>8, <2>11, <2>12, <2>13, <2>14, <2>15 DEF DescriptorsOK
<1> QED  BY <1>2, <1>3

(* A release ends: its span is listed. *)
LEMMA FinishKeeps ==
  ASSUME DescriptorsOK, FinishRelease
  PROVE  DescriptorsOK'
<1> USE LimitType, NoSpanAssumption
<1>1. PICK s : s = releasing
  OBVIOUS
<1>2. TypeOK /\ ListsOK /\ op = "next" /\ s \in live /\ s \notin used /\ s \in Spans
  BY <1>1 DEF DescriptorsOK, FinishRelease, GrowingOK, TypeOK
<1>3. PICK k \in 1 .. Limit : k = n[s]
  BY <1>1, <1>2 DEF DescriptorsOK, GrowingOK
<1>4. PICK q : q = <<s>> \o spanLists[k]
  OBVIOUS
<1>5. /\ spanLists' = [spanLists EXCEPT ![k] = q]
      /\ idSpanMap' = [p \in Pages |-> IF p \in {pageId[s], pageId[s] + n[s] - 1}
                                       THEN s ELSE idSpanMap[p]]
      /\ isUse' = [isUse EXCEPT ![s] = FALSE] /\ op' = "idle" /\ releasing' = NoSpan
      /\ UNCHANGED <<pageId, n, live, sysPages, used>>
  BY <1>1, <1>3, <1>4 DEF FinishRelease
<1>6. s \notin Range(spanLists[k])
  BY <1>1, <1>2 DEF ListsOK
<1>7. q \in Seq(Spans) /\ Range(q) = Range(spanLists[k]) \cup {s} /\ NoDup(q)
  BY <1>2, <1>4, <1>6, PushFrontList DEF TypeOK, ListsOK
<1>8. \A j \in 1 .. Limit : spanLists'[j] = IF j = k THEN q ELSE spanLists[j]
  BY <1>2, <1>5 DEF TypeOK
<1>9. TypeOK'
  <2>1. spanLists' \in [1 .. Limit -> Seq(Spans)]
    BY <1>2, <1>5, <1>7 DEF TypeOK
  <2>2. idSpanMap' \in [Pages -> Spans \cup {NoSpan}]
    BY <1>2, <1>5 DEF TypeOK
  <2> QED  BY <1>2, <1>5, <2>1, <2>2 DEF TypeOK
<1>10. ListsOK'
  <2> SUFFICES ASSUME NEW j \in 1 .. Limit
               PROVE  /\ NoDup(spanLists'[j])
                      /\ \A u \in Range(spanLists'[j]) :
                           u \in live /\ u \notin used /\ u # NoSpan /\ n[u] = j
    BY <1>5 DEF ListsOK
  <2>1. NoDup(spanLists'[j])
    BY <1>2, <1>7, <1>8 DEF ListsOK
  <2>2. ASSUME NEW u \in Range(spanLists'[j])
        PROVE  u \in live /\ u \notin used /\ u # NoSpan /\ n[u] = j
    <3>1. u \in Range(spanLists[j]) \/ (j = k /\ u = s)
      <4>1. CASE j = k  BY <1>7, <1>8, <4>1
      <4>2. CASE j # k  BY <1>8, <4>2
      <4> QED  BY <4>1, <4>2
    <3> QED  BY <1>2, <1>3, <3>1 DEF ListsOK, TypeOK
  <2> QED  BY <2>1, <2>2
<1>11. HeldOK' /\ GrowingOK'
  <2>1. \A u \in used : u # NoSpan  BY <1>2 DEF TypeOK
  <2> QED  BY <1>5, <2>1 DEF DescriptorsOK, HeldOK, GrowingOK
<1>12. MappedOK'
  <2>1. \A p \in Pages : idSpanMap'[p] \in {s, idSpanMap[p]}
    BY <1>5
  <2> QED  BY <1>3, <1>5, <2>1 DEF DescriptorsOK, MappedOK
<1>13. LiveOK'
  <2>1. s \in Listed'
    BY <1>7, <1>8, ListedMember
  <2>2. \A u : u \in Listed => u \in Listed'
    <3> SUFFICES ASSUME NEW u, u \in Listed PROVE u \in Listed'
      OBVIOUS
    <3>1. PICK j \in 1 .. Limit : u \in Range(spanLists[j])  BY ListedMember
    <3>2. u \in Range(spanLists'[j])
      <4>1. CASE j = k  BY <1>7, <1>8, <3>1, <4>1
      <4>2. CASE j # k  BY <1>8, <3>1, <4>2
      <4> QED  BY <4>1, <4>2
    <3> QED  BY <3>2, ListedMember
  <2> QED  BY <1>1, <1>2, <1>5, <2>1, <2>2 DEF DescriptorsOK, LiveOK, Active
<1> QED  BY <1>9, <1>10, <1>11, <1>12, <1>13 DEF DescriptorsOK

(* At the start nothing is live. *)
LEMMA DescriptorsInit == Init => DescriptorsOK
<1> SUFFICES ASSUME Init PROVE DescriptorsOK
  OBVIOUS
<1> USE LimitType, NoSpanAssumption
<1>1. TypeOK
  BY DEF Init, TypeOK
<1>2. \A k \in 1 .. Limit : Range(spanLists[k]) = {} /\ NoDup(spanLists[k])
  BY DEF Init, Range, NoDup
<1>3. ListsOK
  BY <1>2 DEF ListsOK
<1>4. HeldOK /\ GrowingOK /\ MappedOK /\ LiveOK
  BY DEF Init, HeldOK, GrowingOK, MappedOK, LiveOK
<1> QED  BY <1>1, <1>3, <1>4 DEF DescriptorsOK

(* One step. *)
LEMMA DescriptorsNext ==
  ASSUME DescriptorsOK, [Next]_vars
  PROVE  DescriptorsOK' \/ (op' = "corrupt" /\ TypeOK')
<1>1. ASSUME NEW k \in CentralRequests \cup LargeRequests, NEW s \in Spans,
             NEW inUse \in BOOLEAN, NewSpan(k, inUse, s)
      PROVE  DescriptorsOK'
  <2>1. k \in Nat \ {0}
    BY Requested
  <2>2. op = "idle" /\ used' = used \cup {s} /\ UNCHANGED <<op, releasing>>
    BY <1>1 DEF NewSpan
  <2>3. CASE NewHugeSpan(k, inUse, s)  BY <2>1, <2>2, <2>3, HugeKeeps
  <2>4. CASE TakeWhole(k, inUse, s)  BY <2>1, <2>2, <2>4, WholeKeeps
  <2>5. CASE SplitLonger(k, inUse, s)  BY <2>1, <2>2, <2>5, SplitKeeps
  <2>6. CASE GrowAndTake(k, inUse, s)  BY <2>1, <2>2, <2>6, GrowKeeps
  <2> QED  BY <1>1, <2>3, <2>4, <2>5, <2>6 DEF NewSpan
<1>2. ASSUME MergePrev PROVE DescriptorsOK' \/ (op' = "corrupt" /\ TypeOK')
  <2>1. /\ op \in {"prev", "next"} /\ Mergeable(PrevSpan) /\ Absorb(PrevSpan, pageId[PrevSpan])
        /\ UNCHANGED <<isUse, idSpanMap, sysPages, used, releasing>>
    BY <1>2 DEF MergePrev
  <2>2. PICK t : t = PrevSpan
    OBVIOUS
  <2>3. /\ t \in Spans /\ n[t] \in 1 .. Limit /\ releasing \in Spans
        /\ n[releasing] \in 1 .. Limit /\ n[releasing] + n[t] \in 1 .. Limit
    BY <2>1, <2>2, NeighbourLength DEF PrevSpan
  <2>4. pageId[t] \in Nat
    BY <2>3 DEF DescriptorsOK, TypeOK
  <2> QED  BY <2>1, <2>2, <2>3, <2>4, AbsorbKeeps
<1>3. ASSUME MergeNext PROVE DescriptorsOK' \/ (op' = "corrupt" /\ TypeOK')
  <2>1. /\ op \in {"prev", "next"} /\ Mergeable(NextSpan) /\ Absorb(NextSpan, pageId[releasing])
        /\ UNCHANGED <<isUse, idSpanMap, sysPages, used, releasing>>
    BY <1>3 DEF MergeNext
  <2>2. PICK t : t = NextSpan
    OBVIOUS
  <2>3. /\ t \in Spans /\ n[t] \in 1 .. Limit /\ releasing \in Spans
        /\ n[releasing] \in 1 .. Limit /\ n[releasing] + n[t] \in 1 .. Limit
    BY <2>1, <2>2, NeighbourLength DEF NextSpan
  <2>4. pageId[releasing] \in Nat
    BY <2>3 DEF DescriptorsOK, TypeOK
  <2> QED  BY <2>1, <2>2, <2>3, <2>4, AbsorbKeeps
<1>4. ASSUME StopPrev PROVE DescriptorsOK'
  <2>1. /\ op = "prev" /\ op' = "next"
        /\ UNCHANGED <<pageId, n, isUse, live, spanLists, idSpanMap, sysPages, used, releasing>>
    BY <1>4 DEF StopPrev
  <2>2. Active' = Active
    BY <2>1 DEF Active, Listed
  <2>3. TypeOK' /\ MappedOK' /\ LiveOK'
    BY <2>1, <2>2 DEF DescriptorsOK, TypeOK, MappedOK, LiveOK
  <2>4. ListsOK'
    BY <2>1 DEF DescriptorsOK, ListsOK
  <2>5. HeldOK' /\ GrowingOK'
    BY <2>1 DEF DescriptorsOK, HeldOK, GrowingOK
  <2> QED  BY <2>3, <2>4, <2>5 DEF DescriptorsOK
<1>5. ASSUME UNCHANGED vars PROVE DescriptorsOK'
  BY <1>5 DEF vars, DescriptorsOK, TypeOK, ListsOK, HeldOK, GrowingOK, MappedOK, LiveOK,
              Active, Listed
<1> QED  BY <1>1, <1>2, <1>3, <1>4, <1>5, ThrowsKeeps, HugeReleaseKeeps, StartKeeps, FinishKeeps
         DEF Next, ReleaseStep

(* Until a span that is on no list is merged, the descriptors on the       *)
(* lists, those held and the one being released are live and apart, and    *)
(* each list holds the spans of its length, once, huge requests or not.    *)
THEOREM DescriptorsInvariance == Spec => []DescriptorsUntilMerged
<1>1. Init => DescriptorsUntilMerged
  BY DescriptorsInit DEF DescriptorsUntilMerged, DescriptorsOK
<1>2. DescriptorsUntilMerged /\ [Next]_vars => DescriptorsUntilMerged'
  <2> SUFFICES ASSUME DescriptorsUntilMerged, [Next]_vars
               PROVE  DescriptorsUntilMerged'
    OBVIOUS
  <2>1. CASE Intact
    <3>1. DescriptorsOK' \/ (op' = "corrupt" /\ TypeOK')
      BY <2>1, DescriptorsNext DEF DescriptorsUntilMerged
    <3> QED  BY <3>1 DEF DescriptorsUntilMerged, DescriptorsOK, Intact
  <2>2. CASE ~Intact
    <3>1. UNCHANGED vars  BY <2>2, CorruptStays DEF Intact
    <3> QED  BY <2>2, <3>1 DEF DescriptorsUntilMerged, Intact, TypeOK, vars
  <2> QED  BY <2>1, <2>2
<1> QED  BY <1>1, <1>2, PTL DEF Spec

(* Every variable of the page cache stays in its range, without the        *)
(* hypothesis on large requests that PageCacheProofs needs.                *)
THEOREM TypingAlways == Spec => []TypeOK
<1>1. DescriptorsUntilMerged => TypeOK
  BY DEF DescriptorsUntilMerged
<1> QED  BY <1>1, DescriptorsInvariance, PTL

(* No descriptor is leaked or used after ObjectPool::Delete, but for the   *)
(* one lost when SystemAlloc throws, until a span on no list is merged.    *)
THEOREM DescriptorsAlways == Spec => []DescriptorsAccounted
<1>1. DescriptorsUntilMerged => DescriptorsAccounted
  <2> SUFFICES ASSUME DescriptorsOK, Intact PROVE DescriptorsAccounted
    BY DEF DescriptorsUntilMerged, DescriptorsAccounted
  <2>1. \A s : s \in Listed => s \in live
    BY ListedMember DEF DescriptorsOK, ListsOK
  <2>2. used \subseteq live
    BY DEF DescriptorsOK, HeldOK
  <2>3. releasing # NoSpan => releasing \in live
    BY DEF DescriptorsOK, GrowingOK, TypeOK, Intact
  <2>4. Active \subseteq live
    BY <2>1, <2>2, <2>3 DEF Active
  <2> QED  BY <2>4 DEF DescriptorsOK, LiveOK, DescriptorsAccounted
<1> QED  BY <1>1, DescriptorsInvariance, PTL

-----------------------------------------------------------------------------
(* A ring is the list it goes round, with the head at both ends. *)

At(k, q, i) == IF i \in 1 .. Len(q) THEN q[i] ELSE k

Ring(m, k, q) ==
  \A i \in 0 .. Len(q) : /\ m.next[At(k, q, i)] = At(k, q, i + 1)
                         /\ m.prev[At(k, q, i + 1)] = At(k, q, i)

MemoryOK(m) ==
  /\ m.next \in [Nodes -> Nodes \cup {NoSpan}]
  /\ m.prev \in [Nodes -> Nodes \cup {NoSpan}]

ApartLists(L) ==
  /\ L \in [1 .. Limit -> Seq(Spans)]
  /\ \A k \in 1 .. Limit : NoDup(L[k])
  /\ \A j, k \in 1 .. Limit : j # k => Range(L[j]) \cap Range(L[k]) = {}

Rings(m, L) == MemoryOK(m) /\ \A k \in 1 .. Limit : Ring(m, k, L[k])

(* A head is no descriptor. *)
LEMMA HeadsApart == \A k \in 1 .. Limit : k \in Nodes /\ k \notin Spans /\ k # NoSpan
BY HeadsAssumption DEF Limit, Nodes

(* Each place of a ring but one of the head's two is another node.         *)
LEMMA AtFacts ==
  ASSUME NEW k \in 1 .. Limit, NEW q \in Seq(Spans), NoDup(q)
  PROVE  /\ Len(q) \in Nat
         /\ At(k, q, 0) = k /\ At(k, q, Len(q) + 1) = k
         /\ \A i \in 1 .. Len(q) : /\ At(k, q, i) = q[i] /\ q[i] \in Range(q)
                                   /\ q[i] \in Spans /\ q[i] # k
         /\ \A i \in 0 .. Len(q) + 1 : At(k, q, i) \in Range(q) \cup {k}
         /\ Range(q) \subseteq Spans
         /\ \A i, j \in 0 .. Len(q) : At(k, q, i) = At(k, q, j) => i = j
         /\ \A i, j \in 1 .. Len(q) + 1 : At(k, q, i) = At(k, q, j) => i = j
<1>1. Len(q) \in Nat /\ DOMAIN q = 1 .. Len(q) /\ \A i \in 1 .. Len(q) : q[i] \in Spans
  OBVIOUS
<1>2. At(k, q, 0) = k /\ At(k, q, Len(q) + 1) = k
  BY <1>1 DEF At
<1>3. \A i \in 1 .. Len(q) : /\ At(k, q, i) = q[i] /\ q[i] \in Range(q)
                             /\ q[i] \in Spans /\ q[i] # k
  BY <1>1, HeadsApart DEF At, Range
<1>4. \A i \in 0 .. Len(q) + 1 : At(k, q, i) \in Range(q) \cup {k}
  BY <1>1 DEF At, Range
<1>5. Range(q) \subseteq Spans
  BY <1>1 DEF Range
<1>6. \A i, j \in 1 .. Len(q) : q[i] = q[j] => i = j
  BY <1>1 DEF NoDup
<1>7. \A i \in 0 .. Len(q) : i = 0 \/ i \in 1 .. Len(q)
  BY <1>1
<1>8. \A i \in 1 .. Len(q) + 1 : i = Len(q) + 1 \/ i \in 1 .. Len(q)
  BY <1>1
<1>9. \A i, j \in 0 .. Len(q) : At(k, q, i) = At(k, q, j) => i = j
  BY <1>2, <1>3, <1>6, <1>7
<1>10. \A i, j \in 1 .. Len(q) + 1 : At(k, q, i) = At(k, q, j) => i = j
  BY <1>2, <1>3, <1>6, <1>8
<1> QED  BY <1>1, <1>2, <1>3, <1>4, <1>5, <1>9, <1>10

(* A ring none of whose nodes is written to stays as it is. *)
LEMMA RingStays ==
  ASSUME NEW m, NEW m2, NEW k \in 1 .. Limit, NEW q \in Seq(Spans), NoDup(q), Ring(m, k, q),
         \A x \in Range(q) \cup {k} : m2.next[x] = m.next[x] /\ m2.prev[x] = m.prev[x]
  PROVE  Ring(m2, k, q)
<1> SUFFICES ASSUME NEW i \in 0 .. Len(q)
             PROVE  /\ m2.next[At(k, q, i)] = At(k, q, i + 1)
                    /\ m2.prev[At(k, q, i + 1)] = At(k, q, i)
  BY DEF Ring
<1>1. i \in 0 .. Len(q) + 1 /\ i + 1 \in 0 .. Len(q) + 1
  BY AtFacts
<1>2. At(k, q, i) \in Range(q) \cup {k} /\ At(k, q, i + 1) \in Range(q) \cup {k}
  BY <1>1, AtFacts
<1> QED  BY <1>2 DEF Ring

(* Only the nodes of S are written to. *)
WrittenTo(m, m2, S) ==
  \A x \in Nodes \ S : m2.next[x] = m.next[x] /\ m2.prev[x] = m.prev[x]

(* r is q without what it has at i. *)
Without(r, q, i) ==
  /\ Len(r) = Len(q) - 1
  /\ \A j \in 1 .. Len(r) : r[j] = IF j < i THEN q[j] ELSE q[j + 1]

(* SpanList::PushFront. *)
LEMMA RingPushed ==
  ASSUME NEW m, NEW k \in 1 .. Limit, NEW q \in Seq(Spans), NoDup(q), Ring(m, k, q),
         MemoryOK(m), NEW s \in Spans, s \notin Range(q)
  PROVE  /\ Ring(Lists!PushFront(m, k, s), k, <<s>> \o q)
         /\ MemoryOK(Lists!PushFront(m, k, s))
         /\ WrittenTo(m, Lists!PushFront(m, k, s), Range(q) \cup {k, s})
<1>1. PICK m2, a : m2 = Lists!PushFront(m, k, s) /\ a = At(k, q, 1)
  OBVIOUS
<1>2. Len(q) \in Nat /\ 0 \in 0 .. Len(q)
  BY AtFacts
<1>3. m.next[k] = a /\ m.prev[a] = k
  <2>1. m.next[At(k, q, 0)] = At(k, q, 0 + 1) /\ m.prev[At(k, q, 0 + 1)] = At(k, q, 0)
    BY <1>2 DEF Ring
  <2> QED  BY <1>1, <2>1, AtFacts
<1>4. a \in Range(q) \cup {k} /\ a \in Nodes /\ k \in Nodes /\ s \in Nodes /\ s # k /\ s # a
  <2>1. a \in Range(q) \cup {k}
    BY <1>1, <1>2, AtFacts
  <2> QED  BY <2>1, AtFacts, HeadsApart DEF Nodes
<1>5. /\ m2.next = [m.next EXCEPT ![k] = s, ![s] = a]
      /\ m2.prev = [m.prev EXCEPT ![s] = k, ![a] = s]
  BY <1>1, <1>3 DEF Lists!PushFront, Lists!Begin, Lists!Insert
<1>6. MemoryOK(m2)
  <2>1. m2.next \in [Nodes -> Nodes \cup {NoSpan}]
    BY <1>4, <1>5, Zenon DEF MemoryOK
  <2>2. m2.prev \in [Nodes -> Nodes \cup {NoSpan}]
    BY <1>4, <1>5, Zenon DEF MemoryOK
  <2> QED  BY <2>1, <2>2 DEF MemoryOK
<1>7. /\ m2.next[k] = s /\ m2.next[s] = a /\ m2.prev[s] = k /\ m2.prev[a] = s
      /\ \A x \in Nodes : /\ x # k /\ x # s => m2.next[x] = m.next[x]
                          /\ x # a /\ x # s => m2.prev[x] = m.prev[x]
  BY <1>4, <1>5 DEF MemoryOK
<1>8. PICK r : r = <<s>> \o q
  OBVIOUS
<1>9. r \in Seq(Spans) /\ Len(r) = Len(q) + 1 /\ r[1] = s /\ \A i \in 1 .. Len(q) : r[i + 1] = q[i]
  BY <1>8
<1>10. /\ At(k, r, 0) = k /\ At(k, r, 1) = s
       /\ \A i \in 1 .. Len(q) + 1 : At(k, r, i + 1) = At(k, q, i)
  <2>1. At(k, r, 0) = k /\ At(k, r, 1) = s
    BY <1>2, <1>9 DEF At
  <2>2. ASSUME NEW i \in 1 .. Len(q) PROVE At(k, r, i + 1) = At(k, q, i)
    <3>1. i + 1 \in 1 .. Len(r)  BY <1>2, <1>9
    <3> QED  BY <1>9, <3>1 DEF At
  <2>3. At(k, r, (Len(q) + 1) + 1) = At(k, q, Len(q) + 1)
    BY <1>2, <1>9 DEF At
  <2> QED  BY <1>2, <2>1, <2>2, <2>3
<1>11. ASSUME NEW i \in 0 .. Len(r)
       PROVE  /\ m2.next[At(k, r, i)] = At(k, r, i + 1)
              /\ m2.prev[At(k, r, i + 1)] = At(k, r, i)
  <2>1. CASE i = 0
    BY <1>7, <1>10, <2>1
  <2>2. CASE i = 1
    <3>1. 1 \in 1 .. Len(q) + 1  BY <1>2
    <3> QED  BY <1>1, <1>7, <1>10, <2>2, <3>1
  <2>3. CASE i # 0 /\ i # 1
    <3>1. PICK j \in 1 .. Len(q) : i = j + 1
      <4>1. i - 1 \in 1 .. Len(q) /\ i = (i - 1) + 1  BY <1>2, <1>9, <2>3
      <4> QED  BY <4>1
    <3>2. /\ j \in 1 .. Len(q) + 1 /\ j + 1 \in 1 .. Len(q) + 1 /\ j \in 0 .. Len(q)
          /\ j + 1 # 1 /\ 1 \in 1 .. Len(q) + 1 /\ j + 1 \in 0 .. Len(q) + 1
      BY <1>2, <3>1
    <3>3. At(k, r, i) = At(k, q, j) /\ At(k, r, i + 1) = At(k, q, j + 1)
      BY <1>10, <3>1, <3>2
    <3>4. m.next[At(k, q, j)] = At(k, q, j + 1) /\ m.prev[At(k, q, j + 1)] = At(k, q, j)
      BY <3>2 DEF Ring
    <3>5. At(k, q, j) \in Spans /\ At(k, q, j) # k /\ At(k, q, j) # s
      BY <3>1, AtFacts
    <3>6. At(k, q, j + 1) # a
      BY <1>1, <3>2, AtFacts
    <3>7. At(k, q, j + 1) \in Nodes /\ At(k, q, j + 1) # s
      <4>1. At(k, q, j + 1) \in Range(q) \cup {k}  BY <3>2, AtFacts
      <4> QED  BY <1>4, <4>1, AtFacts DEF Nodes
    <3>8. m2.next[At(k, q, j)] = At(k, q, j + 1)
      BY <1>7, <3>4, <3>5 DEF Nodes
    <3>9. m2.prev[At(k, q, j + 1)] = At(k, q, j)
      BY <1>7, <3>4, <3>6, <3>7
    <3> QED  BY <3>3, <3>8, <3>9
  <2> QED  BY <2>1, <2>2, <2>3
<1>12. Ring(m2, k, r)
  BY <1>11 DEF Ring
<1>13. WrittenTo(m, m2, Range(q) \cup {k, s})
  BY <1>4, <1>7 DEF WrittenTo
<1> QED  BY <1>1, <1>6, <1>8, <1>12, <1>13

(* SpanList::Erase of what stands at i: r is the list without it.          *)
LEMMA RingErased ==
  ASSUME NEW m, NEW k \in 1 .. Limit, NEW q \in Seq(Spans), NoDup(q), Ring(m, k, q),
         MemoryOK(m), NEW i \in 1 .. Len(q), NEW r \in Seq(Spans), Without(r, q, i)
  PROVE  /\ Ring(Lists!Erase(m, q[i]), k, r)
         /\ MemoryOK(Lists!Erase(m, q[i]))
         /\ WrittenTo(m, Lists!Erase(m, q[i]), Range(q) \cup {k})
<1>1. PICK m2, a, b : m2 = Lists!Erase(m, q[i]) /\ a = At(k, q, i - 1) /\ b = At(k, q, i + 1)
  OBVIOUS
<1>2. /\ Len(q) \in Nat /\ i - 1 \in 0 .. Len(q) /\ i \in 0 .. Len(q) /\ (i - 1) + 1 = i
      /\ i - 1 \in 0 .. Len(q) + 1 /\ i + 1 \in 0 .. Len(q) + 1 /\ i + 1 \in 1 .. Len(q) + 1
  BY AtFacts
<1>3. m.prev[q[i]] = a /\ m.next[q[i]] = b
  <2>1. At(k, q, i) = q[i]
    BY AtFacts
  <2>2. m.prev[At(k, q, (i - 1) + 1)] = At(k, q, i - 1) /\ m.next[At(k, q, i)] = At(k, q, i + 1)
    BY <1>2 DEF Ring
  <2> QED  BY <1>1, <1>2, <2>1, <2>2
<1>4. a \in Range(q) \cup {k} /\ b \in Range(q) \cup {k} /\ a \in Nodes /\ b \in Nodes
  <2>1. a \in Range(q) \cup {k} /\ b \in Range(q) \cup {k}
    BY <1>1, <1>2, AtFacts
  <2> QED  BY <2>1, AtFacts, HeadsApart DEF Nodes
<1>5. m2.next = [m.next EXCEPT ![a] = b] /\ m2.prev = [m.prev EXCEPT ![b] = a]
  BY <1>1, <1>3 DEF Lists!Erase
<1>6. MemoryOK(m2)
  BY <1>4, <1>5 DEF MemoryOK
<1>7. /\ m2.next[a] = b /\ m2.prev[b] = a
      /\ \A x \in Nodes : /\ x # a => m2.next[x] = m.next[x]
                          /\ x # b => m2.prev[x] = m.prev[x]
  BY <1>4, <1>5 DEF MemoryOK
<1>8. /\ \A j \in 0 .. i - 1 : At(k, r, j) = At(k, q, j)
      /\ \A j \in i .. Len(q) : At(k, r, j) = At(k, q, j + 1)
  <2> USE DEF Without
  <2>1. ASSUME NEW j \in 0 .. i - 1 PROVE At(k, r, j) = At(k, q, j)
    <3>1. CASE j = 0
      BY <1>2, <3>1 DEF At
    <3>2. CASE j # 0
      <4>1. j \in 1 .. Len(r) /\ j < i /\ j \in 1 .. Len(q)  BY <1>2, <3>2
      <4> QED  BY <4>1 DEF At
    <3> QED  BY <3>1, <3>2
  <2>2. ASSUME NEW j \in i .. Len(q) PROVE At(k, r, j) = At(k, q, j + 1)
    <3>1. CASE j = Len(q)
      <4>1. j \notin 1 .. Len(r) /\ j + 1 \notin 1 .. Len(q)  BY <1>2, <3>1
      <4> QED  BY <4>1 DEF At
    <3>2. CASE j # Len(q)
      <4>1. j \in 1 .. Len(r) /\ ~(j < i) /\ j + 1 \in 1 .. Len(q)  BY <1>2, <3>2
      <4> QED  BY <4>1 DEF At
    <3> QED  BY <3>1, <3>2
  <2> QED  BY <2>1, <2>2
<1>9. \A j \in 0 .. Len(q) : At(k, q, j) \in Nodes /\ At(k, q, j + 1) \in Nodes
  <2> TAKE j \in 0 .. Len(q)
  <2>1. j \in 0 .. Len(q) + 1 /\ j + 1 \in 0 .. Len(q) + 1
    BY <1>2
  <2>2. At(k, q, j) \in Range(q) \cup {k} /\ At(k, q, j + 1) \in Range(q) \cup {k}
    BY <2>1, AtFacts
  <2> QED  BY <2>2, AtFacts, HeadsApart DEF Nodes
<1> USE DEF Without
<1>10. ASSUME NEW j \in 0 .. Len(r)
       PROVE  /\ m2.next[At(k, r, j)] = At(k, r, j + 1)
              /\ m2.prev[At(k, r, j + 1)] = At(k, r, j)
  <2>1. CASE j < i - 1
    <3>1. j \in 0 .. i - 1 /\ j + 1 \in 0 .. i - 1 /\ j \in 0 .. Len(q) /\ j # i - 1
          /\ j + 1 \in 1 .. Len(q) + 1 /\ j + 1 # i + 1
      BY <1>2, <2>1
    <3>2. At(k, q, j) # a /\ At(k, q, j + 1) # b
      <4>1. \A x, y \in 0 .. Len(q) : At(k, q, x) = At(k, q, y) => x = y
        BY AtFacts, Zenon
      <4>2. \A x, y \in 1 .. Len(q) + 1 : At(k, q, x) = At(k, q, y) => x = y
        BY AtFacts, Zenon
      <4>3. i - 1 \in 0 .. Len(q) /\ i + 1 \in 1 .. Len(q) + 1  BY <1>2
      <4> QED  BY <1>1, <3>1, <4>1, <4>2, <4>3
    <3>3. m.next[At(k, q, j)] = At(k, q, j + 1) /\ m.prev[At(k, q, j + 1)] = At(k, q, j)
      BY <3>1 DEF Ring
    <3>4. At(k, r, j) = At(k, q, j) /\ At(k, r, j + 1) = At(k, q, j + 1)
      BY <1>8, <3>1
    <3> QED  BY <1>7, <1>9, <3>1, <3>2, <3>3, <3>4
  <2>2. CASE j = i - 1
    <3>1. j \in 0 .. i - 1 /\ j + 1 = i /\ i \in i .. Len(q)
      BY <1>2, <2>2
    <3>2. At(k, r, j) = a /\ At(k, r, j + 1) = b
      BY <1>1, <1>8, <2>2, <3>1
    <3> QED  BY <1>7, <3>2
  <2>3. CASE j > i - 1
    <3>1. /\ j \in i .. Len(q) /\ j + 1 \in i .. Len(q) /\ j + 1 \in 0 .. Len(q)
          /\ j + 1 # i - 1 /\ (j + 1) + 1 \in 1 .. Len(q) + 1 /\ (j + 1) + 1 # i + 1
      BY <1>2, <2>3
    <3>2. At(k, q, j + 1) # a /\ At(k, q, (j + 1) + 1) # b
      BY <1>1, <1>2, <3>1, AtFacts
    <3>3. /\ m.next[At(k, q, j + 1)] = At(k, q, (j + 1) + 1)
          /\ m.prev[At(k, q, (j + 1) + 1)] = At(k, q, j + 1)
      BY <3>1 DEF Ring
    <3>4. At(k, r, j) = At(k, q, j + 1) /\ At(k, r, j + 1) = At(k, q, (j + 1) + 1)
      BY <1>8, <3>1
    <3> QED  BY <1>7, <1>9, <3>1, <3>2, <3>3, <3>4
  <2> QED  BY <1>2, <2>1, <2>2, <2>3
<1>11. Ring(m2, k, r)
  BY <1>10 DEF Ring
<1>12. WrittenTo(m, m2, Range(q) \cup {k})
  BY <1>4, <1>7 DEF WrittenTo
<1> QED  BY <1>1, <1>6, <1>11, <1>12

(* s is on none of the lists. *)
Unlisted(L, s) == \A k \in 1 .. Limit : s \notin Range(L[k])

(* A ring is empty, or begins, as its list does. *)
LEMMA RingBegins ==
  ASSUME NEW m, NEW L, Rings(m, L), ApartLists(L), NEW k \in 1 .. Limit
  PROVE  /\ Lists!Empty(m, k) <=> L[k] = <<>>
         /\ L[k] # <<>> => Lists!Begin(m, k) = Head(L[k]) /\ Head(L[k]) = L[k][1]
<1>1. PICK q \in Seq(Spans) : q = L[k] /\ NoDup(q) /\ Ring(m, k, q)
  BY DEF Rings, ApartLists
<1>2. Len(q) \in Nat /\ 0 \in 0 .. Len(q) /\ (q = <<>> <=> Len(q) = 0)
  OBVIOUS
<1>3. m.next[k] = At(k, q, 1)
  <2>1. m.next[At(k, q, 0)] = At(k, q, 0 + 1)
    BY <1>1, <1>2 DEF Ring
  <2> QED  BY <1>1, <2>1, AtFacts
<1>4. CASE q = <<>>
  <2>1. At(k, q, 1) = k
    BY <1>2, <1>4 DEF At
  <2> QED  BY <1>1, <1>3, <1>4, <2>1 DEF Lists!Empty, Lists!Begin
<1>5. CASE q # <<>>
  <2>1. 1 \in 1 .. Len(q) /\ Head(q) = q[1]
    BY <1>2, <1>5
  <2>2. At(k, q, 1) = q[1] /\ q[1] # k
    BY <1>1, <2>1, AtFacts
  <2> QED  BY <1>1, <1>3, <1>5, <2>1, <2>2 DEF Lists!Empty, Lists!Begin
<1> QED  BY <1>4, <1>5

(* Writing to a descriptor that is on no list. *)
LEMMA ClearRings ==
  ASSUME NEW m, NEW L, Rings(m, L), ApartLists(L), NEW s \in Spans, Unlisted(L, s)
  PROVE  Rings(Lists!Cleared(m, s), L)
<1>1. PICK m2 : m2 = Lists!Cleared(m, s)
  OBVIOUS
<1>2. /\ m2.next = [m.next EXCEPT ![s] = NoSpan] /\ m2.prev = [m.prev EXCEPT ![s] = NoSpan]
      /\ MemoryOK(m) /\ s \in Nodes
  BY <1>1 DEF Lists!Cleared, Rings, Nodes
<1>3. MemoryOK(m2)
  BY <1>2 DEF MemoryOK
<1>4. \A x \in Nodes : x # s => m2.next[x] = m.next[x] /\ m2.prev[x] = m.prev[x]
  BY <1>2 DEF MemoryOK
<1>5. ASSUME NEW k \in 1 .. Limit PROVE Ring(m2, k, L[k])
  <2>1. PICK q \in Seq(Spans) : q = L[k] /\ NoDup(q) /\ Ring(m, k, q) /\ s \notin Range(q)
    BY DEF Rings, ApartLists, Unlisted
  <2>2. \A x \in Range(q) \cup {k} : x \in Nodes /\ x # s
    BY <2>1, AtFacts, HeadsApart DEF Nodes
  <2>3. Ring(m2, k, q)
    BY <1>4, <2>1, <2>2, RingStays
  <2> QED  BY <2>1, <2>3
<1> QED  BY <1>1, <1>3, <1>5 DEF Rings

(* The same, or nothing. *)
LEMMA HandedOutRings ==
  ASSUME NEW m, NEW L, Rings(m, L), ApartLists(L), NEW s \in Spans, Unlisted(L, s),
         NEW inUse \in BOOLEAN
  PROVE  Rings(HandedOut(m, inUse, s), L)
BY ClearRings DEF HandedOut

(* The lists with q for the list k. *)
With(L, k, q) == [L EXCEPT ![k] = q]

(* A write to one ring leaves the others alone. *)
LEMMA OtherRings ==
  ASSUME NEW m, NEW m2, NEW L, Rings(m, L), ApartLists(L), NEW k \in 1 .. Limit,
         NEW q, Ring(m2, k, q), MemoryOK(m2),
         NEW s \in Spans, \A j \in 1 .. Limit \ {k} : s \notin Range(L[j]),
         WrittenTo(m, m2, Range(L[k]) \cup {k, s})
  PROVE  Rings(m2, With(L, k, q))
<1> DEFINE M == With(L, k, q)
<1>1. \A j \in 1 .. Limit : M[j] = IF j = k THEN q ELSE L[j]
  BY DEF ApartLists, With
<1> HIDE DEF M
<1>2. ASSUME NEW j \in 1 .. Limit, j # k PROVE Ring(m2, j, L[j])
  <2>1. PICK r \in Seq(Spans) : r = L[j] /\ NoDup(r) /\ Ring(m, j, r) /\ s \notin Range(r)
                                /\ Range(r) \cap Range(L[k]) = {}
    BY <1>2 DEF Rings, ApartLists
  <2>2. Range(L[k]) \subseteq Spans
    BY AtFacts DEF ApartLists
  <2>3. \A x \in Range(r) \cup {j} : x \in Nodes /\ x # s /\ x \notin Range(L[k]) \cup {k}
    BY <1>2, <2>1, <2>2, AtFacts, HeadsApart DEF Nodes
  <2>4. \A x \in Range(r) \cup {j} : m2.next[x] = m.next[x] /\ m2.prev[x] = m.prev[x]
    BY <2>3 DEF WrittenTo
  <2>5. Ring(m2, j, r)
    BY <2>1, <2>4, RingStays
  <2> QED  BY <2>1, <2>5
<1>3. Rings(m2, M)
  BY <1>1, <1>2 DEF Rings
<1> QED  BY <1>3 DEF M

(* A span is put at the front of a list. *)
LEMMA PushRings ==
  ASSUME NEW m, NEW L, Rings(m, L), ApartLists(L), NEW k \in 1 .. Limit,
         NEW s \in Spans, Unlisted(L, s)
  PROVE  /\ Rings(Lists!PushFront(m, k, s), With(L, k, <<s>> \o L[k]))
         /\ ApartLists(With(L, k, <<s>> \o L[k]))
<1>1. PICK m2, q, r, M : /\ m2 = Lists!PushFront(m, k, s)
                         /\ q = L[k] /\ r = <<s>> \o q /\ M = With(L, k, r)
  OBVIOUS
<1>2. q \in Seq(Spans) /\ NoDup(q) /\ Ring(m, k, q) /\ MemoryOK(m) /\ s \notin Range(q)
  BY <1>1 DEF Rings, ApartLists, Unlisted
<1>3. Ring(m2, k, r) /\ MemoryOK(m2) /\ WrittenTo(m, m2, Range(q) \cup {k, s})
  BY <1>1, <1>2, RingPushed
<1>4. M = With(L, k, r) /\ \A j \in 1 .. Limit \ {k} : s \notin Range(L[j])
  BY <1>1 DEF Unlisted
<1>5. Rings(m2, M)
  BY <1>1, <1>3, <1>4, OtherRings
<1>6. r \in Seq(Spans) /\ Range(r) = Range(q) \cup {s} /\ NoDup(r)
  BY <1>1, <1>2, PushFrontList
<1>7. /\ M \in [1 .. Limit -> Seq(Spans)]
      /\ \A j \in 1 .. Limit : M[j] = IF j = k THEN r ELSE L[j]
  BY <1>4, <1>6 DEF ApartLists, With
<1>8. ApartLists(M)
  <2>1. \A j \in 1 .. Limit : NoDup(M[j])
    BY <1>6, <1>7 DEF ApartLists
  <2>2. ASSUME NEW i \in 1 .. Limit, NEW j \in 1 .. Limit, i # j
        PROVE  Range(M[i]) \cap Range(M[j]) = {}
    <3>1. Range(L[i]) \cap Range(L[j]) = {}
      BY <2>2 DEF ApartLists
    <3>2. Range(M[i]) = IF i = k THEN Range(L[i]) \cup {s} ELSE Range(L[i])
      BY <1>1, <1>6, <1>7
    <3>3. Range(M[j]) = IF j = k THEN Range(L[j]) \cup {s} ELSE Range(L[j])
      BY <1>1, <1>6, <1>7
    <3> QED  BY <2>2, <3>1, <3>2, <3>3 DEF Unlisted
  <2> QED  BY <1>7, <2>1, <2>2 DEF ApartLists
<1> QED  BY <1>1, <1>5, <1>8

(* What stands at i is taken off a list. *)
LEMMA EraseRings ==
  ASSUME NEW m, NEW L, Rings(m, L), ApartLists(L), NEW k \in 1 .. Limit,
         NEW i \in 1 .. Len(L[k]), NEW r \in Seq(Spans), Without(r, L[k], i)
  PROVE  /\ Rings(Lists!Erase(m, L[k][i]), With(L, k, r))
         /\ ApartLists(With(L, k, r)) /\ Unlisted(With(L, k, r), L[k][i])
<1>1. PICK q, M : q = L[k] /\ M = With(L, k, r)
  OBVIOUS
<1>2. PICK s, m2 : s = q[i] /\ m2 = Lists!Erase(m, s)
  OBVIOUS
<1>3. q \in Seq(Spans) /\ NoDup(q) /\ Ring(m, k, q) /\ MemoryOK(m)
  BY <1>1 DEF Rings, ApartLists
<1>4. i \in 1 .. Len(q) /\ Without(r, q, i)
  BY <1>1
<1>5. Ring(m2, k, r) /\ MemoryOK(m2) /\ WrittenTo(m, m2, Range(q) \cup {k})
  BY <1>2, <1>3, <1>4, RingErased
<1>6. i \in DOMAIN q /\ s \in Range(q) /\ s \in Spans
  BY <1>2, <1>3, <1>4, AtFacts
<1>7. \A j \in 1 .. Limit \ {k} : s \notin Range(L[j])
  BY <1>1, <1>6 DEF ApartLists
<1>8. Rings(m2, M)
  <2>1. WrittenTo(m, m2, Range(L[k]) \cup {k, s})
    BY <1>1, <1>5 DEF WrittenTo
  <2> QED  BY <1>1, <1>5, <1>6, <1>7, <2>1, OtherRings
<1>9. Range(r) = Range(q) \ {s} /\ NoDup(r)
  <2>1. /\ Len(r) = Len(q) - 1
        /\ \A j \in 1 .. Len(r) : r[j] = IF j < i THEN q[j] ELSE q[j + 1]
    BY <1>4 DEF Without
  <2>2. i \in DOMAIN q /\ NoDup(q) /\ q \in Seq(Spans)
    BY <1>3, <1>6
  <2>3. Range(r) = Range(q) \ {q[i]} /\ NoDup(r)
    BY <2>1, <2>2, DropIndex
  <2> QED  BY <1>2, <2>3
<1>10. /\ M \in [1 .. Limit -> Seq(Spans)]
       /\ \A j \in 1 .. Limit : M[j] = IF j = k THEN r ELSE L[j]
  BY <1>1 DEF ApartLists, With
<1>11. \A j \in 1 .. Limit : Range(M[j]) = Range(L[j]) \ {s}
  BY <1>1, <1>7, <1>9, <1>10
<1>12. ApartLists(M)
  BY <1>9, <1>10, <1>11 DEF ApartLists
<1>13. Unlisted(M, s)
  BY <1>11 DEF Unlisted
<1> QED  BY <1>1, <1>2, <1>8, <1>12, <1>13

(* The front of a list is taken off. *)
LEMMA PopRings ==
  ASSUME NEW m, NEW L, Rings(m, L), ApartLists(L), NEW k \in 1 .. Limit,
         L[k] # <<>>
  PROVE  /\ Rings(Lists!PopFront(m, k), With(L, k, Tail(L[k])))
         /\ ApartLists(With(L, k, Tail(L[k]))) /\ Unlisted(With(L, k, Tail(L[k])), Head(L[k]))
         /\ Lists!Begin(m, k) = Head(L[k]) /\ Head(L[k]) \in Spans
<1>1. PICK r : r = Tail(L[k])
  OBVIOUS
<1>2. L[k] \in Seq(Spans)
  BY DEF ApartLists
<1>3. /\ r \in Seq(Spans) /\ Len(r) = Len(L[k]) - 1 /\ 1 \in 1 .. Len(L[k])
      /\ \A j \in 1 .. Len(r) : r[j] = L[k][j + 1]
      /\ Head(L[k]) \in Spans
  BY <1>1, <1>2
<1>4. Without(r, L[k], 1)
  BY <1>3 DEF Without
<1>5. /\ Rings(Lists!Erase(m, L[k][1]), With(L, k, r))
      /\ ApartLists(With(L, k, r)) /\ Unlisted(With(L, k, r), L[k][1])
  BY <1>1, <1>3, <1>4, EraseRings
<1>6. Lists!Begin(m, k) = Head(L[k]) /\ Head(L[k]) = L[k][1]
  BY RingBegins
<1>7. Lists!PopFront(m, k) = Lists!Erase(m, L[k][1])
  BY <1>6 DEF Lists!PopFront
<1> QED  BY <1>1, <1>3, <1>5, <1>6, <1>7

-----------------------------------------------------------------------------
(* The ObjectPool: the dead descriptors hang on _freeList, once each. *)

After(chain, i) == IF i \in 1 .. Len(chain) THEN chain[i] ELSE NoSpan

Hangs(p, chain) ==
  /\ p.first = After(chain, 1)
  /\ \A i \in 1 .. Len(chain) : p.link[chain[i]] = After(chain, i + 1)

PoolType == [first : Spans \cup {NoSpan}, link : [Spans -> Spans \cup {NoSpan}],
             cut : SUBSET Spans]

PoolOK(p, alive) ==
  /\ p \in PoolType
  /\ alive \subseteq p.cut
  /\ \E chain \in Seq(Spans) :
       NoDup(chain) /\ Range(chain) = p.cut \ alive /\ Hangs(p, chain)

(* New answers a descriptor that is not in use. *)
LEMMA PoolNew ==
  ASSUME NEW p, NEW alive, PoolOK(p, alive), NEW s \in Lists!Offers(p)
  PROVE  s \in Spans /\ s \notin alive /\ PoolOK(Lists!New(p, s), alive \cup {s})
<1> USE NoSpanAssumption
<1>1. p \in PoolType /\ alive \subseteq p.cut /\ p.cut \subseteq Spans
  BY DEF PoolOK, PoolType
<1>2. PICK chain \in Seq(Spans) :
        NoDup(chain) /\ Range(chain) = p.cut \ alive /\ Hangs(p, chain)
  BY DEF PoolOK
<1>3. Len(chain) \in Nat /\ (chain = <<>> <=> Len(chain) = 0)
      /\ \A i \in 1 .. Len(chain) : chain[i] \in Spans
  OBVIOUS
<1>4. PICK p2 : p2 = Lists!New(p, s)
  OBVIOUS
<1>5. CASE p.first # NoSpan
  <2>1. s = p.first /\ p2 = [p EXCEPT !.first = p.link[s], !.link[s] = NoSpan]
    <3>1. s = p.first
      BY <1>5 DEF Lists!Offers
    <3>2. p2 = [p EXCEPT !.first = p.link[s], !.link[s] = NoSpan]
      BY <1>4, <1>5, Zenon DEF Lists!New
    <3> QED  BY <3>1, <3>2
  <2>2. chain # <<>> /\ 1 \in 1 .. Len(chain) /\ s = chain[1] /\ s = Head(chain) /\ s \in Spans
    <3>1. 1 \in 1 .. Len(chain)
      BY <1>2, <1>3, <1>5 DEF Hangs, After
    <3> QED  BY <1>2, <1>3, <2>1, <3>1 DEF Hangs, After
  <2>3. PICK r : r = Tail(chain)
    OBVIOUS
  <2>4. /\ r \in Seq(Spans) /\ Range(r) = Range(chain) \ {s} /\ NoDup(r)
        /\ s \in Range(chain)
    BY <1>2, <2>2, <2>3, PopFrontList
  <2>5. Len(r) = Len(chain) - 1 /\ \A i \in 1 .. Len(r) : r[i] = chain[i + 1]
    BY <2>2, <2>3
  <2>6. \A i \in 1 .. Len(chain) : After(r, i) = After(chain, i + 1)
    <3> TAKE i \in 1 .. Len(chain)
    <3>1. i \in 1 .. Len(r) <=> i + 1 \in 1 .. Len(chain)
      BY <1>3, <2>5
    <3> QED  BY <2>5, <3>1 DEF After
  <2>7. /\ p2.first = p.link[s] /\ p2.cut = p.cut /\ p2 \in PoolType
        /\ \A t \in Spans \ {s} : p2.link[t] = p.link[t]
    BY <1>1, <2>1, <2>2 DEF PoolType
  <2>8. Hangs(p2, r)
    <3>1. p2.first = After(r, 1)
      <4>1. p.link[chain[1]] = After(chain, 1 + 1)
        BY <1>2, <2>2 DEF Hangs
      <4>2. After(r, 1) = After(chain, 1 + 1)
        BY <2>2, <2>6
      <4> QED  BY <2>2, <2>7, <4>1, <4>2
    <3>2. ASSUME NEW i \in 1 .. Len(r) PROVE p2.link[r[i]] = After(r, i + 1)
      <4>1. i + 1 \in 1 .. Len(chain) /\ r[i] = chain[i + 1]
        BY <1>3, <2>5
      <4>2. p.link[chain[i + 1]] = After(chain, (i + 1) + 1)
        BY <1>2, <4>1 DEF Hangs
      <4>3. r[i] \in Range(r) /\ r[i] \in Spans
        BY <1>3, <4>1 DEF Range
      <4>4. p2.link[r[i]] = p.link[r[i]]
        BY <2>4, <2>7, <4>3
      <4> QED  BY <2>6, <4>1, <4>2, <4>4
    <3> QED  BY <3>1, <3>2 DEF Hangs
  <2>9. s \notin alive /\ alive \cup {s} \subseteq p2.cut /\ Range(r) = p2.cut \ (alive \cup {s})
    BY <1>1, <1>2, <2>4, <2>7
  <2> QED  BY <1>4, <2>2, <2>4, <2>7, <2>8, <2>9 DEF PoolOK
<1>6. CASE p.first = NoSpan
  <2>1. s \in Spans \ p.cut /\ p2 = [p EXCEPT !.cut = p.cut \cup {s}]
    BY <1>4, <1>6 DEF Lists!Offers, Lists!New
  <2>2. Len(chain) = 0
    BY <1>2, <1>3, <1>6 DEF Hangs, After
  <2>3. Range(chain) = {}
    BY <2>2 DEF Range
  <2>4. p2.first = p.first /\ p2.link = p.link /\ p2.cut = p.cut \cup {s} /\ p2 \in PoolType
    BY <1>1, <2>1 DEF PoolType
  <2>5. Hangs(p2, chain)
    BY <1>2, <2>4 DEF Hangs
  <2>6. s \notin alive /\ alive \cup {s} \subseteq p2.cut /\ Range(chain) = p2.cut \ (alive \cup {s})
    BY <1>1, <1>2, <2>1, <2>3, <2>4
  <2> QED  BY <1>2, <1>4, <2>1, <2>4, <2>5, <2>6 DEF PoolOK
<1> QED  BY <1>5, <1>6

(* Delete takes one back. *)
LEMMA PoolDelete ==
  ASSUME NEW p, NEW alive, PoolOK(p, alive), NEW s \in alive
  PROVE  PoolOK(Lists!Delete(p, s), alive \ {s})
<1> USE NoSpanAssumption
<1>1. p \in PoolType /\ alive \subseteq p.cut /\ p.cut \subseteq Spans /\ s \in Spans
  BY DEF PoolOK, PoolType
<1>2. PICK chain \in Seq(Spans) :
        NoDup(chain) /\ Range(chain) = p.cut \ alive /\ Hangs(p, chain)
  BY DEF PoolOK
<1>3. Len(chain) \in Nat /\ \A i \in 1 .. Len(chain) : chain[i] \in Spans /\ chain[i] \in Range(chain)
  BY DEF Range
<1>4. PICK p2, r : p2 = Lists!Delete(p, s) /\ r = <<s>> \o chain
  OBVIOUS
<1>5. p2 = [p EXCEPT !.link[s] = p.first, !.first = s]
  BY <1>4 DEF Lists!Delete
<1>6. /\ p2.first = s /\ p2.cut = p.cut /\ p2 \in PoolType /\ p2.link[s] = p.first
      /\ \A t \in Spans \ {s} : p2.link[t] = p.link[t]
  BY <1>1, <1>5 DEF PoolType
<1>7. s \notin Range(chain)
  BY <1>2
<1>8. r \in Seq(Spans) /\ Range(r) = Range(chain) \cup {s} /\ NoDup(r)
  BY <1>1, <1>2, <1>4, <1>7, PushFrontList
<1>9. Len(r) = Len(chain) + 1 /\ r[1] = s /\ \A i \in 1 .. Len(chain) : r[i + 1] = chain[i]
  BY <1>1, <1>4
<1>10. \A i \in 1 .. Len(chain) + 1 : After(r, i + 1) = After(chain, i)
  <2> TAKE i \in 1 .. Len(chain) + 1
  <2>1. i + 1 \in 1 .. Len(r) <=> i \in 1 .. Len(chain)
    BY <1>3, <1>9
  <2> QED  BY <1>9, <2>1 DEF After
<1>11. Hangs(p2, r)
  <2>1. p2.first = After(r, 1)
    BY <1>3, <1>6, <1>9 DEF After
  <2>2. ASSUME NEW i \in 1 .. Len(r) PROVE p2.link[r[i]] = After(r, i + 1)
    <3>1. CASE i = 1
      <4>1. After(r, 1 + 1) = After(chain, 1)
        BY <1>3, <1>10
      <4>2. p.first = After(chain, 1)
        BY <1>2 DEF Hangs
      <4> QED  BY <1>6, <1>9, <3>1, <4>1, <4>2
    <3>2. CASE i # 1
      <4>1. PICK j \in 1 .. Len(chain) : i = j + 1
        <5>1. i - 1 \in 1 .. Len(chain) /\ i = (i - 1) + 1
          BY <1>3, <1>9, <3>2
        <5> QED  BY <5>1
      <4>2. r[i] = chain[j] /\ chain[j] \in Spans \ {s}
        BY <1>3, <1>7, <1>9, <4>1
      <4>3. p.link[chain[j]] = After(chain, j + 1)
        BY <1>2 DEF Hangs
      <4>4. After(r, i + 1) = After(chain, j + 1)
        <5>1. i \in 1 .. Len(chain) + 1
          BY <1>9
        <5> QED  BY <1>10, <4>1, <5>1
      <4> QED  BY <1>6, <4>2, <4>3, <4>4
    <3> QED  BY <3>1, <3>2
  <2> QED  BY <2>1, <2>2 DEF Hangs
<1>12. alive \ {s} \subseteq p2.cut /\ Range(r) = p2.cut \ (alive \ {s})
  BY <1>1, <1>2, <1>6, <1>8
<1> QED  BY <1>4, <1>6, <1>8, <1>11, <1>12 DEF PoolOK

-----------------------------------------------------------------------------
(* Every step keeps both. *)

LinksOK ==
  DescriptorsOK /\ Rings(memory, spanLists) /\ PoolOK(pool, live)

(* What the lists of PageCache give the rings. *)
LEMMA ListsApart ==
  ASSUME DescriptorsOK
  PROVE  /\ ApartLists(spanLists)
         /\ \A s : s \notin live => Unlisted(spanLists, s)
         /\ Unlisted(spanLists, releasing)
<1>1. TypeOK /\ ListsOK
  BY DEF DescriptorsOK
<1>2. ApartLists(spanLists)
  BY <1>1 DEF ApartLists, TypeOK, ListsOK
<1>3. \A s : s \notin live => Unlisted(spanLists, s)
  BY <1>1 DEF Unlisted, ListsOK
<1>4. Unlisted(spanLists, releasing)
  BY <1>1 DEF Unlisted, ListsOK
<1> QED  BY <1>2, <1>3, <1>4

(* The code finds a list empty when it is. *)
LEMMA EmptyListed ==
  ASSUME LinksOK
  PROVE  /\ \A k \in 1 .. Limit : Lists!Empty(memory, k) <=> spanLists[k] = <<>>
         /\ \A low \in Nat \ {0} : \A high \in Int : high <= Limit =>
              (NoneLinked(low, high) <=> NoneListed(low, high))
<1>1. ASSUME NEW k \in 1 .. Limit PROVE Lists!Empty(memory, k) <=> spanLists[k] = <<>>
  <2>1. Rings(memory, spanLists) /\ ApartLists(spanLists)
    BY ListsApart DEF LinksOK
  <2> QED  BY <2>1, RingBegins
<1>2. ASSUME NEW low \in Nat \ {0}, NEW high \in Int, high <= Limit
      PROVE  NoneLinked(low, high) <=> NoneListed(low, high)
  <2>1. \A i \in low .. high : i \in 1 .. Limit
    BY <1>2, LimitType
  <2> QED  BY <1>1, <2>1 DEF NoneLinked, NoneListed
<1> QED  BY <1>1, <1>2

(* A descriptor is made, and its constructor writes over its pointers.     *)
LEMMA MakeKeeps ==
  ASSUME NEW s, NEW m, NEW L, PoolOK(pool, live), Rings(m, L), ApartLists(L),
         Unlisted(L, s), Make(s, m), live' = live \cup {s}
  PROVE  Rings(memory', L) /\ PoolOK(pool', live')
<1>1. s \in Lists!Offers(pool) /\ pool' = Lists!New(pool, s) /\ memory' = Lists!Cleared(m, s)
  BY DEF Make
<1>2. s \in Spans /\ PoolOK(pool', live')
  BY <1>1, PoolNew
<1>3. Rings(memory', L)
  BY <1>1, <1>2, ClearRings
<1> QED  BY <1>2, <1>3

(* NewSpan of more than a list can hold. *)
LEMMA HugeLinks ==
  ASSUME LinksOK, NEW k \in Nat \ {0}, NEW inUse \in BOOLEAN, NEW s \in Spans,
         NewSpan(k, inUse, s), HugeLinked(k, s)
  PROVE  Rings(memory', spanLists') /\ PoolOK(pool', live')
<1> USE LimitType
<1>1. k > Limit /\ Make(s, memory)
  BY DEF HugeLinked
<1>2. NewHugeSpan(k, inUse, s)
  <2>1. ~TakeWhole(k, inUse, s) /\ ~GrowAndTake(k, inUse, s)
    BY <1>1 DEF TakeWhole, GrowAndTake
  <2>2. ~SplitLonger(k, inUse, s)
    <3>1. k + 1 .. Limit = {}
      BY <1>1
    <3> QED  BY <3>1 DEF SplitLonger
  <2> QED  BY <2>1, <2>2 DEF NewSpan
<1>3. s \notin live /\ live' = live \cup {s} /\ spanLists' = spanLists
  BY <1>2 DEF NewHugeSpan
<1>4. /\ PoolOK(pool, live) /\ Rings(memory, spanLists) /\ ApartLists(spanLists)
      /\ Unlisted(spanLists, s)
  BY <1>3, ListsApart DEF LinksOK
<1>5. PICK m, L : m = memory /\ L = spanLists
  OBVIOUS
<1>6. Rings(memory', L) /\ PoolOK(pool', live')
  <2>1. Rings(m, L) /\ ApartLists(L) /\ Unlisted(L, s) /\ Make(s, m)
    BY <1>1, <1>4, <1>5
  <2> QED  BY <1>3, <1>4, <2>1, MakeKeeps
<1> QED  BY <1>3, <1>5, <1>6

(* NewSpan of a length that is listed. *)
LEMMA WholeLinks ==
  ASSUME LinksOK, NEW k \in Nat \ {0}, NEW inUse \in BOOLEAN, NEW s \in Spans,
         NewSpan(k, inUse, s), WholeLinked(k, inUse, s)
  PROVE  Rings(memory', spanLists') /\ PoolOK(pool', live')
<1> USE LimitType
<1>1. /\ k \in 1 .. Limit /\ ~Lists!Empty(memory, k) /\ s = Lists!Begin(memory, k)
      /\ memory' = HandedOut(Lists!PopFront(memory, k), inUse, s) /\ pool' = pool
  BY DEF WholeLinked
<1>2. spanLists[k] # <<>>
  BY <1>1, EmptyListed
<1>3. TakeWhole(k, inUse, s)
  <2>1. ~NewHugeSpan(k, inUse, s)
    BY <1>1 DEF NewHugeSpan
  <2>2. ~SplitLonger(k, inUse, s)
    <3>1. \A i \in k + 1 .. Limit : k \in k .. i - 1
      BY <1>1
    <3> QED  BY <1>2, <3>1 DEF SplitLonger, NoneListed
  <2>3. ~GrowAndTake(k, inUse, s)
    <3>1. k \in k .. Limit
      BY <1>1
    <3> QED  BY <1>2, <3>1 DEF GrowAndTake, NoneListed
  <2> QED  BY <2>1, <2>2, <2>3 DEF NewSpan
<1>4. live' = live /\ spanLists' = [spanLists EXCEPT ![k] = Tail(spanLists[k])]
      /\ s = Head(spanLists[k])
  BY <1>3 DEF TakeWhole
<1>5. PoolOK(pool, live) /\ Rings(memory, spanLists) /\ ApartLists(spanLists)
  BY ListsApart DEF LinksOK
<1>6. PICK L, m : L = With(spanLists, k, Tail(spanLists[k])) /\ m = Lists!PopFront(memory, k)
  OBVIOUS
<1>7. Rings(m, L) /\ ApartLists(L) /\ Unlisted(L, s)
  BY <1>1, <1>2, <1>4, <1>5, <1>6, PopRings
<1>8. Rings(HandedOut(m, inUse, s), L)
  BY <1>7, HandedOutRings
<1> QED  BY <1>1, <1>4, <1>5, <1>6, <1>8 DEF With

(* NewSpan of a length for which a longer span is cut. *)
LEMMA SplitLinks ==
  ASSUME LinksOK, NEW k \in Nat \ {0}, NEW inUse \in BOOLEAN, NEW s \in Spans,
         NewSpan(k, inUse, s), SplitLinked(k, s)
  PROVE  Rings(memory', spanLists') /\ PoolOK(pool', live')
<1> USE LimitType
<1>1. PICK i \in k + 1 .. Limit :
        /\ NoneLinked(k, i - 1) /\ ~Lists!Empty(memory, i)
        /\ Make(s, Moved(memory, Lists!Begin(memory, i), i, i - k))
  BY DEF SplitLinked
<1>2. i \in 1 .. Limit /\ i - k \in 1 .. Limit /\ k \in 1 .. Limit /\ i - 1 <= Limit
      /\ i - 1 \in Int /\ k < i /\ k \in k .. i - 1
  OBVIOUS
<1>3. NoneListed(k, i - 1) /\ spanLists[i] # <<>>
  BY <1>1, <1>2, EmptyListed
<1>4. SplitLonger(k, inUse, s)
  <2>1. ~NewHugeSpan(k, inUse, s)
    BY <1>2 DEF NewHugeSpan
  <2>2. ~TakeWhole(k, inUse, s)
    BY <1>2, <1>3 DEF TakeWhole, NoneListed
  <2>3. ~GrowAndTake(k, inUse, s)
    <3>1. i \in k .. Limit
      BY <1>2
    <3> QED  BY <1>3, <3>1 DEF GrowAndTake, NoneListed
  <2> QED  BY <2>1, <2>2, <2>3 DEF NewSpan
<1>5. PICK i2 \in k + 1 .. Limit :
        /\ NoneListed(k, i2 - 1) /\ spanLists[i2] # <<>>
        /\ Cut(pageId[Head(spanLists[i2])], n[Head(spanLists[i2])], k, s, Head(spanLists[i2]),
               [spanLists EXCEPT ![i2] = Tail(@)], inUse)
  BY <1>4 DEF SplitLonger
<1>6. i2 = i
  <2>1. i2 < i => i2 \in k .. i - 1
    OBVIOUS
  <2>2. i < i2 => i \in k .. i2 - 1
    OBVIOUS
  <2>3. ~(i2 < i) /\ ~(i < i2)
    BY <1>3, <1>5, <2>1, <2>2 DEF NoneListed
  <2> QED  BY <2>3
<1>7. PICK rest, L : rest = Head(spanLists[i]) /\ L = With(spanLists, i, Tail(spanLists[i]))
  OBVIOUS
<1>8. PoolOK(pool, live) /\ Rings(memory, spanLists) /\ ApartLists(spanLists)
  BY ListsApart DEF LinksOK
<1>9. /\ Rings(Lists!PopFront(memory, i), L) /\ ApartLists(L) /\ Unlisted(L, rest)
      /\ Lists!Begin(memory, i) = rest /\ rest \in Spans
  BY <1>2, <1>3, <1>7, <1>8, PopRings
<1>10. n[rest] = i /\ rest \in live
  <2>1. rest \in Range(spanLists[i])
    BY <1>2, <1>3, <1>7, <1>8, PopFrontList DEF ApartLists
  <2> QED  BY <1>2, <2>1 DEF LinksOK, DescriptorsOK, ListsOK
<1>11. Cut(pageId[rest], i, k, s, rest, L, inUse)
  BY <1>5, <1>6, <1>7, <1>10 DEF With
<1>12. /\ s \notin live /\ live' = live \cup {s}
       /\ spanLists' = With(L, i - k, <<rest>> \o L[i - k])
  BY <1>10, <1>11 DEF Cut, With
<1>13. PICK m, M : m = Moved(memory, rest, i, i - k)
                   /\ M = With(L, i - k, <<rest>> \o L[i - k])
  OBVIOUS
<1>14. m = Lists!PushFront(Lists!PopFront(memory, i), i - k, rest)
  BY <1>13 DEF Moved
<1>15. Rings(m, M) /\ ApartLists(M)
  <2>1. PICK m1, j : m1 = Lists!PopFront(memory, i) /\ j = i - k
    OBVIOUS
  <2>2. m = Lists!PushFront(m1, j, rest) /\ M = With(L, j, <<rest>> \o L[j])
        /\ Rings(m1, L) /\ j \in 1 .. Limit
    BY <1>2, <1>9, <1>13, <1>14, <2>1
  <2> QED  BY <1>9, <2>2, PushRings
<1>16. Unlisted(M, s)
  <2>1. ApartLists(spanLists) /\ Unlisted(spanLists', s)
    <3>1. NewSpan(k, inUse, s) /\ op = "idle" /\ used' = used \cup {s}
      BY DEF NewSpan
    <3>2. DescriptorsOK'
      BY <1>4, <3>1, SplitKeeps DEF LinksOK, NewSpan
    <3>3. s \in used' /\ ListsOK'
      BY <3>1, <3>2 DEF DescriptorsOK
    <3> QED  BY <1>8, <3>3 DEF Unlisted, ListsOK
  <2> QED  BY <1>12, <1>13, <2>1
<1> QED  BY <1>1, <1>8, <1>9, <1>12, <1>13, <1>15, <1>16, MakeKeeps

(* To put a span on a list and take it off again changes nothing. *)
LEMMA PushPopRings ==
  ASSUME NEW m, NEW L, Rings(m, L), ApartLists(L), NEW k \in 1 .. Limit,
         NEW s \in Spans, Unlisted(L, s)
  PROVE  Rings(Lists!PopFront(Lists!PushFront(m, k, s), k), L)
<1>1. PICK m1, M, q : /\ m1 = Lists!PushFront(m, k, s) /\ q = <<s>> \o L[k]
                      /\ M = With(L, k, q)
  OBVIOUS
<1>2. Rings(m1, M) /\ ApartLists(M)
  BY <1>1, PushRings
<1>3. L[k] \in Seq(Spans) /\ q # <<>> /\ Tail(q) = L[k]
  BY <1>1 DEF ApartLists
<1>4. M[k] = q /\ With(M, k, Tail(M[k])) = L
  BY <1>1, <1>3 DEF With, ApartLists
<1>5. Rings(Lists!PopFront(m1, k), With(M, k, Tail(M[k])))
  BY <1>2, <1>3, <1>4, PopRings
<1> QED  BY <1>1, <1>4, <1>5

(* NewSpan of a length for which the system is asked. *)
LEMMA GrowLinks ==
  ASSUME LinksOK, NEW k \in Nat \ {0}, NEW inUse \in BOOLEAN, NEW s \in Spans,
         NewSpan(k, inUse, s), GrowLinked(k, inUse, s)
  PROVE  Rings(memory', spanLists') /\ PoolOK(pool', live')
<1> USE LimitType
<1>1. k \in 1 .. Limit /\ NoneLinked(k, Limit)
  BY DEF GrowLinked
<1>2. PICK big, after, grown :
        /\ big \in Lists!Offers(pool)
        /\ after = Lists!New(pool, big)
        /\ grown = Lists!PushFront(Lists!Cleared(memory, big), Limit, big)
        /\ IF k = Limit
           THEN /\ s = big
                /\ memory' = HandedOut(Lists!PopFront(grown, Limit), inUse, s)
                /\ pool' = after
           ELSE /\ big \in live'
                /\ s \in Lists!Offers(after)
                /\ memory' = Lists!Cleared(Moved(grown, big, Limit, Limit - k), s)
                /\ pool' = Lists!New(after, s)
  BY DEF GrowLinked
<1>3. NoneListed(k, Limit)
  BY <1>1, EmptyListed
<1>4. GrowAndTake(k, inUse, s)
  <2>1. ~NewHugeSpan(k, inUse, s)
    BY <1>1 DEF NewHugeSpan
  <2>2. ~TakeWhole(k, inUse, s)
    <3>1. k \in k .. Limit
      BY <1>1
    <3> QED  BY <1>3, <3>1 DEF TakeWhole, NoneListed
  <2>3. ~SplitLonger(k, inUse, s)
    <3>1. \A i \in k + 1 .. Limit : i \in k .. Limit
      BY <1>1
    <3> QED  BY <1>3, <3>1 DEF SplitLonger, NoneListed
  <2> QED  BY <2>1, <2>2, <2>3 DEF NewSpan
<1>5. PoolOK(pool, live) /\ Rings(memory, spanLists) /\ ApartLists(spanLists)
  BY ListsApart DEF LinksOK
<1>6. big \in Spans /\ big \notin live /\ PoolOK(after, live \cup {big})
  BY <1>2, <1>5, PoolNew
<1>7. Unlisted(spanLists, big)
  BY <1>6, ListsApart DEF LinksOK
<1>8. PICK m : m = Lists!PopFront(grown, Limit)
  OBVIOUS
<1>9. Rings(m, spanLists)
  <2>1. PICK m0, L : m0 = Lists!Cleared(memory, big) /\ L = spanLists
    OBVIOUS
  <2>2. Rings(m0, L) /\ ApartLists(L) /\ Unlisted(L, big)
    BY <1>5, <1>6, <1>7, <2>1, ClearRings
  <2>3. Limit \in 1 .. Limit
    OBVIOUS
  <2>4. Rings(Lists!PopFront(Lists!PushFront(m0, Limit, big), Limit), L)
    BY <1>6, <2>2, <2>3, PushPopRings
  <2> QED  BY <1>2, <1>8, <2>1, <2>4
<1>10. CASE k = Limit
  <2>1. s = big /\ memory' = HandedOut(m, inUse, s) /\ pool' = after
    BY <1>2, <1>8, <1>10
  <2>2. spanLists' = spanLists /\ live' = live \cup {s}
    BY <1>4, <1>10 DEF GrowAndTake
  <2>3. Rings(HandedOut(m, inUse, s), spanLists)
    BY <1>5, <1>6, <1>7, <1>9, <2>1, HandedOutRings
  <2> QED  BY <1>6, <2>1, <2>2, <2>3
<1>11. CASE k # Limit
  <2>1. /\ big \in live' /\ s \in Lists!Offers(after) /\ pool' = Lists!New(after, s)
        /\ memory' = Lists!Cleared(Moved(grown, big, Limit, Limit - k), s)
    BY <1>2, <1>11
  <2>2. PICK alive, j : alive = live \cup {big} /\ j = Limit - k
    OBVIOUS
  <2>3. s \notin alive /\ PoolOK(pool', alive \cup {s})
    BY <1>6, <2>1, <2>2, PoolNew
  <2>4. PICK first \in Pages, bigSpan \in Spans \ live :
          Cut(first, Limit, k, s, bigSpan, spanLists, inUse)
    BY <1>4, <1>11 DEF GrowAndTake
  <2>5. live' = live \cup {s, bigSpan}
        /\ spanLists' = With(spanLists, j, <<bigSpan>> \o spanLists[j])
    BY <2>2, <2>4 DEF Cut, With
  <2>6. big = bigSpan /\ live' = alive \cup {s}
    BY <1>6, <2>1, <2>2, <2>3, <2>5
  <2>7. PICK m1, L : /\ m1 = Moved(grown, big, Limit, j)
                     /\ L = With(spanLists, j, <<big>> \o spanLists[j])
    OBVIOUS
  <2>8. m1 = Lists!PushFront(m, j, big)
    BY <1>8, <2>7 DEF Moved
  <2>9. Rings(m1, L) /\ ApartLists(L)
    <3>1. j \in 1 .. Limit
      BY <1>1, <1>11, <2>2
    <3>2. PICK L0 : L0 = spanLists
      OBVIOUS
    <3>3. Rings(m, L0) /\ ApartLists(L0) /\ Unlisted(L0, big)
      BY <1>5, <1>7, <1>9, <3>2
    <3>4. Rings(Lists!PushFront(m, j, big), With(L0, j, <<big>> \o L0[j]))
          /\ ApartLists(With(L0, j, <<big>> \o L0[j]))
      BY <1>6, <3>1, <3>3, PushRings
    <3> QED  BY <2>7, <2>8, <3>2, <3>4
  <2>10. Unlisted(L, s)
    <3>1. op = "idle" /\ used' = used \cup {s} /\ UNCHANGED <<op, releasing>>
      BY DEF NewSpan
    <3>2. DescriptorsOK'
      BY <1>4, <3>1, GrowKeeps DEF LinksOK
    <3>3. s \in used' /\ ListsOK'
      BY <3>1, <3>2 DEF DescriptorsOK
    <3>4. Unlisted(spanLists', s)
      BY <3>3 DEF Unlisted, ListsOK
    <3> QED  BY <2>5, <2>6, <2>7, <3>4
  <2>11. Rings(Lists!Cleared(m1, s), L)
    BY <2>9, <2>10, ClearRings
  <2>12. spanLists' = L /\ memory' = Lists!Cleared(m1, s)
    BY <2>1, <2>2, <2>5, <2>6, <2>7
  <2> QED  BY <2>3, <2>6, <2>11, <2>12
<1> QED  BY <1>10, <1>11

(* NewSpan of any length. *)
LEMMA NewSpanLinks ==
  ASSUME LinksOK, NEW k \in CentralRequests \cup LargeRequests, NEW inUse \in BOOLEAN,
         NEW s \in Spans, NewSpanLinked(k, inUse, s)
  PROVE  Rings(memory', spanLists') /\ PoolOK(pool', live')
<1>1. k \in Nat \ {0}
  BY Requested
<1>2. NewSpan(k, inUse, s)
  BY DEF NewSpanLinked
<1>3. \/ HugeLinked(k, s) \/ WholeLinked(k, inUse, s)
      \/ SplitLinked(k, s) \/ GrowLinked(k, inUse, s)
  BY DEF NewSpanLinked
<1> QED  BY <1>1, <1>2, <1>3, HugeLinks, WholeLinks, SplitLinks, GrowLinks

(* NewSpan that is refused: the descriptor of the chunk stays live.        *)
LEMMA ThrowsLinks ==
  ASSUME LinksOK, NEW k, NewSpanThrowsLinked(k)
  PROVE  Rings(memory', spanLists') /\ PoolOK(pool', live')
<1>1. PoolOK(pool, live) /\ Rings(memory, spanLists) /\ ApartLists(spanLists)
  BY ListsApart DEF LinksOK
<1>2. CASE k > Limit
  <2>1. live' = live /\ spanLists' = spanLists /\ memory' = memory /\ pool' = pool
    BY <1>2 DEF NewSpanThrowsLinked, NewSpanThrows, linkVars
  <2> QED  BY <1>1, <2>1
<1>3. CASE ~(k > Limit)
  <2>1. PICK bigSpan \in live' \ live : Make(bigSpan, memory)
    BY <1>3 DEF NewSpanThrowsLinked
  <2>2. spanLists' = spanLists /\ \E b \in Spans \ live : live' = live \cup {b}
    BY <1>3 DEF NewSpanThrowsLinked, NewSpanThrows
  <2>3. live' = live \cup {bigSpan}
    BY <2>2
  <2>4. Unlisted(spanLists, bigSpan)
    BY <2>1, ListsApart DEF LinksOK
  <2>5. PICK m, L : m = memory /\ L = spanLists
    OBVIOUS
  <2>6. Rings(m, L) /\ ApartLists(L) /\ Unlisted(L, bigSpan) /\ Make(bigSpan, m)
    BY <1>1, <2>1, <2>4, <2>5
  <2>7. Rings(memory', L) /\ PoolOK(pool', live')
    BY <1>1, <2>3, <2>6, MakeKeeps
  <2> QED  BY <2>2, <2>5, <2>7
<1> QED  BY <1>2, <1>3

(* A release that gives the pages back to the system. *)
LEMMA HugeReleaseLinks ==
  ASSUME LinksOK, NEW s \in used, ReleaseHugeLinked(s)
  PROVE  Rings(memory', spanLists') /\ PoolOK(pool', live')
<1>1. /\ live' = live \ {s} /\ spanLists' = spanLists /\ memory' = memory
      /\ pool' = Lists!Delete(pool, s)
  BY DEF ReleaseHugeLinked, ReleaseHuge
<1>2. PoolOK(pool, live) /\ Rings(memory, spanLists) /\ s \in live
  BY DEF LinksOK, DescriptorsOK, HeldOK
<1>3. PoolOK(Lists!Delete(pool, s), live \ {s})
  BY <1>2, PoolDelete
<1> QED  BY <1>1, <1>2, <1>3

(* A merge of a listed neighbour takes it off its list, and deletes its    *)
(* descriptor.                                                             *)
LEMMA AbsorbLinks ==
  ASSUME LinksOK, op \in {"prev", "next"}, NEW t \in Spans, NEW first,
         n[t] \in 1 .. Limit, Absorb(t, first), AbsorbLinked(t), op' # "corrupt"
  PROVE  Rings(memory', spanLists') /\ PoolOK(pool', live')
<1>1. /\ PoolOK(pool, live) /\ Rings(memory, spanLists) /\ ApartLists(spanLists)
      /\ TypeOK /\ ListsOK
  BY ListsApart DEF LinksOK, DescriptorsOK
<1>2. IsListed(t)
  BY DEF Absorb, AbsorbListed, AbsorbUnlisted
<1>3. PICK k \in 1 .. Limit : k = n[t]
  OBVIOUS
<1>4. PICK L, m : L = spanLists /\ m = memory
  OBVIOUS
<1>5. PICK r : r = Erase(L[k], t)
  OBVIOUS
<1>6. live' = live \ {t} /\ spanLists' = With(L, k, r)
  BY <1>2, <1>3, <1>4, <1>5 DEF Absorb, AbsorbListed, AbsorbUnlisted, Drop, With
<1>7. t \in Range(L[k]) /\ L[k] \in Seq(Spans) /\ t \in live /\ Rings(m, L) /\ ApartLists(L)
  BY <1>1, <1>2, <1>3, <1>4 DEF IsListed, ListsOK, ApartLists
<1>8. PICK i \in 1 .. Len(L[k]) : L[k][i] = t /\ r \in Seq(Spans) /\ Without(r, L[k], i)
  <2>1. PICK q : q = L[k]
    OBVIOUS
  <2>2. q \in Seq(Spans) /\ t \in Range(q) /\ r = Erase(q, t)
    BY <1>5, <1>7, <2>1
  <2>3. \E i \in 1 .. Len(q) :
          /\ q[i] = t /\ r \in Seq(Spans) /\ Len(r) = Len(q) - 1
          /\ \A j \in 1 .. Len(r) : r[j] = IF j < i THEN q[j] ELSE q[j + 1]
    BY <2>2, ErasePlace, SMTT(20)
  <2> QED  BY <2>1, <2>3 DEF Without
<1>9. m.next[t] # NoSpan
  <2>1. PICK q \in Seq(Spans) : q = L[k] /\ NoDup(q) /\ Ring(m, k, q)
    BY <1>7 DEF ApartLists, Rings
  <2>2. i \in 0 .. Len(q) /\ i + 1 \in 0 .. Len(q) + 1 /\ At(k, q, i) = t
    BY <1>8, <2>1, AtFacts
  <2>3. m.next[t] = At(k, q, i + 1)
    BY <2>1, <2>2 DEF Ring
  <2>4. At(k, q, i + 1) \in Spans \cup {k}
    BY <2>1, <2>2, AtFacts
  <2> QED  BY <2>3, <2>4, HeadsApart, NoSpanAssumption
<1>10. memory' = Lists!Cleared(Lists!Erase(m, t), t) /\ pool' = Lists!Delete(pool, t)
  BY <1>4, <1>9 DEF AbsorbLinked
<1>11. PICK M : M = With(L, k, r)
  OBVIOUS
<1>12. Rings(Lists!Erase(m, t), M) /\ ApartLists(M) /\ Unlisted(M, t)
  BY <1>7, <1>8, <1>11, EraseRings
<1>13. Rings(memory', M)
  BY <1>10, <1>12, ClearRings
<1>14. PoolOK(pool', live')
  BY <1>1, <1>6, <1>7, <1>10, PoolDelete
<1> QED  BY <1>6, <1>11, <1>13, <1>14

(* The span released is put on the list of its length. *)
LEMMA FinishLinks ==
  ASSUME LinksOK, FinishReleaseLinked
  PROVE  Rings(memory', spanLists') /\ PoolOK(pool', live')
<1>1. PICK s, k, L, m : s = releasing /\ k = n[s] /\ L = spanLists /\ m = memory
  OBVIOUS
<1>2. /\ op = "next" /\ live' = live /\ pool' = pool
      /\ spanLists' = With(L, k, <<s>> \o L[k])
      /\ memory' = Lists!PushFront(m, k, s)
  BY <1>1 DEF FinishReleaseLinked, FinishRelease, With
<1>3. s \in Spans /\ k \in 1 .. Limit
  BY <1>1, <1>2 DEF LinksOK, DescriptorsOK, GrowingOK, TypeOK
<1>4. PoolOK(pool, live) /\ Rings(m, L) /\ ApartLists(L) /\ Unlisted(L, s)
  BY <1>1, ListsApart DEF LinksOK
<1>5. Rings(Lists!PushFront(m, k, s), With(L, k, <<s>> \o L[k]))
  BY <1>3, <1>4, PushRings
<1> QED  BY <1>2, <1>4, <1>5

(* Every step of the data structures is a step of PageCache. *)
LEMMA LinkedIsNext == NextLinked => Next
BY DEF NextLinked, Next, NewSpanLinked, NewSpanThrowsLinked, ReleaseHugeLinked,
       ReleaseStepLinked, ReleaseStep, FinishReleaseLinked

(* They do so at the start ... *)
LEMMA LinksInit == InitLinks => LinksOK
<1> SUFFICES ASSUME InitLinks PROVE LinksOK
  OBVIOUS
<1> USE NoSpanAssumption, LimitType
<1>1. DescriptorsOK
  BY DescriptorsInit DEF InitLinks
<1>2. spanLists = [k \in 1 .. Limit |-> <<>>] /\ live = {}
  BY DEF InitLinks, Init
<1>3. PICK ring : /\ ring = [x \in Nodes |-> IF x \in Spans THEN NoSpan ELSE x]
                  /\ memory = [next |-> ring, prev |-> ring]
  BY DEF InitLinks
<1>4. MemoryOK(memory)
  <2>1. ring \in [Nodes -> Nodes \cup {NoSpan}]
    BY <1>3
  <2> QED  BY <1>3, <2>1 DEF MemoryOK
<1>5. ASSUME NEW k \in 1 .. Limit PROVE Ring(memory, k, spanLists[k])
  <2>1. ring[k] = k
    BY <1>3, HeadsApart
  <2>2. spanLists[k] = <<>> /\ Len(<<>>) = 0
    BY <1>2
  <2>3. \A i : At(k, <<>>, i) = k
    BY <2>2 DEF At
  <2> QED  BY <1>3, <2>1, <2>2, <2>3 DEF Ring
<1>6. PoolOK(pool, live)
  <2>1. pool = [first |-> NoSpan, link |-> [s \in Spans |-> NoSpan], cut |-> {}]
    BY DEF InitLinks
  <2>2. <<>> \in Seq(Spans) /\ NoDup(<<>>) /\ Range(<<>>) = {} /\ Len(<<>>) = 0
    BY DEF NoDup, Range
  <2>3. Hangs(pool, <<>>)
    BY <2>1, <2>2 DEF Hangs, After
  <2>4. pool \in PoolType /\ pool.cut = {}
    BY <2>1 DEF PoolType
  <2> QED  BY <1>2, <2>2, <2>3, <2>4 DEF PoolOK
<1> QED  BY <1>1, <1>4, <1>5, <1>6 DEF LinksOK, Rings

(* ... and after every step. *)
LEMMA LinksNext ==
  ASSUME LinksOK, [NextLinked]_<<vars, linkVars>>, op' # "corrupt"
  PROVE  LinksOK'
<1> DEFINE Kept == Rings(memory', spanLists') /\ PoolOK(pool', live')
<1>1. DescriptorsOK'
  <2>1. DescriptorsOK /\ [Next]_vars
    BY LinkedIsNext DEF LinksOK
  <2> QED  BY <2>1, DescriptorsNext
<1>2. ASSUME UNCHANGED <<spanLists, live, memory, pool>> PROVE Kept
  BY <1>2 DEF LinksOK
<1>3. ASSUME MergePrev, AbsorbLinked(PrevSpan) PROVE Kept
  <2>1. op \in {"prev", "next"} /\ Mergeable(PrevSpan) /\ Absorb(PrevSpan, pageId[PrevSpan])
    BY <1>3 DEF MergePrev
  <2>2. PICK t, first : t = PrevSpan /\ first = pageId[PrevSpan]
    OBVIOUS
  <2>3. t \in Spans /\ n[t] \in 1 .. Limit
    BY <2>1, <2>2, NeighbourLength DEF PrevSpan, LinksOK
  <2>4. Absorb(t, first) /\ AbsorbLinked(t)
    BY <1>3, <2>1, <2>2
  <2> QED  BY <2>1, <2>3, <2>4, AbsorbLinks
<1>4. ASSUME MergeNext, AbsorbLinked(NextSpan) PROVE Kept
  <2>1. op \in {"prev", "next"} /\ Mergeable(NextSpan) /\ Absorb(NextSpan, pageId[releasing])
    BY <1>4 DEF MergeNext
  <2>2. PICK t, first : t = NextSpan /\ first = pageId[releasing]
    OBVIOUS
  <2>3. t \in Spans /\ n[t] \in 1 .. Limit
    BY <2>1, <2>2, NeighbourLength DEF NextSpan, LinksOK
  <2>4. Absorb(t, first) /\ AbsorbLinked(t)
    BY <1>4, <2>1, <2>2
  <2> QED  BY <2>1, <2>3, <2>4, AbsorbLinks
<1>5. ASSUME StopPrev, UNCHANGED linkVars PROVE Kept
  BY <1>2, <1>5 DEF StopPrev, linkVars
<1>6. ASSUME NEW s \in used, StartRelease(s), UNCHANGED linkVars PROVE Kept
  BY <1>2, <1>6 DEF StartRelease, linkVars
<1>7. ASSUME UNCHANGED <<vars, linkVars>> PROVE Kept
  BY <1>2, <1>7 DEF vars, linkVars
<1>8. Kept
  BY <1>3, <1>4, <1>5, <1>6, <1>7, NewSpanLinks, ThrowsLinks, HugeReleaseLinks, FinishLinks
     DEF NextLinked, ReleaseStepLinked
<1> QED  BY <1>1, <1>8 DEF LinksOK

(* The inductive invariant. *)
LinksUntilMerged == Intact => LinksOK

(* Rings, lists and the pool of descriptors tell the same story until a    *)
(* span that is on no list is merged, huge requests or not.                *)
THEOREM LinksInvariance == SpecLinked => []LinksUntilMerged
<1>1. InitLinks => LinksUntilMerged
  BY LinksInit DEF LinksUntilMerged
<1>2. LinksUntilMerged /\ [NextLinked]_<<vars, linkVars>> => LinksUntilMerged'
  <2> SUFFICES ASSUME LinksUntilMerged, [NextLinked]_<<vars, linkVars>>, op' # "corrupt"
               PROVE  LinksOK'
    BY DEF LinksUntilMerged, Intact
  <2>1. op # "corrupt"
    <3>1. [Next]_vars  BY LinkedIsNext
    <3> QED  BY <3>1, CorruptStays DEF vars
  <2> QED  BY <2>1, LinksNext DEF LinksUntilMerged, Intact
<1> QED  BY <1>1, <1>2, PTL DEF SpecLinked

(* The data structures implement PageCache, step by step.                  *)
THEOREM LinksRefine == SpecLinked => Spec
<1>1. InitLinks => Init
  BY DEF InitLinks
<1>2. [NextLinked]_<<vars, linkVars>> => [Next]_vars
  BY LinkedIsNext
<1> QED  BY <1>1, <1>2, PTL DEF SpecLinked, Spec

(* Forward and backward, the ring of every list holds its spans, in their  *)
(* order, and leads back to its head, until one on no list is merged.      *)
THEOREM RingsExact == SpecLinked => []RingsAgree
<1>1. LinksUntilMerged => RingsAgree
  <2> SUFFICES ASSUME LinksOK, NEW k \in 1 .. Limit
               PROVE  LET ring == <<k>> \o spanLists[k] \o <<k>>
                      IN  \A i \in 1 .. Len(ring) - 1 : /\ memory.next[ring[i]] = ring[i + 1]
                                                        /\ memory.prev[ring[i + 1]] = ring[i]
    BY DEF RingsAgree, LinksUntilMerged
  <2>1. PICK q, m : q = spanLists[k] /\ m = memory
    OBVIOUS
  <2>2. q \in Seq(Spans) /\ Ring(m, k, q)
    BY <2>1 DEF LinksOK, DescriptorsOK, TypeOK, Rings
  <2>3. PICK ring : ring = <<k>> \o q \o <<k>>
    OBVIOUS
  <2>4. /\ Len(q) \in Nat /\ Len(ring) = Len(q) + 2
        /\ \A i \in 1 .. Len(ring) : ring[i] = At(k, q, i - 1)
    <3>1. PICK T : T = Spans \cup {k}
      OBVIOUS
    <3>2. q \in Seq(T) /\ <<k>> \in Seq(T)
      BY <2>2, <3>1
    <3>3. PICK front : front = <<k>> \o q
      OBVIOUS
    <3>4. /\ front \in Seq(T) /\ Len(front) = Len(q) + 1 /\ front[1] = k
          /\ \A i \in 1 .. Len(q) : front[i + 1] = q[i]
      BY <3>2, <3>3
    <3>5. /\ Len(ring) = Len(front) + 1 /\ ring[Len(front) + 1] = k
          /\ \A i \in 1 .. Len(front) : ring[i] = front[i]
      BY <2>3, <3>2, <3>3, <3>4
    <3>6. Len(q) \in Nat
      BY <2>2
    <3>7. ASSUME NEW i \in 1 .. Len(ring) PROVE ring[i] = At(k, q, i - 1)
      <4>1. CASE i = 1
        BY <3>4, <3>5, <3>6, <4>1 DEF At
      <4>2. CASE i = Len(q) + 2
        <5>1. i - 1 \notin 1 .. Len(q) /\ i = Len(front) + 1
          BY <3>4, <3>6, <4>2
        <5> QED  BY <3>5, <5>1 DEF At
      <4>3. CASE i # 1 /\ i # Len(q) + 2
        <5>1. i - 1 \in 1 .. Len(q) /\ i \in 1 .. Len(front) /\ (i - 1) + 1 = i
          BY <3>4, <3>5, <3>6, <4>3
        <5>2. front[(i - 1) + 1] = q[i - 1]
          BY <3>4, <5>1
        <5> QED  BY <3>5, <5>1, <5>2 DEF At
      <4> QED  BY <4>1, <4>2, <4>3
    <3> QED  BY <3>4, <3>5, <3>6, <3>7
  <2>5. ASSUME NEW i \in 1 .. Len(ring) - 1
        PROVE  m.next[ring[i]] = ring[i + 1] /\ m.prev[ring[i + 1]] = ring[i]
    <3>1. /\ i - 1 \in 0 .. Len(q) /\ i \in 1 .. Len(ring) /\ i + 1 \in 1 .. Len(ring)
          /\ (i - 1) + 1 = i /\ (i + 1) - 1 = i
      BY <2>4
    <3>2. ring[i] = At(k, q, i - 1) /\ ring[i + 1] = At(k, q, i)
      BY <2>4, <3>1
    <3>3. /\ m.next[At(k, q, i - 1)] = At(k, q, (i - 1) + 1)
          /\ m.prev[At(k, q, (i - 1) + 1)] = At(k, q, i - 1)
      BY <2>2, <3>1 DEF Ring
    <3> QED  BY <3>1, <3>2, <3>3
  <2> QED  BY <2>1, <2>3, <2>5
<1> QED  BY <1>1, LinksInvariance, PTL

(* Every descriptor cut from a chunk is live or hangs on _freeList, once:  *)
(* ObjectPool answers none that is in use, and loses none, until the       *)
(* descriptor of a span on no list is deleted by a merge.                  *)
THEOREM PoolAlwaysExact == SpecLinked => []PoolExact
<1>1. LinksUntilMerged => PoolExact
  <2> SUFFICES ASSUME LinksOK PROVE PoolExact
    BY DEF LinksUntilMerged, PoolExact
  <2>1. PICK dead : dead = pool.cut \ live
    OBVIOUS
  <2>2. live \subseteq pool.cut
    BY DEF LinksOK, PoolOK
  <2>3. PICK chain \in Seq(Spans) : NoDup(chain) /\ Range(chain) = dead /\ Hangs(pool, chain)
    BY <2>1 DEF LinksOK, PoolOK
  <2>4. Cardinality(dead) = Len(chain)
    <3>1. ListFacts!IsInjective(chain) /\ ListFacts!ToSet(chain) = Range(chain)
      BY <2>3 DEF NoDup, Range, ListFacts!IsInjective, ListFacts!ToSet
    <3>2. ListFacts!Cardinality(ListFacts!ToSet(chain)) = Len(chain)
      BY <2>3, <3>1, ListFacts!HowMany
    <3>3. ListFacts!Cardinality(dead) = Len(chain)
      BY <2>3, <3>1, <3>2
    <3> QED  BY <3>3 DEF Cardinality, ListFacts!Cardinality
  <2>5. Len(chain) \in Nat /\ DOMAIN chain = 1 .. Len(chain)
    OBVIOUS
  <2>6. chain \in [1 .. Cardinality(dead) -> dead]
    <3>1. chain \in [1 .. Len(chain) -> Spans]
      BY <2>5
    <3>2. \A i \in 1 .. Len(chain) : chain[i] \in dead
      BY <2>3, <2>5 DEF Range
    <3> QED  BY <2>4, <3>1, <3>2
  <2>7. Chained(chain)
    <3>1. PICK path, T : path = Append(chain, NoSpan) /\ T = Spans \cup {NoSpan}
      OBVIOUS
    <3>2. chain \in Seq(T) /\ NoSpan \in T
      BY <2>3, <3>1
    <3>3. \A i \in 1 .. Len(chain) + 1 : path[i] = After(chain, i)
      <4>1. /\ \A i \in 1 .. Len(chain) : path[i] = chain[i]
            /\ path[Len(chain) + 1] = NoSpan
        BY <3>1, <3>2
      <4>2. Len(chain) + 1 \notin 1 .. Len(chain)
        BY <2>5
      <4>3. \A i \in 1 .. Len(chain) + 1 : i = Len(chain) + 1 \/ i \in 1 .. Len(chain)
        BY <2>5
      <4> QED  BY <4>1, <4>2, <4>3 DEF After
    <3>4. pool.first = path[1]
      <4>1. 1 \in 1 .. Len(chain) + 1
        BY <2>5
      <4> QED  BY <2>3, <3>3, <4>1 DEF Hangs
    <3>5. ASSUME NEW i \in DOMAIN chain PROVE pool.link[chain[i]] = path[i + 1]
      <4>1. i \in 1 .. Len(chain) /\ i + 1 \in 1 .. Len(chain) + 1
        BY <2>5
      <4> QED  BY <2>3, <3>3, <4>1 DEF Hangs
    <3> QED  BY <2>3, <3>1, <3>4, <3>5 DEF Chained, NoDup
  <2> QED  BY <2>1, <2>2, <2>6, <2>7 DEF PoolExact
<1> QED  BY <1>1, LinksInvariance, PTL
=============================================================================
