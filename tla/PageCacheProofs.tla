--------------------------- MODULE PageCacheProofs ---------------------------
(***************************************************************************)
(* The page cache is correct for every address space, every list limit and *)
(* every order of requests, as long as nobody asks for more pages than the *)
(* longest listed span has (NoHuge), until a release merges a span that is *)
(* held.  Only one of a large request is ever merged so, and none when     *)
(* large requests have the one length no merge can reach                   *)
(* (NoMergeableLarge): then everything holds for good.                     *)
(***************************************************************************)
EXTENDS PageCache, TLAPS

(* No request is for more pages than a list holds.  Without it a release   *)
(* may merge spans that do not touch: the map entry of a span that went    *)
(* back to the system outlives it.                                         *)
NoHuge == LargeRequests \subseteq 1 .. Limit

(* Large requests either are absent or of the one length no merge can      *)
(* reach.  Without it Intact fails: ConcurrentAlloc hands out spans        *)
(* whose _isUse is unset.                                                  *)
NoMergeableLarge == LargeRequests \subseteq {Limit}

(* The parts of the inductive invariant, page by page. *)
Covers(s, p) == pageId[s] <= p /\ p < pageId[s] + n[s]

NoDup(list) == \A i, j \in DOMAIN list : list[i] = list[j] => i = j

FreeOK ==
  \A k \in 1 .. Limit :
    /\ NoDup(spanLists[k])
    /\ \A s \in Range(spanLists[k]) :
         /\ s \in live
         /\ s \notin used
         /\ s # releasing
         /\ n[s] = k
         /\ ~isUse[s]
         /\ MapGet(pageId[s]) = s
         /\ MapGet(pageId[s] + k - 1) = s

UsedOK ==
  \A s \in used :
    /\ s \in live
    /\ s # releasing
    /\ n[s] \in 1 .. Limit
    /\ \A p \in Nat : Covers(s, p) => MapGet(p) = s

RelOK ==
  /\ op \in {"prev", "next"} <=> releasing # NoSpan
  /\ releasing # NoSpan =>
       /\ releasing \in live
       /\ releasing \notin used
       /\ n[releasing] \in 1 .. Limit

Apart == \A s, t \in Active : \A p \in Nat :
           Covers(s, p) /\ Covers(t, p) => s = t

Covered == \A p \in Nat : p \in sysPages <=> \E s \in Active : Covers(s, p)

(* Nothing was ever returned to the system, so a page it has not given has *)
(* no entry, not even a stale one.                                         *)
Unmapped == \A p \in Pages \ sysPages : idSpanMap[p] = NoSpan

LiveOK == op # "thrown" => live \subseteq Active

(* What holds until a held span is merged, ... *)
IInv == /\ Intact
        /\ TypeOK
        /\ FreeOK
        /\ UsedOK
        /\ RelOK
        /\ Apart
        /\ Covered
        /\ Unmapped
        /\ LiveOK

(* ... and the inductive invariant. *)
UntilMerged == TypeOK /\ (Intact => IInv)

-----------------------------------------------------------------------------
(* What the three list operations do to the spans on a list. *)

(* PushFront of a descriptor no list has. *)
LEMMA PushFrontList ==
  ASSUME NEW S, NEW q \in Seq(S), NEW s \in S
  PROVE  /\ <<s>> \o q \in Seq(S)
         /\ Range(<<s>> \o q) = Range(q) \cup {s}
         /\ NoDup(q) /\ s \notin Range(q) => NoDup(<<s>> \o q)
<1> DEFINE r == <<s>> \o q
<1>1. /\ r \in Seq(S)
      /\ Len(r) = Len(q) + 1
      /\ r[1] = s
      /\ \A i \in 1 .. Len(q) : r[i + 1] = q[i]
  OBVIOUS
<1>2. \A i \in DOMAIN r : i = 1 \/ (i - 1 \in DOMAIN q /\ r[i] = q[i - 1])
  BY <1>1
<1>3. Range(r) = Range(q) \cup {s}
  <2>1. Range(r) \subseteq Range(q) \cup {s}
    BY <1>1, <1>2 DEF Range
  <2>2. ASSUME NEW x \in Range(q) PROVE x \in Range(r)
    <3>1. PICK i \in DOMAIN q : q[i] = x  BY DEF Range
    <3>2. i + 1 \in DOMAIN r /\ r[i + 1] = x  BY <1>1, <3>1
    <3> QED  BY <3>2 DEF Range
  <2>3. s \in Range(r)
    <3>1. 1 \in DOMAIN r  BY <1>1
    <3> QED  BY <1>1, <3>1 DEF Range
  <2> QED  BY <2>1, <2>2, <2>3
<1>4. ASSUME NoDup(q), s \notin Range(q), NEW i \in DOMAIN r, NEW j \in DOMAIN r,
             r[i] = r[j]
      PROVE  i = j
  <2>1. CASE i = 1 /\ j = 1  BY <2>1
  <2>2. CASE i = 1 /\ j # 1  BY <1>1, <1>2, <1>4, <2>2 DEF Range
  <2>3. CASE i # 1 /\ j = 1  BY <1>1, <1>2, <1>4, <2>3 DEF Range
  <2>4. CASE i # 1 /\ j # 1
    <3>1. i - 1 = j - 1  BY <1>2, <1>4, <2>4 DEF NoDup
    <3> QED  BY <1>1, <3>1
  <2> QED  BY <2>1, <2>2, <2>3, <2>4
<1> QED  BY <1>1, <1>3, <1>4 DEF NoDup

(* The sequence that Erase and PopFront build by leaving out index i. *)
LEMMA DropIndex ==
  ASSUME NEW S, NEW q \in Seq(S), NEW i \in DOMAIN q, NoDup(q),
         NEW r \in Seq(S), Len(r) = Len(q) - 1,
         \A j \in 1 .. Len(r) : r[j] = IF j < i THEN q[j] ELSE q[j + 1]
  PROVE  Range(r) = Range(q) \ {q[i]} /\ NoDup(r)
<1>1. ASSUME NEW x \in Range(r) PROVE x \in Range(q) \ {q[i]}
  <2>1. PICK j \in 1 .. Len(r) : r[j] = x  BY DEF Range
  <2>2. CASE j < i  BY <2>1, <2>2 DEF Range, NoDup
  <2>3. CASE ~(j < i)
    <3>1. j + 1 \in DOMAIN q /\ j + 1 # i /\ q[j + 1] = x  BY <2>1, <2>3
    <3> QED  BY <3>1 DEF Range, NoDup
  <2> QED  BY <2>2, <2>3
<1>2. ASSUME NEW x \in Range(q), x # q[i] PROVE x \in Range(r)
  <2>1. PICK j \in 1 .. Len(q) : q[j] = x  BY DEF Range
  <2>2. CASE j < i
    <3>1. j \in DOMAIN r /\ r[j] = x  BY <2>1, <2>2
    <3> QED  BY <3>1 DEF Range
  <2>3. CASE j > i
    <3>1. j - 1 \in DOMAIN r /\ r[j - 1] = x  BY <2>1, <2>3
    <3> QED  BY <3>1 DEF Range
  <2>4. j # i  BY <1>2, <2>1
  <2> QED  BY <2>1, <2>2, <2>3, <2>4
<1>3. ASSUME NEW a \in DOMAIN r, NEW b \in DOMAIN r, r[a] = r[b] PROVE a = b
  <2> DEFINE up(j) == IF j < i THEN j ELSE j + 1
  <2>1. \A j \in DOMAIN r : up(j) \in DOMAIN q /\ r[j] = q[up(j)]
    <3>1. DOMAIN r = 1 .. Len(r) /\ DOMAIN q = 1 .. Len(q) /\ Len(q) \in Nat
      OBVIOUS
    <3>2. ASSUME NEW j \in 1 .. Len(r)
          PROVE  up(j) \in 1 .. Len(q) /\ r[j] = q[up(j)]
      BY <3>1, <3>2
    <3> QED  BY <3>1, <3>2
  <2>2. up(a) = up(b)  BY <1>3, <2>1 DEF NoDup
  <2> QED  BY <2>2
<1> QED  BY <1>1, <1>2, <1>3 DEF NoDup

(* PopFront takes off the first. *)
LEMMA PopFrontList ==
  ASSUME NEW S, NEW q \in Seq(S), q # <<>>, NoDup(q)
  PROVE  /\ Head(q) \in Range(q)
         /\ Tail(q) \in Seq(S)
         /\ Range(Tail(q)) = Range(q) \ {Head(q)}
         /\ NoDup(Tail(q))
<1>1. 1 \in DOMAIN q /\ Head(q) = q[1]  OBVIOUS
<1>2. /\ Tail(q) \in Seq(S)
      /\ Len(Tail(q)) = Len(q) - 1
      /\ \A j \in 1 .. Len(Tail(q)) : Tail(q)[j] = q[j + 1]
  OBVIOUS
<1>3. \A j \in 1 .. Len(Tail(q)) : Tail(q)[j] = IF j < 1 THEN q[j] ELSE q[j + 1]
  BY <1>2
<1>4. Range(Tail(q)) = Range(q) \ {q[1]} /\ NoDup(Tail(q))
  BY <1>1, <1>2, <1>3, DropIndex
<1> QED  BY <1>1, <1>2, <1>4 DEF Range

(* Erase takes out one place, and closes the gap. *)
LEMMA ErasePlace ==
  ASSUME NEW S, NEW q \in Seq(S), NEW s \in Range(q)
  PROVE  \E i \in 1 .. Len(q) :
           /\ q[i] = s
           /\ Erase(q, s) \in Seq(S)
           /\ Len(Erase(q, s)) = Len(q) - 1
           /\ \A j \in 1 .. Len(Erase(q, s)) :
                Erase(q, s)[j] = IF j < i THEN q[j] ELSE q[j + 1]
<1> DEFINE i == CHOOSE j \in DOMAIN q : q[j] = s
           front == SubSeq(q, 1, i - 1)
           back == SubSeq(q, i + 1, Len(q))
<1>1. i \in DOMAIN q /\ q[i] = s  BY DEF Range
<1> HIDE DEF i
<1>2. /\ front \in Seq(S) /\ Len(front) = i - 1
      /\ \A j \in 1 .. i - 1 : front[j] = q[j]
  BY <1>1
<1>3. /\ back \in Seq(S) /\ Len(back) = Len(q) - i
      /\ \A j \in 1 .. Len(q) - i : back[j] = q[j + i]
  BY <1>1
<1>4. Erase(q, s) = front \o back  BY DEF Erase, i
<1>5. /\ Erase(q, s) \in Seq(S)
      /\ Len(Erase(q, s)) = Len(q) - 1
      /\ \A j \in 1 .. Len(q) - 1 :
           Erase(q, s)[j] = IF j < i THEN q[j] ELSE q[j + 1]
  <2> HIDE DEF front, back
  <2> QED  BY <1>1, <1>2, <1>3, <1>4
<1> QED  BY <1>1, <1>5

(* SpanList::Erase leaves the others on the list, once each. *)
LEMMA EraseList ==
  ASSUME NEW S, NEW q \in Seq(S), NEW s \in Range(q), NoDup(q)
  PROVE  /\ Erase(q, s) \in Seq(S)
         /\ Range(Erase(q, s)) = Range(q) \ {s}
         /\ NoDup(Erase(q, s))
<1> DEFINE r == Erase(q, s)
<1>1. PICK i \in 1 .. Len(q) :
        /\ q[i] = s /\ r \in Seq(S) /\ Len(r) = Len(q) - 1
        /\ \A j \in 1 .. Len(r) : r[j] = IF j < i THEN q[j] ELSE q[j + 1]
  BY ErasePlace
<1> HIDE DEF r
<1>2. i \in DOMAIN q  OBVIOUS
<1>3. Range(r) = Range(q) \ {q[i]} /\ NoDup(r)
  BY <1>1, <1>2, DropIndex
<1> QED  BY <1>1, <1>3 DEF r

-----------------------------------------------------------------------------
(* A list holds a page at least. *)
LEMMA LimitType == Limit \in Nat /\ Limit >= 1
BY NPAGESAssumption DEF Limit

\* The number of the last page of a span stays a page number.
LEMMA LastPage == \A a \in Nat, j \in 1 .. Limit : a + j - 1 \in Nat
BY LimitType

(* A span covers its first page and its last. *)
LEMMA CoversEnds ==
  ASSUME NEW t, NEW j \in Nat, n[t] = j, j >= 1, pageId[t] \in Nat
  PROVE  Covers(t, pageId[t]) /\ Covers(t, pageId[t] + j - 1)
BY DEF Covers

(* The invariant holds at the start. *)
LEMMA InitInv == Init => IInv
<1> SUFFICES ASSUME Init PROVE IInv  OBVIOUS
<1> USE LimitType, NoSpanAssumption DEF Init
<1>1. \A k \in 1 .. Limit : Range(spanLists[k]) = {}  BY DEF Range
<1>2. Listed = {}  BY <1>1 DEF Listed
<1>3. Active = {}  BY <1>2 DEF Active
<1>4. TypeOK  BY DEF TypeOK
<1>5. FreeOK  BY <1>1 DEF FreeOK, NoDup
<1>6. UsedOK /\ RelOK /\ Unmapped /\ LiveOK  BY <1>3 DEF UsedOK, RelOK, Unmapped, LiveOK
<1>7. Apart /\ Covered  BY <1>3 DEF Apart, Covered
<1> QED  BY <1>4, <1>5, <1>6, <1>7 DEF IInv, Intact

(* A span is listed when some list has it. *)
LEMMA ListedMember ==
  /\ \A s : s \in Listed <=> \E k \in 1 .. Limit : s \in Range(spanLists[k])
  /\ \A s : s \in Listed' <=> \E k \in 1 .. Limit : s \in Range(spanLists'[k])
BY DEF Listed

(* What the invariant says of an active span. *)
LEMMA ActiveFacts ==
  ASSUME IInv
  PROVE  /\ \A s \in Active : /\ s \in Spans
                             /\ s \in live
                             /\ s # NoSpan
                             /\ pageId[s] \in Nat
                             /\ n[s] \in 1 .. Limit
                             /\ \A p \in Nat : Covers(s, p) => p \in Pages
         /\ \A s : s \in Listed <=> \E k \in 1 .. Limit : s \in Range(spanLists[k])
<1>1. \A s : s \in Listed <=> \E k \in 1 .. Limit : s \in Range(spanLists[k])
  BY DEF Listed
<1>2. ASSUME NEW s \in Active
      PROVE  s \in Spans /\ s \in live /\ n[s] \in 1 .. Limit
  <2>1. CASE s \in used  BY <2>1 DEF IInv, UsedOK, TypeOK
  <2>2. CASE s \in Listed
    <3>1. PICK k \in 1 .. Limit : s \in Range(spanLists[k])  BY <1>1, <2>2
    <3>2. s \in live /\ n[s] = k  BY <3>1 DEF IInv, FreeOK
    <3> QED  BY <3>2 DEF IInv, TypeOK
  <2>3. CASE s = releasing /\ s # NoSpan
    BY <2>3 DEF IInv, RelOK, TypeOK
  <2> QED  BY <2>1, <2>2, <2>3 DEF Active
<1>3. ASSUME NEW s \in Active, NEW p \in Nat, Covers(s, p) PROVE p \in Pages
  BY <1>3 DEF IInv, Covered, TypeOK
<1> QED  BY <1>1, <1>2, <1>3, NoSpanAssumption DEF IInv, TypeOK

(* NewSpan of a length that is listed. *)
LEMMA TakeWholeInv ==
  ASSUME IInv, op = "idle",
         NEW k \in 1 .. Limit, NEW inUse \in BOOLEAN,
         NEW s \in Spans, TakeWhole(k, inUse, s),
         used' = used \cup {s}, UNCHANGED <<op, releasing>>
  PROVE  IInv'
<1> USE LimitType
<1>1. /\ s \in Range(spanLists[k])
      /\ spanLists'[k] \in Seq(Spans)
      /\ Range(spanLists'[k]) = Range(spanLists[k]) \ {s}
      /\ NoDup(spanLists'[k])
  BY PopFrontList DEF TakeWhole, IInv, TypeOK, FreeOK
<1>2. \A j \in 1 .. Limit : j # k => spanLists'[j] = spanLists[j]
  BY DEF TakeWhole, IInv, TypeOK
<1>3. \A j \in 1 .. Limit : j # k => s \notin Range(spanLists[j])
  <2>1. \A j \in 1 .. Limit : s \in Range(spanLists[j]) => n[s] = j
    BY DEF IInv, FreeOK
  <2> QED  BY <1>1, <2>1
<1>4. \A j \in 1 .. Limit : Range(spanLists'[j]) = Range(spanLists[j]) \ {s}
  <2> TAKE j \in 1 .. Limit
  <2>1. CASE j = k  BY <1>1, <2>1
  <2>2. CASE j # k  BY <1>2, <1>3, <2>2
  <2> QED  BY <2>1, <2>2
<1>5. Listed' = Listed \ {s} /\ s \in Listed
  <2>1. \A t : t \in Listed' <=> t \in Listed /\ t # s
    <3>1. \A t, j : j \in 1 .. Limit =>
            (t \in Range(spanLists'[j]) <=> t \in Range(spanLists[j]) /\ t # s)
      BY <1>4, Zenon
    <3> QED  BY <3>1, ListedMember, Zenon
  <2>2. s \in Listed  BY <1>1, ListedMember
  <2> QED  BY <2>1, <2>2
<1>6. Active' = Active /\ s \in Active
  <2>1. releasing' = releasing  OBVIOUS
  <2>2. \A t : t \in Active' <=> t \in Active  BY <1>5, <2>1 DEF Active
  <2> QED  BY <1>5, <2>2 DEF Active
<1>7. /\ s \in live /\ s \notin used /\ s # releasing /\ n[s] = k
      /\ pageId[s] \in Nat /\ s # NoSpan
  BY <1>1, NoSpanAssumption DEF IInv, FreeOK, TypeOK
<1>8. \A p \in Nat : MapGet(p)' = IF Covers(s, p) THEN s ELSE MapGet(p)
  <2>1. \A p \in Nat : p \in PagesOf(s) <=> Covers(s, p)
    BY <1>7 DEF PagesOf, Covers
  <2>2. \A p \in Nat : Covers(s, p) => p \in Pages  BY <1>6, ActiveFacts
  <2> QED  BY <2>1, <2>2, PagesAssumption DEF MapGet, TakeWhole
<1>9. \A t \in Active, p \in Nat : t # s /\ Covers(t, p) => MapGet(p)' = MapGet(p)
  BY <1>6, <1>8 DEF IInv, Apart
<1>10. \A t, p : Covers(t, p)' <=> Covers(t, p)
  BY DEF Covers, TakeWhole
<1>11. TypeOK'
  <2>1. spanLists' \in [1 .. Limit -> Seq(Spans)]
    BY <1>1 DEF TakeWhole, IInv, TypeOK
  <2>2. idSpanMap' \in [Pages -> Spans \cup {NoSpan}]
    BY DEF TakeWhole, IInv, TypeOK
  <2> QED  BY <2>1, <2>2 DEF TakeWhole, IInv, TypeOK
<1>12. FreeOK'
  <2> SUFFICES ASSUME NEW j \in 1 .. Limit
               PROVE  /\ NoDup(spanLists'[j])
                      /\ \A t \in Range(spanLists'[j]) :
                           /\ t \in live' /\ t \notin used' /\ t # releasing'
                           /\ n'[t] = j /\ ~isUse'[t]
                           /\ MapGet(pageId[t])' = t
                           /\ MapGet(pageId[t] + j - 1)' = t
    BY DEF FreeOK
  <2>1. NoDup(spanLists'[j])  BY <1>1, <1>2 DEF IInv, FreeOK
  <2>2. ASSUME NEW t \in Range(spanLists'[j])
        PROVE  /\ t \in live' /\ t \notin used' /\ t # releasing'
               /\ n'[t] = j /\ ~isUse'[t]
               /\ MapGet(pageId[t])' = t
               /\ MapGet(pageId[t] + j - 1)' = t
    <3>1. t \in Range(spanLists[j]) /\ t # s  BY <1>4
    <3>2. t \in Active  BY <3>1, ActiveFacts DEF Active
    <3>3. /\ t \in live /\ t \notin used /\ t # releasing /\ n[t] = j /\ ~isUse[t]
          /\ MapGet(pageId[t]) = t /\ MapGet(pageId[t] + j - 1) = t
      BY <3>1 DEF IInv, FreeOK
    <3>4. Covers(t, pageId[t]) /\ Covers(t, pageId[t] + j - 1)
      <4>1. pageId[t] \in Nat /\ n[t] = j  BY <3>2, <3>3 DEF IInv, TypeOK
      <4>2. j \in Nat /\ j >= 1  OBVIOUS
      <4> QED  BY <4>1, <4>2, CoversEnds, Zenon
    <3>5. MapGet(pageId[t])' = t /\ MapGet(pageId[t] + j - 1)' = t
      <4>1. pageId[t] \in Nat /\ pageId[t] + j - 1 \in Nat  BY <3>2, ActiveFacts
      <4>2. pageId'[t] = pageId[t]  BY DEF TakeWhole
      <4> QED  BY <1>9, <3>1, <3>2, <3>3, <3>4, <4>1, <4>2
    <3>6. isUse'[t] = isUse[t]
      BY <3>1, <3>2, ActiveFacts DEF TakeWhole, IInv, TypeOK
    <3> QED  BY <3>1, <3>3, <3>5, <3>6 DEF TakeWhole
  <2> QED  BY <2>1, <2>2
<1>13. UsedOK'
  <2> SUFFICES ASSUME NEW t \in used'
               PROVE  /\ t \in live' /\ t # releasing' /\ n'[t] \in 1 .. Limit
                      /\ \A p \in Nat : Covers(t, p)' => MapGet(p)' = t
    BY DEF UsedOK
  <2>1. CASE t = s
    BY <2>1, <1>7, <1>8, <1>10 DEF TakeWhole, IInv, TypeOK
  <2>2. CASE t # s
    <3>1. t \in used /\ t \in Active /\ t \in Spans  BY <2>2 DEF Active, IInv, TypeOK
    <3>2. isUse'[t] = isUse[t]  BY <2>2, <3>1 DEF TakeWhole, IInv, TypeOK
    <3> QED  BY <2>2, <3>1, <3>2, <1>9, <1>10 DEF TakeWhole, IInv, UsedOK
  <2> QED  BY <2>1, <2>2
<1>14. RelOK' /\ Apart' /\ Covered' /\ LiveOK'
  BY <1>6, <1>10 DEF TakeWhole, IInv, RelOK, Apart, Covered, LiveOK
<1>15. Unmapped'
  BY <1>6, <1>7 DEF TakeWhole, IInv, Unmapped, Covered, PagesOf, Covers
<1> QED  BY <1>11, <1>12, <1>13, <1>14, <1>15 DEF IInv, Intact

(* The lists without the span that is cut. *)
Off(lists, rest) ==
  /\ lists \in [1 .. Limit -> Seq(Spans)]
  /\ \A j \in 1 .. Limit : /\ NoDup(lists[j])
                            /\ Range(lists[j]) = Range(spanLists[j]) \ {rest}

(* The pages that are cut, of which the system has just given those that   *)
(* were not of the span `rest'.                                            *)
Free(first, total, rest) ==
  /\ \A t \in Active \ {rest}, p \in Nat : Covers(t, p) => p < first \/ p >= first + total
  /\ sysPages \subseteq sysPages' /\ sysPages' \subseteq Pages
  /\ \A p \in Nat : p \in sysPages' <=>
                       \/ first <= p /\ p < first + total
                       \/ \E t \in Active \ {rest} : Covers(t, p)

(* Cutting s from the head of `total' pages that no active span but rest   *)
(* covers.                                                                 *)
LEMMA CutInv ==
  ASSUME IInv, op = "idle",
         NEW first \in Nat, NEW total \in 1 .. Limit, NEW k \in 1 .. total - 1,
         NEW s \in Spans, NEW rest \in Spans, NEW inUse \in BOOLEAN,
         NEW lists, Off(lists, rest), Free(first, total, rest),
         rest # releasing, rest \notin used, rest \in live => ~isUse[rest],
         Cut(first, total, k, s, rest, lists, inUse),
         used' = used \cup {s}, UNCHANGED <<op, releasing>>
  PROVE  IInv'
<1> USE LimitType DEF Off, Free
<1>1. /\ s # rest /\ s \notin live /\ s \notin Active /\ s \notin used
      /\ s # releasing /\ s # NoSpan /\ rest # NoSpan /\ releasing = NoSpan
  <2>1. s # rest /\ s \notin live  BY DEF Cut
  <2>2. s \notin Active  BY <2>1, ActiveFacts
  <2>3. releasing = NoSpan  BY DEF IInv, RelOK
  <2> QED  BY <2>1, <2>2, <2>3, NoSpanAssumption DEF Active
<1>2. /\ spanLists' \in [1 .. Limit -> Seq(Spans)]
      /\ \A j \in 1 .. Limit : NoDup(spanLists'[j])
      /\ \A j \in 1 .. Limit : j # total - k =>
           Range(spanLists'[j]) = Range(spanLists[j]) \ {rest}
      /\ total - k \in 1 .. Limit
      /\ Range(spanLists'[total - k]) = Range(spanLists[total - k]) \cup {rest}
  <2> DEFINE q == lists[total - k]
  <2>1. /\ total - k \in 1 .. Limit /\ q \in Seq(Spans) /\ NoDup(q)
        /\ rest \notin Range(q)
    OBVIOUS
  <2>2. spanLists' = [lists EXCEPT ![total - k] = <<rest>> \o q]  BY DEF Cut
  <2> HIDE DEF q
  <2>3. /\ <<rest>> \o q \in Seq(Spans)
        /\ Range(<<rest>> \o q) = Range(q) \cup {rest}
        /\ NoDup(<<rest>> \o q)
    BY <2>1, PushFrontList
  <2>4. spanLists'[total - k] = <<rest>> \o q  BY <2>1, <2>2
  <2>5. \A j \in 1 .. Limit : j # total - k => spanLists'[j] = lists[j]  BY <2>2
  <2>6. spanLists' \in [1 .. Limit -> Seq(Spans)]  BY <2>1, <2>2, <2>3
  <2>7. \A j \in 1 .. Limit : NoDup(spanLists'[j])
    <3>1. ASSUME NEW j \in 1 .. Limit PROVE NoDup(spanLists'[j])
      BY <2>3, <2>4, <2>5
    <3> QED  BY <3>1
  <2>8. \A j \in 1 .. Limit : j # total - k =>
          Range(spanLists'[j]) = Range(spanLists[j]) \ {rest}
    BY <2>5
  <2>9. Range(spanLists'[total - k]) = Range(spanLists[total - k]) \cup {rest}
    <3>1. Range(q) = Range(spanLists[total - k]) \ {rest}  BY <2>1 DEF q
    <3> QED  BY <2>3, <2>4, <3>1
  <2> QED  BY <2>1, <2>6, <2>7, <2>8, <2>9
<1>3. \A t : t \in Listed' <=> t \in Listed \/ t = rest
  <2>1. total - k \in 1 .. Limit  OBVIOUS
  <2>2. ASSUME NEW t, t \in Listed' PROVE t \in Listed \/ t = rest
    <3>1. PICK j \in 1 .. Limit : t \in Range(spanLists'[j])
      BY <2>2, ListedMember, Zenon
    <3>2. t \in Range(spanLists[j]) \/ t = rest  BY <1>2, <3>1
    <3> QED  BY <3>2, ListedMember, Zenon
  <2>3. ASSUME NEW t, t \in Listed, t # rest PROVE t \in Listed'
    <3>1. PICK j \in 1 .. Limit : t \in Range(spanLists[j])
      BY <2>3, ListedMember, Zenon
    <3>2. t \in Range(spanLists'[j])  BY <1>2, <2>3, <3>1
    <3> QED  BY <3>2, ListedMember, Zenon
  <2>4. rest \in Listed'
    <3>1. rest \in Range(spanLists'[total - k])  BY <1>2
    <3> QED  BY <2>1, <3>1, ListedMember, Zenon
  <2> QED  BY <2>2, <2>3, <2>4
<1>4. \A t : t \in Active' <=> t \in Active \/ t = s \/ t = rest
  <2>1. releasing' = releasing  OBVIOUS
  <2> QED  BY <1>3, <2>1 DEF Active
<1>5. /\ pageId'[s] = first /\ n'[s] = k
      /\ pageId'[rest] = first + k /\ n'[rest] = total - k
      /\ isUse'[s] = inUse /\ isUse'[rest] = FALSE
      /\ live' = live \cup {s, rest}
      /\ \A t \in Spans : t # s /\ t # rest =>
           pageId'[t] = pageId[t] /\ n'[t] = n[t] /\ isUse'[t] = isUse[t]
  BY <1>1 DEF Cut, Constructed, IInv, TypeOK
<1>6. /\ \A p \in Nat : Covers(s, p)' <=> first <= p /\ p < first + k
      /\ \A p \in Nat : Covers(rest, p)' <=> first + k <= p /\ p < first + total
      /\ \A t \in Active : t # rest => \A p \in Nat : Covers(t, p)' <=> Covers(t, p)
  <2>1. \A p \in Nat : Covers(s, p)' <=> first <= p /\ p < first + k
    BY <1>5 DEF Covers
  <2>2. \A p \in Nat : Covers(rest, p)' <=> first + k <= p /\ p < first + total
    BY <1>5 DEF Covers
  <2>3. ASSUME NEW t \in Active, t # rest, NEW p \in Nat
        PROVE  Covers(t, p)' <=> Covers(t, p)
    <3>1. t \in Spans /\ t # s  BY <1>1, ActiveFacts
    <3>2. pageId'[t] = pageId[t] /\ n'[t] = n[t]  BY <1>5, <2>3, <3>1
    <3> QED  BY <3>2 DEF Covers
  <2> QED  BY <2>1, <2>2, <2>3
<1>7. \A p \in Nat : first <= p /\ p < first + total => p \in Pages
  OBVIOUS
<1>8. \A p \in Nat :
        MapGet(p)' = IF first <= p /\ p < first + k THEN s
                     ELSE IF p = first + k \/ p = first + total - 1 THEN rest
                     ELSE MapGet(p)
  <2> DEFINE m == MapAfterCut(first, total, k, s, rest)
  <2>1. idSpanMap' = m  BY DEF Cut
  <2>2. ASSUME NEW p \in Nat, p \in Pages
        PROVE  m[p] = IF first <= p /\ p < first + k THEN s
                      ELSE IF p = first + k \/ p = first + total - 1 THEN rest
                      ELSE idSpanMap[p]
    <3>1. m[p] = CASE p \in first .. (first + k - 1)       -> s
                   [] p \in {first + k, first + total - 1} -> rest
                   [] OTHER                                -> idSpanMap[p]
      BY <2>2 DEF MapAfterCut
    <3>2. p \in first .. (first + k - 1) <=> first <= p /\ p < first + k
      OBVIOUS
    <3>3. first + total - 1 >= first + k
      OBVIOUS
    <3> HIDE DEF m
    <3> QED  BY <3>1, <3>2, <3>3
  <2> HIDE DEF m
  <2>3. \A p \in Nat : MapGet(p)' = IF p \in Pages THEN m[p] ELSE NoSpan
    BY <2>1 DEF MapGet
  <2>4. ASSUME NEW p \in Nat, p \in Pages
        PROVE  MapGet(p)' = IF first <= p /\ p < first + k THEN s
                            ELSE IF p = first + k \/ p = first + total - 1 THEN rest
                            ELSE MapGet(p)
    <3>1. MapGet(p)' = m[p]  BY <2>3, <2>4
    <3>2. MapGet(p) = idSpanMap[p]  BY <2>4 DEF MapGet
    <3> QED  BY <2>2, <2>4, <3>1, <3>2
  <2>5. ASSUME NEW p \in Nat, p \notin Pages
        PROVE  MapGet(p)' = IF first <= p /\ p < first + k THEN s
                            ELSE IF p = first + k \/ p = first + total - 1 THEN rest
                            ELSE MapGet(p)
    <3>1. MapGet(p)' = NoSpan  BY <2>3, <2>5
    <3>2. MapGet(p) = NoSpan  BY <2>5 DEF MapGet
    <3>3. ~(first <= p /\ p < first + total)  BY <1>7, <2>5
    <3>4. k < total /\ k >= 1 /\ first \in Nat /\ total \in Nat  OBVIOUS
    <3>5. /\ ~(first <= p /\ p < first + k)
          /\ p # first + k /\ p # first + total - 1
      BY <3>3, <3>4
    <3> QED  BY <3>1, <3>2, <3>5
  <2> QED  BY <2>4, <2>5
<1>9. \A t \in Active, p \in Nat :
        t # rest /\ Covers(t, p) => MapGet(p)' = MapGet(p)
  <2> SUFFICES ASSUME NEW t \in Active, NEW p \in Nat, t # rest, Covers(t, p)
               PROVE  MapGet(p)' = MapGet(p)
    OBVIOUS
  <2>1. p < first \/ p >= first + total
    OBVIOUS
  <2>2. ~(first <= p /\ p < first + k) /\ p # first + k /\ p # first + total - 1
    BY <2>1
  <2> QED  BY <1>8, <2>2
<1>10. TypeOK'
  <2>1. /\ pageId' \in [Spans -> Nat] /\ n' \in [Spans -> Nat]
        /\ isUse' \in [Spans -> BOOLEAN]
    <3>1. first + k \in Nat /\ total - k \in Nat  OBVIOUS
    <3>2. pageId' \in [Spans -> Nat] /\ n' \in [Spans -> Nat]
      <4>1. /\ pageId' = [pageId EXCEPT ![s] = first, ![rest] = first + k]
            /\ n' = [n EXCEPT ![s] = k, ![rest] = total - k]
        BY DEF Cut
      <4>2. pageId \in [Spans -> Nat] /\ n \in [Spans -> Nat]  BY DEF IInv, TypeOK
      <4>3. k \in Nat  OBVIOUS
      <4> QED  BY <3>1, <4>1, <4>2, <4>3
    <3>3. Constructed({s, rest} \ live) \in [Spans -> BOOLEAN]
      BY DEF Constructed, IInv, TypeOK
    <3>4. isUse' \in [Spans -> BOOLEAN]  BY <3>3 DEF Cut
    <3> QED  BY <3>2, <3>4
  <2>2. idSpanMap' \in [Pages -> Spans \cup {NoSpan}]
    BY DEF Cut, MapAfterCut, IInv, TypeOK
  <2> QED  BY <1>2, <1>5, <2>1, <2>2 DEF IInv, TypeOK
<1>11. FreeOK'
  <2> SUFFICES ASSUME NEW j \in 1 .. Limit, NEW t \in Range(spanLists'[j])
               PROVE  /\ t \in live' /\ t \notin used' /\ t # releasing'
                      /\ n'[t] = j /\ ~isUse'[t]
                      /\ MapGet(pageId[t])' = t
                      /\ MapGet(pageId[t] + j - 1)' = t
    BY <1>2 DEF FreeOK
  <2>1. CASE t = rest
    <3>1. j = total - k  BY <1>2, <2>1
    <3>2. MapGet(first + k)' = rest /\ MapGet(first + total - 1)' = rest
      <4>1. first + k \in Nat /\ first + total - 1 \in Nat  OBVIOUS
      <4>2. ~(first + k < first + k) /\ ~(first + total - 1 < first + k)  OBVIOUS
      <4> QED  BY <1>8, <4>1, <4>2
    <3>3. pageId'[t] = first + k /\ pageId'[t] + j - 1 = first + total - 1
      BY <1>5, <2>1, <3>1
    <3> QED  BY <1>1, <1>5, <2>1, <3>1, <3>2, <3>3
  <2>2. CASE t # rest
    <3>1. t \in Range(spanLists[j])  BY <1>2, <2>2
    <3>2. t \in Active /\ t \in Spans  BY <3>1, ActiveFacts DEF Active
    <3>3. /\ t \in live /\ t \notin used /\ t # releasing /\ n[t] = j /\ ~isUse[t]
          /\ MapGet(pageId[t]) = t /\ MapGet(pageId[t] + j - 1) = t
      BY <3>1 DEF IInv, FreeOK
    <3>4. Covers(t, pageId[t]) /\ Covers(t, pageId[t] + j - 1)
      <4>1. pageId[t] \in Nat /\ n[t] = j  BY <3>2, <3>3 DEF IInv, TypeOK
      <4>2. j \in Nat /\ j >= 1  OBVIOUS
      <4> QED  BY <4>1, <4>2, CoversEnds, Zenon
    <3>5. pageId[t] \in Nat /\ pageId[t] + j - 1 \in Nat
      <4>1. pageId[t] \in Nat  BY <3>2 DEF IInv, TypeOK
      <4> QED  BY <4>1, LastPage, Zenon
    <3>6. t # s /\ pageId'[t] = pageId[t]  BY <1>1, <1>5, <2>2, <3>2
    <3>7. MapGet(pageId[t])' = t /\ MapGet(pageId[t] + j - 1)' = t
      BY <1>9, <2>2, <3>2, <3>3, <3>4, <3>5, <3>6
    <3> QED  BY <1>5, <2>2, <3>2, <3>3, <3>6, <3>7
  <2> QED  BY <2>1, <2>2
<1>12. UsedOK'
  <2> SUFFICES ASSUME NEW t \in used'
               PROVE  /\ t \in live' /\ t # releasing' /\ n'[t] \in 1 .. Limit
                      /\ \A p \in Nat : Covers(t, p)' => MapGet(p)' = t
    BY DEF UsedOK
  <2>1. CASE t = s
    BY <2>1, <1>1, <1>5, <1>6, <1>8
  <2>2. CASE t # s
    <3>1. t \in used /\ t \in Active /\ t \in Spans /\ t # rest
      BY <2>2 DEF Active, IInv, TypeOK
    <3>2. /\ t \in live /\ t # releasing /\ n[t] \in 1 .. Limit
          /\ \A p \in Nat : Covers(t, p) => MapGet(p) = t
      BY <3>1 DEF IInv, UsedOK
    <3>3. \A p \in Nat : Covers(t, p)' => MapGet(p)' = t
      BY <1>6, <1>9, <3>1, <3>2
    <3>4. n'[t] = n[t] /\ isUse'[t] = isUse[t] /\ t \in live'
      BY <1>5, <2>2, <3>1, <3>2
    <3>5. t # releasing'  BY <3>2
    <3> QED  BY <3>2, <3>3, <3>4, <3>5
  <2> QED  BY <2>1, <2>2
<1>13. RelOK'
  BY <1>1 DEF IInv, RelOK
<1>14. Apart'
  <2> SUFFICES ASSUME NEW t \in Active', NEW u \in Active', NEW p \in Nat,
                      Covers(t, p)', Covers(u, p)'
               PROVE  t = u
    BY DEF Apart
  <2>1. CASE t \in {s, rest} /\ u \in {s, rest}  BY <1>6, <2>1
  <2>2. CASE t \in {s, rest} /\ u \notin {s, rest}
    <3>1. u \in Active \ {rest} /\ Covers(u, p)  BY <1>4, <1>6, <2>2
    <3> QED  BY <1>6, <2>2, <3>1
  <2>3. CASE t \notin {s, rest} /\ u \in {s, rest}
    <3>1. t \in Active \ {rest} /\ Covers(t, p)  BY <1>4, <1>6, <2>3
    <3> QED  BY <1>6, <2>3, <3>1
  <2>4. CASE t \notin {s, rest} /\ u \notin {s, rest}
    BY <1>4, <1>6, <2>4 DEF IInv, Apart
  <2> QED  BY <2>1, <2>2, <2>3, <2>4
<1>15. Covered'
  <2> SUFFICES ASSUME NEW p \in Nat
               PROVE  p \in sysPages' <=> \E t \in Active' : Covers(t, p)'
    BY DEF Covered
  <2>1. ASSUME p \in sysPages' PROVE \E t \in Active' : Covers(t, p)'
    <3>1. CASE first <= p /\ p < first + k  BY <1>4, <1>6, <3>1
    <3>2. CASE first + k <= p /\ p < first + total  BY <1>4, <1>6, <3>2
    <3>3. CASE \E t \in Active \ {rest} : Covers(t, p)  BY <1>4, <1>6, <3>3
    <3> QED  BY <2>1, <3>1, <3>2, <3>3
  <2>2. ASSUME NEW t \in Active', Covers(t, p)' PROVE p \in sysPages'
    <3>1. CASE t \in {s, rest}  BY <1>6, <2>2, <3>1
    <3>2. CASE t \notin {s, rest}  BY <1>4, <1>6, <2>2, <3>2
    <3> QED  BY <3>1, <3>2
  <2> QED  BY <2>1, <2>2
<1>16. Unmapped'
  BY <1>8, PagesAssumption DEF Unmapped, IInv, MapGet
<1>17. LiveOK'
  BY <1>4, <1>5 DEF IInv, LiveOK
<1> QED  BY <1>10, <1>11, <1>12, <1>13, <1>14, <1>15, <1>16, <1>17 DEF IInv, Intact

(* NewSpan of a length for which a longer span is cut. *)
LEMMA SplitLongerInv ==
  ASSUME IInv, op = "idle", NEW k \in 1 .. Limit, NEW s \in Spans,
         NEW inUse \in BOOLEAN, SplitLonger(k, inUse, s),
         used' = used \cup {s}, UNCHANGED <<op, releasing>>
  PROVE  IInv'
<1> USE LimitType
<1>1. PICK i \in k + 1 .. Limit :
        /\ spanLists[i] # <<>>
        /\ Cut(pageId[Head(spanLists[i])], n[Head(spanLists[i])], k, s,
               Head(spanLists[i]), [spanLists EXCEPT ![i] = Tail(@)], inUse)
        /\ UNCHANGED sysPages
  BY DEF SplitLonger
<1> DEFINE rest == Head(spanLists[i])
           lists == [spanLists EXCEPT ![i] = Tail(@)]
<1>2. i \in 1 .. Limit  OBVIOUS
<1>3. spanLists[i] \in Seq(Spans) /\ NoDup(spanLists[i])
  BY <1>2 DEF IInv, TypeOK, FreeOK
<1>4. /\ rest \in Range(spanLists[i])
      /\ Tail(spanLists[i]) \in Seq(Spans)
      /\ Range(Tail(spanLists[i])) = Range(spanLists[i]) \ {rest}
      /\ NoDup(Tail(spanLists[i]))
  BY <1>1, <1>3, PopFrontList
<1>5. /\ rest \in live /\ rest \notin used /\ rest # releasing
      /\ n[rest] = i /\ ~isUse[rest]
  BY <1>2, <1>4 DEF IInv, FreeOK
<1>6. rest \in Active /\ rest \in Spans /\ pageId[rest] \in Nat
  BY <1>2, <1>4, ActiveFacts DEF Active
<1>7. /\ lists \in [1 .. Limit -> Seq(Spans)]
      /\ lists[i] = Tail(spanLists[i])
      /\ \A j \in 1 .. Limit : j # i => lists[j] = spanLists[j]
  BY <1>2, <1>4 DEF IInv, TypeOK
<1> HIDE DEF rest, lists
<1>8. ASSUME NEW j \in 1 .. Limit
      PROVE  NoDup(lists[j]) /\ Range(lists[j]) = Range(spanLists[j]) \ {rest}
  <2>1. CASE j = i  BY <1>4, <1>7, <2>1 DEF rest
  <2>2. CASE j # i
    <3>1. rest \notin Range(spanLists[j])  BY <1>5, <2>2 DEF IInv, FreeOK
    <3> QED  BY <1>7, <2>2, <3>1 DEF IInv, FreeOK
  <2> QED  BY <2>1, <2>2
<1>9. ASSUME NEW t \in Active \ {rest}, NEW p \in Nat, Covers(t, p)
      PROVE  p < pageId[rest] \/ p >= pageId[rest] + n[rest]
  BY <1>5, <1>6, <1>9 DEF IInv, Apart, Covers
<1>10. ASSUME NEW p \in Nat
       PROVE  p \in sysPages' <=>
                \/ pageId[rest] <= p /\ p < pageId[rest] + n[rest]
                \/ \E t \in Active \ {rest} : Covers(t, p)
  <2>1. p \in sysPages' <=> \E t \in Active : Covers(t, p)
    BY <1>1 DEF IInv, Covered
  <2> QED  BY <1>6, <2>1 DEF Covers
<1>11. sysPages \subseteq sysPages' /\ sysPages' \subseteq Pages
  BY <1>1 DEF IInv, TypeOK
<1>12. Cut(pageId[rest], n[rest], k, s, rest, lists, inUse)
  BY <1>1 DEF rest, lists
<1>13. n[rest] \in 1 .. Limit /\ k \in 1 .. n[rest] - 1
  BY <1>5
<1>14. Off(lists, rest) /\ Free(pageId[rest], n[rest], rest)
  BY <1>7, <1>8, <1>9, <1>10, <1>11 DEF Off, Free
<1> QED  BY <1>5, <1>6, <1>12, <1>13, <1>14, CutInv

(* NewSpan of a length for which a new chunk is cut. *)
LEMMA GrowCutInv ==
  ASSUME IInv, op = "idle", NEW k \in 1 .. Limit - 1, NEW s \in Spans,
         NEW first \in Pages, NEW bigSpan \in Spans \ live, NEW inUse \in BOOLEAN,
         SystemAlloc(Limit, first),
         Cut(first, Limit, k, s, bigSpan, spanLists, inUse),
         used' = used \cup {s}, UNCHANGED <<op, releasing>>
  PROVE  IInv'
<1> USE LimitType
<1>1. first \in Nat  BY PagesAssumption
<1>2. /\ \A p \in Nat : first <= p /\ p < first + Limit => p \in Pages \ sysPages
      /\ \A p \in Nat : p \in sysPages' <=>
                          p \in sysPages \/ (first <= p /\ p < first + Limit)
      /\ sysPages \subseteq sysPages' /\ sysPages' \subseteq Pages
  BY <1>1 DEF SystemAlloc, IInv, TypeOK
<1>3. bigSpan \notin Active  BY ActiveFacts
<1>4. bigSpan # releasing /\ bigSpan \notin used
  BY <1>3, NoSpanAssumption DEF Active
<1>5. \A t \in Active \ {bigSpan}, p \in Nat :
        Covers(t, p) => p < first \/ p >= first + Limit
  BY <1>1, <1>2 DEF IInv, Covered
<1>6. \A p \in Nat : p \in sysPages' <=>
                      \/ first <= p /\ p < first + Limit
                      \/ \E t \in Active \ {bigSpan} : Covers(t, p)
  BY <1>2, <1>3 DEF IInv, Covered
<1>7. spanLists \in [1 .. Limit -> Seq(Spans)]  BY DEF IInv, TypeOK
<1>8. ASSUME NEW j \in 1 .. Limit
      PROVE  /\ NoDup(spanLists[j])
             /\ Range(spanLists[j]) = Range(spanLists[j]) \ {bigSpan}
  <2>1. bigSpan \notin Range(spanLists[j])  BY DEF IInv, FreeOK
  <2> QED  BY <2>1 DEF IInv, FreeOK
<1>9. Limit \in 1 .. Limit /\ k \in 1 .. Limit - 1  OBVIOUS
<1>10. Off(spanLists, bigSpan) /\ Free(first, Limit, bigSpan)
  BY <1>2, <1>5, <1>6, <1>7, <1>8 DEF Off, Free
<1>11. bigSpan \in Spans /\ bigSpan \notin live
  OBVIOUS
<1> QED  BY <1>1, <1>4, <1>9, <1>10, <1>11, CutInv

(* A fresh chunk handed out whole. *)
LEMMA GrowWholeInv ==
  ASSUME IInv, op = "idle", NEW inUse \in BOOLEAN, NEW s \in Spans \ live,
         NEW first \in Pages,
         SystemAlloc(Limit, first),
         pageId' = [pageId EXCEPT ![s] = first],
         n' = [n EXCEPT ![s] = Limit],
         isUse' = [Constructed({s}) EXCEPT ![s] = inUse],
         live' = live \cup {s},
         idSpanMap' = [p \in Pages |-> IF p \in first .. (first + Limit - 1)
                                      THEN s ELSE idSpanMap[p]],
         used' = used \cup {s}, UNCHANGED <<spanLists, op, releasing>>
  PROVE  IInv'
<1> USE LimitType
<1>1. first \in Nat  BY PagesAssumption
<1>2. /\ \A p \in Nat : first <= p /\ p < first + Limit => p \in Pages \ sysPages
      /\ \A p \in Nat : p \in sysPages' <=>
                          p \in sysPages \/ (first <= p /\ p < first + Limit)
      /\ sysPages \subseteq sysPages' /\ sysPages' \subseteq Pages
  BY <1>1 DEF SystemAlloc, IInv, TypeOK
<1>3. s \notin Active  BY ActiveFacts
<1>4. s # releasing /\ s \notin used /\ s # NoSpan
  BY <1>3, NoSpanAssumption DEF Active
<1>5. /\ pageId'[s] = first /\ n'[s] = Limit
      /\ \A t \in Spans : t # s => /\ pageId'[t] = pageId[t] /\ n'[t] = n[t]
                                   /\ isUse'[t] = isUse[t]
  BY DEF IInv, TypeOK, Constructed
<1>6. Listed' = Listed  BY DEF Listed
<1>7. \A t : t \in Active' <=> t \in Active \/ t = s
  <2>1. releasing' = releasing  OBVIOUS
  <2> QED  BY <1>6, <2>1 DEF Active
<1>8. /\ \A p \in Nat : Covers(s, p)' <=> first <= p /\ p < first + Limit
      /\ \A t \in Active : \A p \in Nat : Covers(t, p)' <=> Covers(t, p)
  <2>1. \A p \in Nat : Covers(s, p)' <=> first <= p /\ p < first + Limit
    BY <1>5 DEF Covers
  <2>2. ASSUME NEW t \in Active, NEW p \in Nat PROVE Covers(t, p)' <=> Covers(t, p)
    <3>1. t \in Spans /\ t # s  BY <1>3, ActiveFacts
    <3>2. pageId'[t] = pageId[t] /\ n'[t] = n[t]  BY <1>5, <3>1
    <3> QED  BY <3>2 DEF Covers
  <2> QED  BY <2>1, <2>2
<1>9. \A p \in Nat : MapGet(p)' = IF first <= p /\ p < first + Limit THEN s
                                  ELSE MapGet(p)
  BY <1>1, <1>2, PagesAssumption DEF MapGet
<1>10. \A t \in Active, p \in Nat : Covers(t, p) => MapGet(p)' = MapGet(p)
  BY <1>2, <1>9 DEF IInv, Covered
<1>11. TypeOK'
  <2>1. pageId' \in [Spans -> Nat] /\ n' \in [Spans -> Nat]
    BY <1>1 DEF IInv, TypeOK
  <2>2. isUse' \in [Spans -> BOOLEAN]  BY DEF Constructed, IInv, TypeOK
  <2>3. idSpanMap' \in [Pages -> Spans \cup {NoSpan}]  BY DEF IInv, TypeOK
  <2> QED  BY <1>2, <2>1, <2>2, <2>3 DEF IInv, TypeOK
<1>12. FreeOK'
  <2> SUFFICES ASSUME NEW j \in 1 .. Limit, NEW t \in Range(spanLists[j])
               PROVE  /\ t \in live' /\ t \notin used' /\ t # releasing'
                      /\ n'[t] = j /\ ~isUse'[t]
                      /\ MapGet(pageId[t])' = t
                      /\ MapGet(pageId[t] + j - 1)' = t
    <3>1. spanLists' = spanLists  OBVIOUS
    <3>2. \A j \in 1 .. Limit : NoDup(spanLists[j])  BY DEF IInv, FreeOK
    <3> QED  BY <3>1, <3>2 DEF FreeOK
  <2>1. t \in Active /\ t \in Spans  BY ActiveFacts DEF Active
  <2>2. /\ t \in live /\ t \notin used /\ t # releasing /\ n[t] = j /\ ~isUse[t]
        /\ MapGet(pageId[t]) = t /\ MapGet(pageId[t] + j - 1) = t
    BY DEF IInv, FreeOK
  <2>3. Covers(t, pageId[t]) /\ Covers(t, pageId[t] + j - 1)
    BY <2>1, <2>2, ActiveFacts DEF Covers
  <2>4. pageId[t] \in Nat /\ pageId[t] + j - 1 \in Nat  BY <2>1, ActiveFacts
  <2>5. t # s /\ pageId'[t] = pageId[t]  BY <1>3, <1>5, <2>1
  <2>6. MapGet(pageId[t])' = t /\ MapGet(pageId[t] + j - 1)' = t
    BY <1>10, <2>1, <2>2, <2>3, <2>4, <2>5
  <2> QED  BY <1>5, <2>1, <2>2, <2>5, <2>6
<1>13. UsedOK'
  <2> SUFFICES ASSUME NEW t \in used'
               PROVE  /\ t \in live' /\ t # releasing' /\ n'[t] \in 1 .. Limit
                      /\ \A p \in Nat : Covers(t, p)' => MapGet(p)' = t
    BY DEF UsedOK
  <2>1. CASE t = s
    BY <2>1, <1>4, <1>5, <1>8, <1>9
  <2>2. CASE t # s
    <3>1. t \in used /\ t \in Active /\ t \in Spans
      BY <2>2 DEF Active, IInv, TypeOK
    <3>2. /\ t \in live /\ t # releasing /\ n[t] \in 1 .. Limit
          /\ \A p \in Nat : Covers(t, p) => MapGet(p) = t
      BY <3>1 DEF IInv, UsedOK
    <3>3. \A p \in Nat : Covers(t, p)' => MapGet(p)' = t
      BY <1>8, <1>10, <3>1, <3>2
    <3>4. n'[t] = n[t] /\ isUse'[t] = isUse[t]  BY <1>5, <2>2, <3>1
    <3> QED  BY <3>2, <3>3, <3>4
  <2> QED  BY <2>1, <2>2
<1>14. RelOK'
  <2>1. releasing = NoSpan  BY DEF IInv, RelOK
  <2> QED  BY <2>1 DEF IInv, RelOK
<1>15. Apart'
  <2> SUFFICES ASSUME NEW t \in Active', NEW u \in Active', NEW p \in Nat,
                      Covers(t, p)', Covers(u, p)'
               PROVE  t = u
    BY DEF Apart
  <2>1. \A v \in Active : Covers(v, p) => p \in sysPages  BY DEF IInv, Covered
  <2>2. CASE t = s \/ u = s  BY <1>2, <1>7, <1>8, <2>1, <2>2
  <2>3. CASE t # s /\ u # s  BY <1>7, <1>8, <2>3 DEF IInv, Apart
  <2> QED  BY <2>2, <2>3
<1>16. Covered'
  <2> SUFFICES ASSUME NEW p \in Nat
               PROVE  p \in sysPages' <=> \E t \in Active' : Covers(t, p)'
    BY DEF Covered
  <2>1. p \in sysPages <=> \E t \in Active : Covers(t, p)  BY DEF IInv, Covered
  <2> QED  BY <1>2, <1>7, <1>8, <2>1
<1>17. Unmapped'
  BY <1>2, <1>9, PagesAssumption DEF Unmapped, IInv, MapGet
<1>18. LiveOK'
  BY <1>7 DEF IInv, LiveOK
<1> QED  BY <1>11, <1>12, <1>13, <1>14, <1>15, <1>16, <1>17, <1>18 DEF IInv, Intact

(* A release begins. *)
LEMMA StartReleaseInv ==
  ASSUME IInv, NEW s \in used, StartRelease(s)
  PROVE  IInv'
<1> USE LimitType
<1>1. releasing = NoSpan /\ s \in Spans /\ s # NoSpan
  BY NoSpanAssumption DEF StartRelease, IInv, RelOK, TypeOK
<1>2. UNCHANGED <<pageId, n, isUse, live, spanLists, idSpanMap, sysPages>>
      /\ op' = "prev" /\ op = "idle" /\ releasing' = s /\ used' = used \ {s}
  BY DEF StartRelease
<1>3. Listed' = Listed  BY <1>2 DEF Listed
<1>4. \A t : t \in Active' <=> t \in Active  BY <1>1, <1>2, <1>3 DEF Active
<1>5. \A t, p : Covers(t, p)' <=> Covers(t, p)  BY <1>2 DEF Covers
<1>6. \A p : MapGet(p)' = MapGet(p)  BY <1>2 DEF MapGet
<1>7. TypeOK'  BY <1>1, <1>2 DEF IInv, TypeOK
<1>8. FreeOK'
  <2>1. \A k \in 1 .. Limit : \A t \in Range(spanLists[k]) : t # s
    BY DEF IInv, FreeOK
  <2> QED  BY <1>2, <1>6, <2>1 DEF IInv, FreeOK
<1>9. UsedOK'  BY <1>2, <1>5, <1>6 DEF IInv, UsedOK
<1>10. RelOK'  BY <1>1, <1>2 DEF IInv, RelOK, UsedOK
<1>11. Apart' /\ Covered'  BY <1>2, <1>4, <1>5 DEF IInv, Apart, Covered
<1>12. Unmapped' /\ LiveOK'  BY <1>2, <1>4 DEF IInv, Unmapped, LiveOK
<1> QED  BY <1>2, <1>7, <1>8, <1>9, <1>10, <1>11, <1>12 DEF IInv, Intact

(* The pages just before and just after the span being released: whatever  *)
(* the map shows there as mergeable is a listed span that touches it, or   *)
(* one held by somebody who was given it with _isUse unset.                *)
LEMMA MergeableNeighbour ==
  ASSUME IInv, releasing # NoSpan,
         NEW p \in Nat, NEW t, t = MapGet(p), Mergeable(t),
         p = pageId[releasing] - 1 \/ p = pageId[releasing] + n[releasing]
  PROVE  \/ t \in used /\ ~isUse[t]
         \/ /\ t \in Listed
            /\ p = pageId[releasing] - 1 => pageId[t] + n[t] = pageId[releasing]
            /\ p # pageId[releasing] - 1 =>
                 pageId[releasing] + n[releasing] = pageId[t]
<1> USE LimitType
<1> DEFINE r == releasing
<1>1. /\ r \in Active /\ pageId[r] \in Nat /\ n[r] \in 1 .. Limit
      /\ t # NoSpan /\ ~isUse[t] /\ n[t] + n[r] <= Limit
  BY ActiveFacts DEF Active, Mergeable
<1>2. p \in Pages /\ t = idSpanMap[p]  BY <1>1 DEF MapGet
<1>3. p \in sysPages  BY <1>1, <1>2 DEF IInv, Unmapped
<1>4. PICK u \in Active : Covers(u, p)  BY <1>3 DEF IInv, Covered
<1>5. pageId[u] \in Nat /\ n[u] \in 1 .. Limit /\ u \in Spans
  BY <1>4, ActiveFacts
<1>6. u # r  BY <1>1, <1>4, <1>5 DEF Covers
<1>7. CASE u \in used
  <2>1. t = u  BY <1>4, <1>7 DEF IInv, UsedOK
  <2> QED  BY <1>1, <1>7, <2>1
<1>8. CASE u \notin used
  <2>1. u \in Listed  BY <1>4, <1>6, <1>8 DEF Active
  <2>2. MapGet(pageId[u]) = u /\ MapGet(pageId[u] + n[u] - 1) = u
    <3>1. PICK k \in 1 .. Limit : u \in Range(spanLists[k])  BY <2>1, ListedMember
    <3> QED  BY <3>1 DEF IInv, FreeOK
  <2>3. CASE p = pageId[r] - 1
    <3>1. Covers(r, pageId[r])  BY <1>1 DEF Covers
    <3>2. ~Covers(u, pageId[r])  BY <1>1, <1>4, <1>6, <3>1 DEF IInv, Apart
    <3>3. pageId[u] + n[u] = pageId[r]  BY <1>1, <1>4, <1>5, <2>3, <3>2 DEF Covers
    <3>4. p = pageId[u] + n[u] - 1  BY <1>5, <2>3, <3>3
    <3> QED  BY <1>2, <2>1, <2>2, <2>3, <3>3, <3>4
  <2>4. CASE p # pageId[r] - 1
    <3>1. p = pageId[r] + n[r]  BY <2>4
    <3>2. Covers(r, p - 1) /\ p - 1 \in Nat  BY <1>1, <3>1 DEF Covers
    <3>3. ~Covers(u, p - 1)  BY <1>1, <1>4, <1>6, <3>2 DEF IInv, Apart
    <3>4. pageId[u] = p  BY <1>4, <1>5, <3>3 DEF Covers
    <3> QED  BY <1>2, <2>1, <2>2, <2>4, <3>1, <3>4
  <2> QED  BY <2>3, <2>4
<1> QED  BY <1>7, <1>8

(* A merge, with what it does to the pages. *)
LEMMA AbsorbInv ==
  ASSUME IInv, releasing # NoSpan, NEW t \in Listed, NEW first \in Nat,
         Mergeable(t),
         \/ first = pageId[t] /\ pageId[t] + n[t] = pageId[releasing]
         \/ first = pageId[releasing] /\ pageId[releasing] + n[releasing] = pageId[t],
         Absorb(t, first),
         UNCHANGED <<isUse, idSpanMap, sysPages, used, releasing>>
  PROVE  IInv'
<1> USE LimitType
<1> DEFINE r == releasing
<1>1. PICK k \in 1 .. Limit : t \in Range(spanLists[k])  BY ListedMember
<1>2. /\ t \in live /\ t \notin used /\ t # r /\ n[t] = k
      /\ NoDup(spanLists[k])
  BY <1>1 DEF IInv, FreeOK
<1>3. /\ t \in Active /\ t \in Spans /\ pageId[t] \in Nat
      /\ r \in Active /\ r \in Spans /\ pageId[r] \in Nat /\ n[r] \in 1 .. Limit
      /\ r \in live /\ r \notin used
  BY ActiveFacts DEF Active, IInv, RelOK
<1>4. k + n[r] <= Limit  BY <1>2 DEF Mergeable
<1>5. /\ pageId' = [pageId EXCEPT ![r] = first, ![t] = Link]
      /\ n' = [n EXCEPT ![r] = @ + n[t]]
      /\ spanLists' = [spanLists EXCEPT ![k] = Erase(@, t)]
      /\ live' = live \ {t}
      /\ UNCHANGED op
  BY <1>1, <1>2 DEF Absorb, AbsorbListed, AbsorbUnlisted, Drop, IsListed
<1>6. /\ pageId'[r] = first /\ n'[r] = n[r] + k
      /\ \A u \in Spans : u # r /\ u # t => pageId'[u] = pageId[u]
      /\ \A u \in Spans : u # r => n'[u] = n[u]
  BY <1>2, <1>3, <1>5 DEF IInv, TypeOK
<1>7. /\ spanLists' \in [1 .. Limit -> Seq(Spans)]
      /\ \A j \in 1 .. Limit : NoDup(spanLists'[j])
      /\ \A j \in 1 .. Limit : Range(spanLists'[j]) = Range(spanLists[j]) \ {t}
  <2>1. spanLists[k] \in Seq(Spans)  BY DEF IInv, TypeOK
  <2>2. /\ Erase(spanLists[k], t) \in Seq(Spans)
        /\ Range(Erase(spanLists[k], t)) = Range(spanLists[k]) \ {t}
        /\ NoDup(Erase(spanLists[k], t))
    BY <1>1, <1>2, <2>1, EraseList
  <2>3. /\ spanLists'[k] = Erase(spanLists[k], t)
        /\ \A j \in 1 .. Limit : j # k => spanLists'[j] = spanLists[j]
    BY <1>5 DEF IInv, TypeOK
  <2>4. spanLists' \in [1 .. Limit -> Seq(Spans)]
    BY <1>5, <2>2 DEF IInv, TypeOK
  <2>5. \A j \in 1 .. Limit : j # k => t \notin Range(spanLists[j])
    BY <1>2 DEF IInv, FreeOK
  <2>6. \A j \in 1 .. Limit : NoDup(spanLists[j])  BY DEF IInv, FreeOK
  <2> QED  BY <2>2, <2>3, <2>4, <2>5, <2>6
<1>8. \A u : u \in Listed' <=> u \in Listed /\ u # t
  <2>1. \A u, j : j \in 1 .. Limit =>
          (u \in Range(spanLists'[j]) <=> u \in Range(spanLists[j]) /\ u # t)
    BY <1>7, Zenon
  <2> QED  BY <2>1, ListedMember, Zenon
<1>9. \A u : u \in Active' <=> u \in Active /\ u # t
  <2>1. used' = used /\ releasing' = releasing  OBVIOUS
  <2> QED  BY <1>2, <1>8, <2>1 DEF Active
<1>10. /\ \A p \in Nat : Covers(r, p)' <=> Covers(r, p) \/ Covers(t, p)
       /\ \A u \in Active : u # r /\ u # t =>
            \A p \in Nat : Covers(u, p)' <=> Covers(u, p)
  <2>0. r' = r  OBVIOUS
  <2>1. \A p \in Nat : Covers(r, p)' <=> Covers(r, p) \/ Covers(t, p)
    BY <1>2, <1>3, <1>6, <2>0 DEF Covers
  <2>2. ASSUME NEW u \in Active, u # r, u # t, NEW p \in Nat
        PROVE  Covers(u, p)' <=> Covers(u, p)
    <3>1. u \in Spans  BY ActiveFacts
    <3>2. pageId'[u] = pageId[u] /\ n'[u] = n[u]  BY <1>6, <2>2, <3>1
    <3> QED  BY <3>2 DEF Covers
  <2> QED  BY <2>1, <2>2
<1>11. \A p : MapGet(p)' = MapGet(p)  BY DEF MapGet
<1>12. TypeOK'
  <2>1. pageId' \in [Spans -> Nat] /\ n' \in [Spans -> Nat]
    <3>1. Link \in Nat /\ n[r] + n[t] \in Nat  BY <1>2, <1>3 DEF Link
    <3> QED  BY <1>3, <1>5, <3>1 DEF IInv, TypeOK
  <2> QED  BY <1>5, <1>7, <2>1 DEF IInv, TypeOK
<1>13. FreeOK'
  <2> SUFFICES ASSUME NEW j \in 1 .. Limit, NEW u \in Range(spanLists'[j])
               PROVE  /\ u \in live' /\ u \notin used' /\ u # releasing'
                      /\ n'[u] = j /\ ~isUse'[u]
                      /\ MapGet(pageId[u])' = u
                      /\ MapGet(pageId[u] + j - 1)' = u
    BY <1>7 DEF FreeOK
  <2>1. u \in Range(spanLists[j]) /\ u # t  BY <1>7
  <2>2. /\ u \in live /\ u \notin used /\ u # r /\ n[u] = j /\ ~isUse[u]
        /\ MapGet(pageId[u]) = u /\ MapGet(pageId[u] + j - 1) = u
    BY <2>1 DEF IInv, FreeOK
  <2>3. u \in Spans  BY <2>1, ActiveFacts DEF Active
  <2>4. pageId'[u] = pageId[u] /\ n'[u] = n[u]  BY <1>6, <2>1, <2>2, <2>3
  <2>5. isUse' = isUse /\ used' = used /\ releasing' = r  OBVIOUS
  <2> QED  BY <1>5, <1>11, <2>1, <2>2, <2>4, <2>5
<1>14. UsedOK'
  <2> SUFFICES ASSUME NEW u \in used
               PROVE  /\ u \in live' /\ u # releasing' /\ n'[u] \in 1 .. Limit
                      /\ \A p \in Nat : Covers(u, p)' => MapGet(p)' = u
    BY DEF UsedOK
  <2>1. /\ u \in live /\ u # r /\ n[u] \in 1 .. Limit
        /\ \A p \in Nat : Covers(u, p) => MapGet(p) = u
    BY DEF IInv, UsedOK
  <2>2. u # t /\ u \in Active /\ u \in Spans  BY <1>2, ActiveFacts DEF Active
  <2>3. n'[u] = n[u] /\ isUse'[u] = isUse[u]  BY <1>6, <2>1, <2>2
  <2>4. \A p \in Nat : Covers(u, p)' => MapGet(p)' = u
    BY <1>10, <1>11, <2>1, <2>2
  <2> QED  BY <1>5, <2>1, <2>2, <2>3, <2>4
<1>15. RelOK'
  <2>1. releasing' = r /\ used' = used  OBVIOUS
  <2>2. r \in live' /\ n'[r] \in 1 .. Limit  BY <1>2, <1>3, <1>4, <1>5, <1>6
  <2> QED  BY <1>3, <1>5, <2>1, <2>2 DEF IInv, RelOK
<1>16. Apart'
  <2> SUFFICES ASSUME NEW u \in Active', NEW v \in Active', NEW p \in Nat,
                      Covers(u, p)', Covers(v, p)'
               PROVE  u = v
    BY DEF Apart
  <2>1. u \in Active /\ v \in Active /\ u # t /\ v # t  BY <1>9
  <2>2. CASE u = r \/ v = r  BY <1>3, <1>10, <2>1, <2>2 DEF IInv, Apart
  <2>3. CASE u # r /\ v # r  BY <1>10, <2>1, <2>3 DEF IInv, Apart
  <2> QED  BY <2>2, <2>3
<1>17. Covered'
  <2> SUFFICES ASSUME NEW p \in Nat
               PROVE  p \in sysPages <=> \E u \in Active' : Covers(u, p)'
    BY DEF Covered
  <2>1. p \in sysPages <=> \E u \in Active : Covers(u, p)  BY DEF IInv, Covered
  <2>2. ASSUME NEW u \in Active, Covers(u, p) PROVE \E v \in Active' : Covers(v, p)'
    <3>1. CASE u \in {r, t}  BY <1>2, <1>3, <1>9, <1>10, <2>2, <3>1
    <3>2. CASE u \notin {r, t}  BY <1>9, <1>10, <2>2, <3>2
    <3> QED  BY <3>1, <3>2
  <2>3. ASSUME NEW u \in Active', Covers(u, p)' PROVE \E v \in Active : Covers(v, p)
    <3>1. CASE u = r  BY <1>3, <1>10, <2>3, <3>1
    <3>2. CASE u # r  BY <1>9, <1>10, <2>3, <3>2
    <3> QED  BY <3>1, <3>2
  <2> QED  BY <2>1, <2>2, <2>3
<1>18. Unmapped'  BY DEF IInv, Unmapped
<1>19. LiveOK'  BY <1>5, <1>9 DEF IInv, LiveOK
<1> QED  BY <1>5, <1>12, <1>13, <1>14, <1>15, <1>16, <1>17, <1>18, <1>19 DEF IInv, Intact

(* A release ends. *)
LEMMA FinishReleaseInv ==
  ASSUME IInv, FinishRelease
  PROVE  IInv'
<1> USE LimitType
<1> DEFINE r == releasing
           k == n[releasing]
<1>1. /\ op = "next" /\ op' = "idle" /\ releasing' = NoSpan
      /\ UNCHANGED <<pageId, n, live, sysPages, used>>
      /\ r # NoSpan /\ r \in Spans /\ r \in live /\ r \notin used
      /\ k \in 1 .. Limit /\ pageId[r] \in Nat /\ r \in Active
  BY DEF FinishRelease, IInv, RelOK, TypeOK, Active
<1>2. \A j \in 1 .. Limit : r \notin Range(spanLists[j])  BY DEF IInv, FreeOK
<1>3. /\ spanLists' \in [1 .. Limit -> Seq(Spans)]
      /\ \A j \in 1 .. Limit : NoDup(spanLists'[j])
      /\ Range(spanLists'[k]) = Range(spanLists[k]) \cup {r}
      /\ \A j \in 1 .. Limit : j # k => Range(spanLists'[j]) = Range(spanLists[j])
  <2> DEFINE q == spanLists[k]
  <2>1. spanLists' = [spanLists EXCEPT ![k] = <<r>> \o q]  BY DEF FinishRelease
  <2>2. q \in Seq(Spans) /\ NoDup(q) /\ r \notin Range(q)
    BY <1>1, <1>2 DEF IInv, TypeOK, FreeOK
  <2>3. /\ <<r>> \o q \in Seq(Spans)
        /\ Range(<<r>> \o q) = Range(q) \cup {r}
        /\ NoDup(<<r>> \o q)
    <3> HIDE DEF q
    <3> QED  BY <1>1, <2>2, PushFrontList
  <2>4. spanLists'[k] = <<r>> \o q /\ \A j \in 1 .. Limit : j # k => spanLists'[j] = spanLists[j]
    BY <1>1, <2>1 DEF IInv, TypeOK
  <2>5. spanLists' \in [1 .. Limit -> Seq(Spans)]
    BY <1>1, <2>1, <2>3 DEF IInv, TypeOK
  <2>6. \A j \in 1 .. Limit : NoDup(spanLists[j])  BY DEF IInv, FreeOK
  <2>7. \A j \in 1 .. Limit : NoDup(spanLists'[j])  BY <2>3, <2>4, <2>6
  <2> QED  BY <2>3, <2>4, <2>5, <2>7
<1>4. \A t : t \in Listed' <=> t \in Listed \/ t = r
  <2>1. ASSUME NEW t, t \in Listed' PROVE t \in Listed \/ t = r
    <3>1. PICK j \in 1 .. Limit : t \in Range(spanLists'[j])
      BY <2>1, ListedMember, Zenon
    <3>2. t \in Range(spanLists[j]) \/ t = r  BY <1>3, <3>1
    <3> QED  BY <3>2, ListedMember, Zenon
  <2>2. ASSUME NEW t, t \in Listed PROVE t \in Listed'
    <3>1. PICK j \in 1 .. Limit : t \in Range(spanLists[j])
      BY <2>2, ListedMember, Zenon
    <3>2. t \in Range(spanLists'[j])  BY <1>3, <3>1
    <3> QED  BY <3>2, ListedMember, Zenon
  <2>3. r \in Listed'
    <3>1. r \in Range(spanLists'[k])  BY <1>3
    <3> QED  BY <1>1, <3>1, ListedMember, Zenon
  <2> QED  BY <2>1, <2>2, <2>3
<1>5. \A t : t \in Active' <=> t \in Active  BY <1>1, <1>4 DEF Active
<1>6. \A t, p : Covers(t, p)' <=> Covers(t, p)  BY <1>1 DEF Covers
<1>7. \A p \in Nat : MapGet(p)' = IF p = pageId[r] \/ p = pageId[r] + k - 1 THEN r
                                  ELSE MapGet(p)
  <2>1. pageId[r] \in Pages /\ pageId[r] + k - 1 \in Pages
    <3>1. Covers(r, pageId[r]) /\ Covers(r, pageId[r] + k - 1)
      BY <1>1 DEF Covers
    <3> QED  BY <1>1, <3>1, ActiveFacts
  <2> QED  BY <2>1 DEF MapGet, FinishRelease
<1>8. \A t \in Active, p \in Nat : t # r /\ Covers(t, p) => MapGet(p)' = MapGet(p)
  <2>1. Covers(r, pageId[r]) /\ Covers(r, pageId[r] + k - 1)
    BY <1>1 DEF Covers
  <2> QED  BY <1>1, <1>7, <2>1 DEF IInv, Apart
<1>9. isUse' = [isUse EXCEPT ![r] = FALSE]  BY DEF FinishRelease
<1>10. TypeOK'
  <2>1. idSpanMap' \in [Pages -> Spans \cup {NoSpan}]
    BY <1>1 DEF FinishRelease, IInv, TypeOK
  <2> QED  BY <1>1, <1>3, <1>9, <2>1 DEF IInv, TypeOK
<1>11. FreeOK'
  <2> SUFFICES ASSUME NEW j \in 1 .. Limit, NEW t \in Range(spanLists'[j])
               PROVE  /\ t \in live' /\ t \notin used' /\ t # releasing'
                      /\ n'[t] = j /\ ~isUse'[t]
                      /\ MapGet(pageId[t])' = t
                      /\ MapGet(pageId[t] + j - 1)' = t
    BY <1>3 DEF FreeOK
  <2>1. CASE t = r
    <3>1. j = k  BY <1>2, <1>3, <2>1
    <3>2. MapGet(pageId[t])' = t /\ MapGet(pageId[t] + j - 1)' = t
      BY <1>1, <1>7, <2>1, <3>1
    <3> QED  BY <1>1, <1>9, <2>1, <3>1, <3>2 DEF IInv, TypeOK
  <2>2. CASE t # r
    <3>1. t \in Range(spanLists[j])  BY <1>3, <2>2
    <3>2. t \in Active /\ t \in Spans  BY <3>1, ActiveFacts DEF Active
    <3>3. /\ t \in live /\ t \notin used /\ n[t] = j /\ ~isUse[t]
          /\ MapGet(pageId[t]) = t /\ MapGet(pageId[t] + j - 1) = t
      BY <3>1 DEF IInv, FreeOK
    <3>4. Covers(t, pageId[t]) /\ Covers(t, pageId[t] + j - 1)
      <4>1. pageId[t] \in Nat /\ n[t] = j  BY <3>2, <3>3 DEF IInv, TypeOK
      <4>2. j \in Nat /\ j >= 1  OBVIOUS
      <4> QED  BY <4>1, <4>2, CoversEnds, Zenon
    <3>5. pageId[t] \in Nat /\ pageId[t] + j - 1 \in Nat
      <4>1. pageId[t] \in Nat  BY <3>2 DEF IInv, TypeOK
      <4> QED  BY <4>1, LastPage, Zenon
    <3>6. MapGet(pageId[t])' = t /\ MapGet(pageId[t] + j - 1)' = t
      BY <1>1, <1>8, <2>2, <3>2, <3>3, <3>4, <3>5
    <3>7. isUse'[t] = isUse[t]  BY <1>9, <2>2, <3>2 DEF IInv, TypeOK
    <3>8. t # NoSpan  BY <3>2, NoSpanAssumption
    <3> QED  BY <1>1, <3>3, <3>6, <3>7, <3>8
  <2> QED  BY <2>1, <2>2
<1>12. UsedOK'
  <2> SUFFICES ASSUME NEW t \in used
               PROVE  /\ t \in live' /\ t # releasing' /\ n'[t] \in 1 .. Limit
                      /\ \A p \in Nat : Covers(t, p)' => MapGet(p)' = t
    BY <1>1 DEF UsedOK
  <2>1. /\ t \in live /\ n[t] \in 1 .. Limit
        /\ \A p \in Nat : Covers(t, p) => MapGet(p) = t
    BY DEF IInv, UsedOK
  <2>2. t # r /\ t \in Active /\ t \in Spans /\ t # NoSpan
    BY <1>1, ActiveFacts DEF Active
  <2>3. isUse'[t] = isUse[t] /\ n'[t] = n[t]  BY <1>1, <1>9, <2>2 DEF IInv, TypeOK
  <2>4. \A p \in Nat : Covers(t, p)' => MapGet(p)' = t  BY <1>6, <1>8, <2>1, <2>2
  <2> QED  BY <1>1, <2>1, <2>2, <2>3, <2>4
<1>13. RelOK'  BY <1>1 DEF RelOK
<1>14. Apart' /\ Covered' /\ LiveOK'
  BY <1>1, <1>5, <1>6 DEF IInv, Apart, Covered, LiveOK
<1>15. Unmapped'
  <2>1. Covers(r, pageId[r]) /\ Covers(r, pageId[r] + k - 1)
    BY <1>1 DEF Covers
  <2>2. pageId[r] \in sysPages /\ pageId[r] + k - 1 \in sysPages
    BY <1>1, <2>1 DEF IInv, Covered
  <2>3. \A p \in Pages \ sysPages : idSpanMap'[p] = idSpanMap[p]
    BY <2>2 DEF FinishRelease
  <2> QED  BY <1>1, <2>3 DEF IInv, Unmapped
<1> QED  BY <1>10, <1>11, <1>12, <1>13, <1>14, <1>15 DEF IInv, Intact, FinishRelease

(* The system refuses. *)
LEMMA ThrowInv ==
  ASSUME IInv, NEW k \in Nat, NewSpanThrows(k)
  PROVE  IInv'
<1>1. /\ op = "idle" /\ op' = "thrown" /\ live \subseteq live' /\ live' \subseteq Spans
      /\ UNCHANGED <<pageId, n, isUse, spanLists, idSpanMap, sysPages, used, releasing>>
  BY DEF NewSpanThrows, IInv, TypeOK
<1>2. releasing = NoSpan  BY <1>1 DEF IInv, RelOK
<1>3. Active' = Active  BY <1>1 DEF Active, Listed
<1>4. \A t, p : Covers(t, p)' <=> Covers(t, p)  BY <1>1 DEF Covers
<1>5. \A p : MapGet(p)' = MapGet(p)  BY <1>1 DEF MapGet
<1>6. TypeOK' /\ RelOK' /\ LiveOK'  BY <1>1, <1>2 DEF IInv, TypeOK, RelOK, LiveOK
<1>7. FreeOK' /\ UsedOK'  BY <1>1, <1>4, <1>5 DEF IInv, FreeOK, UsedOK
<1>8. Apart' /\ Covered' /\ Unmapped'
  BY <1>1, <1>3, <1>4 DEF IInv, Apart, Covered, Unmapped
<1> QED  BY <1>1, <1>6, <1>7, <1>8 DEF IInv, Intact

(* NewSpan, by any of its paths. *)
LEMMA NewSpanInv ==
  ASSUME IInv, NEW k \in 1 .. Limit, NEW inUse \in BOOLEAN,
         NEW s \in Spans, NewSpan(k, inUse, s)
  PROVE  IInv'
<1> USE LimitType
<1>1. op = "idle" /\ used' = used \cup {s} /\ UNCHANGED <<op, releasing>>
  BY DEF NewSpan
<1>2. CASE NewHugeSpan(k, inUse, s)  BY <1>2 DEF NewHugeSpan
<1>3. CASE TakeWhole(k, inUse, s)  BY <1>1, <1>3, TakeWholeInv
<1>4. CASE SplitLonger(k, inUse, s)  BY <1>1, <1>4, SplitLongerInv
<1>5. CASE GrowAndTake(k, inUse, s)
  <2>1. PICK first \in Pages :
          /\ SystemAlloc(Limit, first)
          /\ IF k = Limit
             THEN /\ s \notin live
                  /\ pageId' = [pageId EXCEPT ![s] = first]
                  /\ n' = [n EXCEPT ![s] = Limit]
                  /\ isUse' = [Constructed({s}) EXCEPT ![s] = inUse]
                  /\ live' = live \cup {s}
                  /\ idSpanMap' = [p \in Pages |->
                                     IF p \in first .. (first + Limit - 1)
                                     THEN s ELSE idSpanMap[p]]
                  /\ UNCHANGED spanLists
             ELSE \E bigSpan \in Spans \ live :
                    Cut(first, Limit, k, s, bigSpan, spanLists, inUse)
    BY <1>5 DEF GrowAndTake
  <2>2. CASE k = Limit
    <3>1. s \in Spans \ live /\ UNCHANGED <<spanLists, op, releasing>>
      BY <1>1, <2>1, <2>2
    <3> QED  BY <1>1, <2>1, <2>2, <3>1, GrowWholeInv
  <2>3. CASE k # Limit
    <3>1. k \in 1 .. Limit - 1  BY <2>3
    <3>2. PICK bigSpan \in Spans \ live :
            Cut(first, Limit, k, s, bigSpan, spanLists, inUse)
      BY <2>1, <2>3, <3>1
    <3> QED  BY <1>1, <2>1, <3>1, <3>2, GrowCutInv
  <2> QED  BY <2>2, <2>3
<1> QED  BY <1>2, <1>3, <1>4, <1>5 DEF NewSpan

(* A held span is on no list: to merge it is the end. *)
LEMMA CorruptInv ==
  ASSUME IInv, NEW t \in used, NEW first \in Nat, Absorb(t, first),
         UNCHANGED <<isUse, idSpanMap, sysPages, used, releasing>>
  PROVE  TypeOK' /\ op' = "corrupt"
<1>1. ~IsListed(t)
  BY DEF IInv, UsedOK, FreeOK, IsListed
<1>2. /\ op' = "corrupt" /\ spanLists' = spanLists
      /\ \/ Drop(t, first)
         \/ pageId' = [pageId EXCEPT ![releasing] = first] /\ live' = live
      /\ n' = [n EXCEPT ![releasing] = @ + n[t]]
  BY <1>1 DEF Absorb, AbsorbListed, AbsorbUnlisted
<1>3. pageId \in [Spans -> Nat] /\ n \in [Spans -> Nat] /\ t \in Spans
  BY DEF IInv, TypeOK
<1>4. n' \in [Spans -> Nat]
  <2>1. ASSUME NEW u \in Spans PROVE n'[u] = n[u] \/ n'[u] = n[u] + n[t]
    BY <1>2, <1>3
  <2>2. n' = [u \in Spans |-> n'[u]]  BY <1>2, <1>3
  <2> QED  BY <1>3, <2>1, <2>2
<1>5. pageId' \in [Spans -> Nat] /\ live' \subseteq live
  BY <1>2, <1>3 DEF Drop, Link
<1> QED  BY <1>2, <1>4, <1>5 DEF IInv, TypeOK

(* A merge with the span before. *)
LEMMA MergePrevInv ==
  ASSUME IInv, MergePrev
  PROVE  IInv' \/ (op' = "corrupt" /\ TypeOK')
<1> USE LimitType
<1>1. /\ op = "prev" /\ Mergeable(PrevSpan) /\ releasing # NoSpan
      /\ Absorb(PrevSpan, pageId[PrevSpan])
      /\ UNCHANGED <<isUse, idSpanMap, sysPages, used, releasing>>
  BY DEF MergePrev, IInv, RelOK
<1>2. PrevSpan # NoSpan /\ pageId[releasing] - 1 \in Nat
  <2>1. PrevSpan # NoSpan  BY <1>1 DEF Mergeable
  <2> QED  BY <2>1, PagesAssumption DEF PrevSpan, MapGet
<1>3. \/ PrevSpan \in used
      \/ /\ PrevSpan \in Listed
         /\ pageId[PrevSpan] + n[PrevSpan] = pageId[releasing]
  BY <1>1, <1>2, MergeableNeighbour DEF PrevSpan
<1>4. CASE PrevSpan \in used
  <2>1. pageId[PrevSpan] \in Nat  BY <1>4 DEF IInv, TypeOK
  <2> QED  BY <1>1, <1>4, <2>1, CorruptInv
<1>5. CASE PrevSpan \notin used
  <2>1. PrevSpan \in Listed /\ pageId[PrevSpan] \in Nat
    BY <1>3, <1>5, ActiveFacts DEF Active
  <2> QED  BY <1>1, <1>3, <1>5, <2>1, AbsorbInv
<1> QED  BY <1>4, <1>5

(* A merge with the span after. *)
LEMMA MergeNextInv ==
  ASSUME IInv, MergeNext
  PROVE  IInv' \/ (op' = "corrupt" /\ TypeOK')
<1> USE LimitType
<1>1. /\ op = "next" /\ Mergeable(NextSpan) /\ releasing # NoSpan
      /\ Absorb(NextSpan, pageId[releasing])
      /\ UNCHANGED <<isUse, idSpanMap, sysPages, used, releasing>>
  BY DEF MergeNext, IInv, RelOK
<1>2. /\ pageId[releasing] \in Nat /\ n[releasing] \in 1 .. Limit
      /\ pageId[releasing] + n[releasing] \in Nat
      /\ pageId[releasing] + n[releasing] # pageId[releasing] - 1
  BY <1>1, ActiveFacts DEF Active
<1>3. \/ NextSpan \in used
      \/ /\ NextSpan \in Listed
         /\ pageId[releasing] + n[releasing] = pageId[NextSpan]
  BY <1>1, <1>2, MergeableNeighbour DEF NextSpan
<1>4. CASE NextSpan \in used  BY <1>1, <1>2, <1>4, CorruptInv
<1>5. CASE NextSpan \notin used  BY <1>1, <1>2, <1>3, <1>5, AbsorbInv
<1> QED  BY <1>4, <1>5

(* The first merging loop ends. *)
LEMMA StopPrevInv == ASSUME IInv, StopPrev PROVE IInv'
<1>1. /\ op = "prev" /\ op' = "next"
      /\ UNCHANGED <<pageId, n, isUse, live, spanLists, idSpanMap, sysPages,
                     used, releasing>>
  BY DEF StopPrev
<1>2. Active' = Active  BY <1>1 DEF Active, Listed
<1>3. \A t, p : Covers(t, p)' <=> Covers(t, p)  BY <1>1 DEF Covers
<1>4. \A p : MapGet(p)' = MapGet(p)  BY <1>1 DEF MapGet
<1>5. TypeOK' /\ RelOK' /\ LiveOK'
  BY <1>1, <1>2 DEF IInv, TypeOK, RelOK, LiveOK
<1>6. FreeOK' /\ UsedOK'  BY <1>1, <1>3, <1>4 DEF IInv, FreeOK, UsedOK
<1>7. Apart' /\ Covered' /\ Unmapped'
  BY <1>1, <1>2, <1>3 DEF IInv, Apart, Covered, Unmapped
<1> QED  BY <1>1, <1>5, <1>6, <1>7 DEF IInv, Intact

(* Every step keeps the invariant, or is the end. *)
LEMMA NextInv ==
  ASSUME NoHuge, IInv, [Next]_vars
  PROVE  IInv' \/ (op' = "corrupt" /\ TypeOK')
<1> USE LimitType
<1>1. ASSUME NEW k \in CentralRequests, NEW s \in Spans, NewSpan(k, TRUE, s)
      PROVE  IInv'
  <2>1. k \in 1 .. Limit  BY RequestsAssumption DEF Limit
  <2> QED  BY <1>1, <2>1, NewSpanInv
<1>2. ASSUME NEW k \in LargeRequests, NEW s \in Spans, NewSpan(k, FALSE, s)
      PROVE  IInv'
  <2>1. k \in 1 .. Limit  BY DEF NoHuge
  <2> QED  BY <1>2, <2>1, NewSpanInv
<1>3. ASSUME NEW k \in CentralRequests \cup LargeRequests, NewSpanThrows(k)
      PROVE  IInv'
  <2>1. k \in Nat  BY RequestsAssumption
  <2> QED  BY <1>3, <2>1, ThrowInv
<1>4. ASSUME NEW s \in used, ReleaseHuge(s) PROVE IInv'
  BY <1>4 DEF ReleaseHuge, IInv, UsedOK
<1>5. ASSUME NEW s \in used, StartRelease(s) PROVE IInv'
  BY <1>5, StartReleaseInv
<1>6. CASE ReleaseStep
  BY <1>6, MergePrevInv, StopPrevInv, MergeNextInv, FinishReleaseInv DEF ReleaseStep
<1>7. CASE UNCHANGED vars
  <2>1. UNCHANGED <<pageId, n, isUse, live, spanLists, idSpanMap, sysPages, used,
                    op, releasing>>
    BY <1>7 DEF vars
  <2>2. Active' = Active  BY <2>1 DEF Active, Listed
  <2>3. \A t, p : Covers(t, p)' <=> Covers(t, p)  BY <2>1 DEF Covers
  <2>4. \A p : MapGet(p)' = MapGet(p)  BY <2>1 DEF MapGet
  <2>5. Intact' /\ TypeOK' /\ RelOK' /\ LiveOK'
    BY <2>1, <2>2 DEF IInv, Intact, TypeOK, RelOK, LiveOK
  <2>6. FreeOK' /\ UsedOK'  BY <2>1, <2>3, <2>4 DEF IInv, FreeOK, UsedOK
  <2>7. Apart' /\ Covered' /\ Unmapped'
    BY <2>1, <2>2, <2>3 DEF IInv, Apart, Covered, Unmapped
  <2> QED  BY <2>5, <2>6, <2>7 DEF IInv
<1> QED  BY <1>1, <1>2, <1>3, <1>4, <1>5, <1>6, <1>7 DEF Next

(* After that nothing moves. *)
LEMMA CorruptStays ==
  ASSUME op = "corrupt", [Next]_vars
  PROVE  UNCHANGED vars
BY DEF Next, NewSpan, NewSpanThrows, ReleaseHuge, StartRelease, ReleaseStep, MergePrev,
       StopPrev, MergeNext, FinishRelease

(* The inductive invariant holds of every reachable state. *)
THEOREM Invariance ==
  ASSUME NoHuge
  PROVE  Spec => []UntilMerged
<1>1. Init => UntilMerged
  BY InitInv DEF UntilMerged, IInv
<1>2. UntilMerged /\ [Next]_vars => UntilMerged'
  <2> SUFFICES ASSUME UntilMerged, [Next]_vars PROVE UntilMerged'  OBVIOUS
  <2>1. CASE Intact
    <3>1. IInv' \/ (op' = "corrupt" /\ TypeOK')  BY <2>1, NextInv DEF UntilMerged
    <3> QED  BY <3>1 DEF UntilMerged, Intact, IInv
  <2>2. CASE ~Intact
    <3>1. UNCHANGED vars  BY <2>2, CorruptStays DEF Intact
    <3> QED  BY <2>2, <3>1 DEF UntilMerged, Intact, TypeOK, vars
  <2> QED  BY <2>1, <2>2
<1> QED  BY <1>1, <1>2, PTL DEF Spec

-----------------------------------------------------------------------------
(* What the runs check follows from the inductive invariant. *)

(* The pages of a span are those it covers. *)
LEMMA PagesOfCovers ==
  ASSUME IInv, NEW s \in Active
  PROVE  \A p : p \in PagesOf(s) <=> p \in Nat /\ Covers(s, p)
<1>1. pageId[s] \in Nat /\ n[s] \in 1 .. Limit  BY ActiveFacts
<1> QED  BY <1>1, LimitType DEF PagesOf, Covers

(* The inductive invariant has the safety properties in it. *)
LEMMA InvariantSafety ==
  ASSUME IInv
  PROVE  /\ SpansDisjoint /\ NoPageLost /\ LookupExact /\ FreeSpansFound
         /\ DescriptorsAccounted
<1>1. SpansDisjoint
  BY PagesOfCovers DEF SpansDisjoint, IInv, Apart
<1>2. NoPageLost
  <2>1. ASSUME NEW p \in sysPages PROVE \E s \in Active : p \in PagesOf(s)
    <3>1. p \in Nat  BY PagesAssumption DEF IInv, TypeOK
    <3>2. PICK s \in Active : Covers(s, p)  BY <3>1 DEF IInv, Covered
    <3> QED  BY <3>1, <3>2, PagesOfCovers
  <2>2. ASSUME NEW s \in Active, NEW p \in PagesOf(s) PROVE p \in sysPages
    BY PagesOfCovers DEF IInv, Covered
  <2> QED  BY <2>1, <2>2 DEF NoPageLost
<1>3. LookupExact
  <2> SUFFICES ASSUME NEW s \in used, NEW p \in PagesOf(s) PROVE MapGet(p) = s
    BY DEF LookupExact
  <2>1. p \in Nat /\ Covers(s, p)  BY PagesOfCovers DEF Active
  <2> QED  BY <2>1 DEF IInv, UsedOK
<1>4. FreeSpansFound
  BY DEF FreeSpansFound, IInv, FreeOK, NoDup, Range
<1>5. DescriptorsAccounted
  <2>1. Active \subseteq live  BY ActiveFacts
  <2> QED  BY <2>1 DEF DescriptorsAccounted, IInv, LiveOK
<1> QED  BY <1>1, <1>2, <1>3, <1>4, <1>5

(* Every variable keeps its type. *)
THEOREM Typing ==
  ASSUME NoHuge
  PROVE  Spec => []TypeOK
<1>1. UntilMerged => TypeOK  BY DEF UntilMerged
<1> QED  BY <1>1, Invariance, PTL

(* Until a held span is merged, two callers of NewSpan never hold the same *)
(* page, and no page held or free is in two spans.                         *)
THEOREM PagesNeverShared ==
  ASSUME NoHuge
  PROVE  Spec => []SpansDisjoint
<1>1. UntilMerged => SpansDisjoint  BY InvariantSafety DEF UntilMerged, SpansDisjoint
<1> QED  BY <1>1, Invariance, PTL

(* Cutting and merging neither lose pages nor make them up, until a held   *)
(* span is merged.                                                         *)
THEOREM PagesConserved ==
  ASSUME NoHuge
  PROVE  Spec => []NoPageLost
<1>1. UntilMerged => NoPageLost  BY InvariantSafety DEF UntilMerged, NoPageLost
<1> QED  BY <1>1, Invariance, PTL

(* MapObjectToSpan, which takes no lock, returns the span of any address a *)
(* caller holds, until the span of one is merged while it is held.         *)
THEOREM LookupsCorrect ==
  ASSUME NoHuge
  PROVE  Spec => []LookupExact
<1>1. UntilMerged => LookupExact  BY InvariantSafety DEF UntilMerged, LookupExact
<1> QED  BY <1>1, Invariance, PTL

(* A listed span can be found by either neighbour's release, and hangs on  *)
(* the list of its own length, once, until a held span is merged.          *)
THEOREM ListsSound ==
  ASSUME NoHuge
  PROVE  Spec => []FreeSpansFound
<1>1. UntilMerged => FreeSpansFound  BY InvariantSafety DEF UntilMerged, FreeSpansFound
<1> QED  BY <1>1, Invariance, PTL

-----------------------------------------------------------------------------
(* The page cache implements RunAllocator.  *)

(* NewSpan hands out a run of exactly k pages and moves nobody else's. *)
LEMMA NewSpanEffect ==
  ASSUME IInv, NEW k \in 1 .. Limit, NEW inUse \in BOOLEAN, NEW s \in Spans,
         NewSpan(k, inUse, s)
  PROVE  /\ s \notin used
         /\ n'[s] = k
         /\ \A t \in used : pageId'[t] = pageId[t] /\ n'[t] = n[t]
<1> USE LimitType
<1>1. used \subseteq live /\ used \subseteq Spans  BY DEF IInv, UsedOK, TypeOK
<1>2. ASSUME NEW list, NEW first, NEW total, NEW rest, rest \notin used,
             Cut(first, total, k, s, rest, list, inUse)
      PROVE  /\ s \notin used
             /\ n'[s] = k
             /\ \A t \in used : pageId'[t] = pageId[t] /\ n'[t] = n[t]
  <2>1. s \notin live /\ s # rest  BY <1>2 DEF Cut
  <2>2. /\ pageId' = [pageId EXCEPT ![s] = first, ![rest] = first + k]
        /\ n' = [n EXCEPT ![s] = k, ![rest] = total - k]
    BY <1>2 DEF Cut
  <2>3. n \in [Spans -> Nat] /\ pageId \in [Spans -> Nat]  BY DEF IInv, TypeOK
  <2> QED  BY <1>1, <1>2, <2>1, <2>2, <2>3
<1>3. CASE NewHugeSpan(k, inUse, s)  BY <1>3 DEF NewHugeSpan
<1>4. CASE TakeWhole(k, inUse, s)
  <2>1. spanLists[k] \in Seq(Spans) /\ NoDup(spanLists[k]) /\ spanLists[k] # <<>>
    BY <1>4 DEF TakeWhole, IInv, TypeOK, FreeOK
  <2>2. s \in Range(spanLists[k])  BY <1>4, <2>1, PopFrontList DEF TakeWhole
  <2> QED  BY <1>4, <2>2 DEF TakeWhole, IInv, FreeOK
<1>5. CASE SplitLonger(k, inUse, s)
  <2>1. PICK i \in k + 1 .. Limit :
          /\ spanLists[i] # <<>>
          /\ Cut(pageId[Head(spanLists[i])], n[Head(spanLists[i])], k, s,
                 Head(spanLists[i]), [spanLists EXCEPT ![i] = Tail(@)], inUse)
    BY <1>5 DEF SplitLonger
  <2>2. i \in 1 .. Limit  OBVIOUS
  <2>3. spanLists[i] \in Seq(Spans) /\ NoDup(spanLists[i])
    BY <2>2 DEF IInv, TypeOK, FreeOK
  <2>4. Head(spanLists[i]) \in Range(spanLists[i])  BY <2>1, <2>3, PopFrontList
  <2>5. Head(spanLists[i]) \notin used  BY <2>2, <2>4 DEF IInv, FreeOK
  <2> QED  BY <1>2, <2>1, <2>5
<1>6. CASE GrowAndTake(k, inUse, s)
  <2>1. PICK first \in Pages :
          IF k = Limit
          THEN /\ s \notin live
               /\ pageId' = [pageId EXCEPT ![s] = first]
               /\ n' = [n EXCEPT ![s] = Limit]
          ELSE \E bigSpan \in Spans \ live :
                 Cut(first, Limit, k, s, bigSpan, spanLists, inUse)
    BY <1>6 DEF GrowAndTake
  <2>2. CASE k = Limit  BY <1>1, <2>1, <2>2 DEF IInv, TypeOK
  <2>3. CASE k # Limit
    <3>1. PICK bigSpan \in Spans \ live :
            Cut(first, Limit, k, s, bigSpan, spanLists, inUse)
      BY <2>1, <2>3
    <3>2. bigSpan \notin used  BY <1>1
    <3> QED  BY <1>2, <3>1, <3>2
  <2> QED  BY <2>2, <2>3
<1> QED  BY <1>3, <1>4, <1>5, <1>6 DEF NewSpan

(* A span handed out is a run of pages nobody held. *)
LEMMA ObtainStep ==
  ASSUME IInv, IInv', NEW k \in 1 .. Limit, k \in CentralRequests \cup LargeRequests,
         NEW inUse \in BOOLEAN, NEW s \in Spans, NewSpan(k, inUse, s)
  PROVE  Allocator!Next
<1> USE LimitType
<1>1. /\ s \notin used /\ n'[s] = k /\ used' = used \cup {s}
      /\ \A t \in used : pageId'[t] = pageId[t] /\ n'[t] = n[t]
  BY NewSpanEffect DEF NewSpan
<1> DEFINE r == [first |-> pageId'[s], count |-> k]
<1>2. s \in Active' /\ \A t \in used : t \in Active'  BY <1>1 DEF Active
<1>3. pageId'[s] \in Nat /\ \A p \in Nat : Covers(s, p)' => p \in Pages
  <2>1. pageId' \in [Spans -> Nat] /\ sysPages' \subseteq Pages  BY DEF IInv, TypeOK
  <2> QED  BY <1>2, <2>1 DEF IInv, Covered
<1>4. pageId'[s] .. (pageId'[s] + k - 1) \subseteq Pages /\ pageId'[s] \in Pages
  BY <1>1, <1>3 DEF Covers
<1>5. \A t \in used :
        pageId[t] .. (pageId[t] + n[t] - 1) \cap pageId'[s] .. (pageId'[s] + k - 1) = {}
  <2> SUFFICES ASSUME NEW t \in used,
                      NEW p \in pageId[t] .. (pageId[t] + n[t] - 1),
                      p \in pageId'[s] .. (pageId'[s] + k - 1)
               PROVE  FALSE
    OBVIOUS
  <2>1. pageId[t] \in Nat /\ n[t] \in Nat  BY DEF IInv, TypeOK
  <2>2. p \in Nat /\ Covers(t, p)' /\ Covers(s, p)'  BY <1>1, <1>3, <2>1 DEF Covers
  <2>3. t = s  BY <1>2, <2>2 DEF IInv, Apart
  <2> QED  BY <1>1, <2>3
<1>6. HeldRuns' = HeldRuns \cup {r}
  BY <1>1 DEF HeldRuns, RunOf
<1>7. \A h \in HeldRuns : (h.first .. (h.first + h.count - 1))
                            \cap pageId'[s] .. (pageId'[s] + k - 1) = {}
  BY <1>5 DEF HeldRuns, RunOf
<1>8. Allocator!Obtain(k)
  BY <1>4, <1>6, <1>7 DEF Allocator!Obtain, Allocator!CellsOf, HeldRuns, RunOf
<1> QED  BY <1>8 DEF Allocator!Next

(* A span given back leaves the other runs held. *)
LEMMA GiveBackStep ==
  ASSUME IInv, NEW s \in used, StartRelease(s)
  PROVE  Allocator!Next
<1>1. used' = used \ {s} /\ pageId' = pageId /\ n' = n  BY DEF StartRelease
<1>2. \A t \in used : RunOf(t) = RunOf(s) => t = s
  <2> SUFFICES ASSUME NEW t \in used, RunOf(t) = RunOf(s) PROVE t = s  OBVIOUS
  <2>1. pageId[t] = pageId[s] /\ n[t] = n[s]  BY DEF RunOf
  <2>2. pageId[s] \in Nat /\ n[s] \in 1 .. Limit  BY ActiveFacts DEF Active
  <2>3. Covers(t, pageId[s]) /\ Covers(s, pageId[s])
    BY <2>1, <2>2, LimitType DEF Covers
  <2> QED  BY <2>2, <2>3 DEF IInv, Apart, Active
<1>3. HeldRuns' = HeldRuns \ {RunOf(s)}
  <2>1. HeldRuns' = {RunOf(t) : t \in used \ {s}}  BY <1>1 DEF HeldRuns, RunOf
  <2> QED  BY <1>2, <2>1 DEF HeldRuns
<1>4. RunOf(s) \in HeldRuns  BY DEF HeldRuns
<1> QED  BY <1>3, <1>4 DEF Allocator!Next, Allocator!GiveBack, HeldRuns, RunOf

(* What callers hold depends on the spans they hold alone. *)
LEMMA HeldUnchanged ==
  ASSUME IInv, used' = used,
         \A t \in used : pageId'[t] = pageId[t] /\ n'[t] = n[t]
  PROVE  HeldRuns' = HeldRuns
BY DEF HeldRuns, RunOf

(* A merge with a listed span leaves those that are held where they are. *)
LEMMA AbsorbStay ==
  ASSUME IInv, releasing # NoSpan, NEW t, t \in Listed \/ t \in used, NEW first,
         Absorb(t, first), op' # "corrupt"
  PROVE  \A u \in used : pageId'[u] = pageId[u] /\ n'[u] = n[u]
<1>1. IsListed(t)  BY DEF Absorb, AbsorbListed, AbsorbUnlisted
<1>2. t \notin used /\ releasing \notin used
  BY <1>1 DEF IInv, UsedOK, FreeOK, RelOK, IsListed
<1> QED  BY <1>1, <1>2 DEF Absorb, AbsorbListed, AbsorbUnlisted, Drop, IInv, TypeOK

(* A step moves and resizes no span that is held before and after it. *)
LEMMA HeldStay ==
  ASSUME NoHuge, IInv, [Next]_vars, op' # "corrupt"
  PROVE  \A t \in used : t \in used' => pageId'[t] = pageId[t] /\ n'[t] = n[t]
<1> USE LimitType
<1>1. ASSUME NEW k \in CentralRequests, NEW s \in Spans, NewSpan(k, TRUE, s)
      PROVE  \A t \in used : pageId'[t] = pageId[t] /\ n'[t] = n[t]
  <2>1. k \in 1 .. Limit  BY RequestsAssumption DEF Limit
  <2> QED  BY <1>1, <2>1, NewSpanEffect
<1>2. ASSUME NEW k \in LargeRequests, NEW s \in Spans, NewSpan(k, FALSE, s)
      PROVE  \A t \in used : pageId'[t] = pageId[t] /\ n'[t] = n[t]
  <2>1. k \in 1 .. Limit  BY DEF NoHuge
  <2> QED  BY <1>2, <2>1, NewSpanEffect
<1>3. ASSUME NEW k, NewSpanThrows(k) PROVE pageId' = pageId /\ n' = n
  BY <1>3 DEF NewSpanThrows
<1>4. ASSUME NEW s \in used, ReleaseHuge(s) PROVE FALSE
  BY <1>4 DEF ReleaseHuge, IInv, UsedOK
<1>5. ASSUME NEW s, StartRelease(s) PROVE pageId' = pageId /\ n' = n
  BY <1>5 DEF StartRelease
<1>6. ASSUME MergePrev
      PROVE  \A t \in used : pageId'[t] = pageId[t] /\ n'[t] = n[t]
  <2>1. Mergeable(PrevSpan) /\ releasing # NoSpan
    BY <1>6 DEF MergePrev, IInv, RelOK
  <2>2. PrevSpan # NoSpan /\ pageId[releasing] - 1 \in Nat
    <3>1. PrevSpan # NoSpan  BY <2>1 DEF Mergeable
    <3> QED  BY <3>1, PagesAssumption DEF PrevSpan, MapGet
  <2>3. PrevSpan \in Listed \/ PrevSpan \in used
    BY <2>1, <2>2, MergeableNeighbour DEF PrevSpan
  <2> QED  BY <1>6, <2>1, <2>3, AbsorbStay DEF MergePrev
<1>7. ASSUME MergeNext
      PROVE  \A t \in used : pageId'[t] = pageId[t] /\ n'[t] = n[t]
  <2>1. Mergeable(NextSpan) /\ releasing # NoSpan
    BY <1>7 DEF MergeNext, IInv, RelOK
  <2>2. pageId[releasing] + n[releasing] \in Nat
    BY <2>1, ActiveFacts DEF Active
  <2>3. NextSpan \in Listed \/ NextSpan \in used
    BY <2>1, <2>2, MergeableNeighbour DEF NextSpan
  <2> QED  BY <1>7, <2>1, <2>3, AbsorbStay DEF MergeNext
<1>8. ASSUME StopPrev \/ FinishRelease \/ UNCHANGED vars
      PROVE  pageId' = pageId /\ n' = n
  BY <1>8 DEF StopPrev, FinishRelease, vars
<1> QED  BY <1>1, <1>2, <1>3, <1>4, <1>5, <1>6, <1>7, <1>8 DEF Next, ReleaseStep

(* A step either is a call or a release as callers see it, or leaves the   *)
(* held runs alone.                                                        *)
LEMMA StepImplements ==
  ASSUME NoHuge, IInv, IInv', [Next]_vars, op' # "corrupt"
  PROVE  Allocator!Next \/ HeldRuns' = HeldRuns
<1> USE LimitType
<1>1. ASSUME NEW k \in CentralRequests, NEW s \in Spans, NewSpan(k, TRUE, s)
      PROVE  Allocator!Next
  <2>1. k \in 1 .. Limit  BY RequestsAssumption DEF Limit
  <2> QED  BY <1>1, <2>1, ObtainStep
<1>2. ASSUME NEW k \in LargeRequests, NEW s \in Spans, NewSpan(k, FALSE, s)
      PROVE  Allocator!Next
  <2>1. k \in 1 .. Limit  BY DEF NoHuge
  <2> QED  BY <1>2, <2>1, ObtainStep
<1>3. ASSUME NEW s \in used, ReleaseHuge(s) PROVE Allocator!Next
  BY <1>3 DEF ReleaseHuge, IInv, UsedOK
<1>4. ASSUME NEW s \in used, StartRelease(s) PROVE Allocator!Next
  BY <1>4, GiveBackStep
<1>5. ASSUME used' = used PROVE HeldRuns' = HeldRuns
  <2>1. \A t \in used : pageId'[t] = pageId[t] /\ n'[t] = n[t]
    BY <1>5, HeldStay
  <2> QED  BY <1>5, <2>1, HeldUnchanged
<1>6. \/ \E k \in CentralRequests, s \in Spans : NewSpan(k, TRUE, s)
      \/ \E k \in LargeRequests, s \in Spans : NewSpan(k, FALSE, s)
      \/ \E s \in used : ReleaseHuge(s) \/ StartRelease(s)
      \/ used' = used
  BY DEF Next, NewSpanThrows, ReleaseStep, MergePrev, StopPrev, MergeNext, FinishRelease, vars
<1> QED  BY <1>1, <1>2, <1>3, <1>4, <1>5, <1>6

(* To its callers the page cache is the abstract allocator until a held    *)
(* span is merged: every obtained run has the length asked for and is      *)
(* disjoint from those already held, and merging is invisible to them.     *)
THEOREM Refinement ==
  ASSUME NoHuge
  PROVE  Spec => ImplementsAllocator
<1>1. Init => Allocator!Init
  BY DEF Init, Allocator!Init, HeldRuns
<1>2. UntilMerged /\ UntilMerged' /\ [Next]_vars =>
        [op' # "corrupt" => [Allocator!Next]_HeldRuns]_vars
  <2> SUFFICES ASSUME UntilMerged, UntilMerged', [Next]_vars, op' # "corrupt"
               PROVE  [Allocator!Next]_HeldRuns
    OBVIOUS
  <2>1. CASE op = "corrupt"
    <3>1. UNCHANGED vars  BY <2>1, CorruptStays
    <3> QED  BY <2>1, <3>1 DEF vars
  <2>2. CASE op # "corrupt"
    <3>1. IInv /\ IInv'  BY <2>2 DEF UntilMerged, Intact
    <3> QED  BY <3>1, StepImplements
  <2> QED  BY <2>1, <2>2
<1> QED  BY <1>1, <1>2, Invariance, PTL DEF Spec, ImplementsAllocator

-----------------------------------------------------------------------------
(* Merging. *)

(* Once the first loop has ended, nothing the second loop does reopens it. *)
PrevDone == op = "next" => ~Mergeable(PrevSpan)

(* What the first loop left stays so. *)
LEMMA PrevDoneStep ==
  ASSUME NoHuge, IInv, PrevDone, [Next]_vars
  PROVE  PrevDone'
<1> USE LimitType
<1>1. CASE StopPrev
  <2>1. ~Mergeable(PrevSpan) /\ UNCHANGED <<pageId, n, isUse, idSpanMap, releasing>>
    BY <1>1 DEF StopPrev
  <2> QED  BY <2>1 DEF PrevDone, Mergeable, PrevSpan, MapGet
<1>2. CASE MergeNext
  <2>1. op = "next" /\ Mergeable(NextSpan) /\ releasing # NoSpan
        /\ UNCHANGED <<isUse, idSpanMap, releasing>> /\ ~Mergeable(PrevSpan)
    BY <1>2 DEF MergeNext, IInv, RelOK, PrevDone
  <2>2. pageId[releasing] \in Nat /\ n[releasing] \in 1 .. Limit
    BY <2>1, ActiveFacts DEF Active
  <2> SUFFICES ASSUME NextSpan \notin used PROVE PrevDone'
    <3>1. CASE NextSpan \in used
      <4>1. /\ Absorb(NextSpan, pageId[releasing])
            /\ UNCHANGED <<isUse, idSpanMap, sysPages, used, releasing>>
        BY <1>2 DEF MergeNext
      <4>2. op' = "corrupt"  BY <2>2, <3>1, <4>1, CorruptInv
      <4> QED  BY <4>2 DEF PrevDone
    <3> QED  BY <3>1
  <2>3. /\ NextSpan \in Listed /\ NextSpan # releasing
        /\ n[NextSpan] \in 1 .. Limit
    <3>1. NextSpan \in Listed
      BY <2>1, <2>2, MergeableNeighbour DEF NextSpan
    <3>2. PICK k \in 1 .. Limit : NextSpan \in Range(spanLists[k])
      BY <3>1, ListedMember
    <3> QED  BY <3>1, <3>2 DEF IInv, FreeOK
  <2>4. /\ pageId'[releasing] = pageId[releasing]
        /\ n' = [n EXCEPT ![releasing] = @ + n[NextSpan]]
    <3>1. IsListed(NextSpan)
      <4>1. PICK k \in 1 .. Limit : NextSpan \in Range(spanLists[k])
        BY <2>3, ListedMember
      <4>2. n[NextSpan] = k  BY <4>1 DEF IInv, FreeOK
      <4> QED  BY <4>1, <4>2 DEF IsListed
    <3>2. Absorb(NextSpan, pageId[releasing])  BY <1>2 DEF MergeNext
    <3>3. releasing \in Spans  BY <2>1 DEF IInv, TypeOK
    <3> QED  BY <2>3, <3>1, <3>2, <3>3
         DEF Absorb, AbsorbListed, AbsorbUnlisted, Drop, IInv, TypeOK
  <2>5. PrevSpan' = PrevSpan  BY <2>1, <2>4 DEF PrevSpan, MapGet
  <2>6. ASSUME PrevSpan # NoSpan, ~isUse[PrevSpan]
        PROVE  ~(n'[PrevSpan] + n'[releasing] <= Limit)
    <3>1. PrevSpan \in Spans /\ releasing \in Spans
      BY <2>1, <2>6 DEF PrevSpan, MapGet, IInv, TypeOK
    <3>2. n[PrevSpan] + n[releasing] > Limit /\ n[PrevSpan] \in Nat
      BY <2>1, <2>2, <2>6, <3>1 DEF Mergeable, IInv, TypeOK
    <3>3. n'[releasing] = n[releasing] + n[NextSpan]
      BY <2>4, <3>1 DEF IInv, TypeOK
    <3>4. n'[PrevSpan] >= n[PrevSpan] /\ n'[PrevSpan] \in Nat
      <4>1. CASE PrevSpan = releasing  BY <2>2, <2>3, <3>2, <3>3, <4>1
      <4>2. CASE PrevSpan # releasing
        BY <2>4, <3>1, <3>2, <4>2 DEF IInv, TypeOK
      <4> QED  BY <4>1, <4>2
    <3> QED  BY <2>2, <2>3, <3>2, <3>3, <3>4
  <2> QED  BY <2>1, <2>5, <2>6 DEF PrevDone, Mergeable
<1>3. CASE ~StopPrev /\ ~MergeNext
  <2>1. CASE UNCHANGED vars
    BY <2>1 DEF vars, PrevDone, Mergeable, PrevSpan, MapGet
  <2>2. CASE ~UNCHANGED vars
    <3>1. op' # "next"
      BY <1>3, <2>2 DEF Next, NewSpan, NewSpanThrows, ReleaseHuge, StartRelease,
                        ReleaseStep, MergePrev, Absorb, AbsorbListed, AbsorbUnlisted,
                        FinishRelease
    <3> QED  BY <3>1 DEF PrevDone
  <2> QED  BY <2>1, <2>2
<1> QED  BY <1>1, <1>2, <1>3

(* A release that ends has merged all it could. *)
LEMMA FullyMergedStep ==
  ASSUME NoHuge, IInv, PrevDone, [Next]_vars, op = "next", op' = "idle"
  PROVE  FullyMerged
<1> USE LimitType
<1>1. FinishRelease
  BY DEF Next, vars, NewSpan, NewSpanThrows, ReleaseHuge, StartRelease,
         ReleaseStep, MergePrev, StopPrev, MergeNext, Absorb, AbsorbListed, AbsorbUnlisted
<1>2. ~Mergeable(PrevSpan) /\ ~Mergeable(NextSpan) /\ releasing # NoSpan
  BY <1>1 DEF FinishRelease, PrevDone, IInv, RelOK
<1>3. n[releasing] \in Nat /\ pageId[releasing] \in Nat
  BY <1>2, ActiveFacts DEF Active
<1> SUFFICES ASSUME NEW t \in Listed, Touch(releasing, t)
             PROVE  n[t] + n[releasing] > Limit
  BY DEF FullyMerged
<1>4. PICK k \in 1 .. Limit : t \in Range(spanLists[k])  BY ListedMember
<1>5. /\ t # NoSpan /\ ~isUse[t] /\ n[t] = k /\ pageId[t] \in Nat
      /\ MapGet(pageId[t]) = t /\ MapGet(pageId[t] + n[t] - 1) = t
  BY <1>4, ActiveFacts DEF Active, IInv, FreeOK
<1>6. CASE pageId[t] + n[t] = pageId[releasing]
  <2>1. PrevSpan = t  BY <1>5, <1>6 DEF PrevSpan
  <2> QED  BY <1>2, <1>3, <1>5, <2>1 DEF Mergeable
<1>7. CASE pageId[releasing] + n[releasing] = pageId[t]
  <2>1. NextSpan = t  BY <1>5, <1>7 DEF NextSpan
  <2> QED  BY <1>2, <1>3, <1>5, <2>1 DEF Mergeable
<1> QED  BY <1>6, <1>7 DEF Touch

(* When a release lists its span, no free span touching it was left that   *)
(* the limit would have let it take in.                                    *)
THEOREM MergingIsMaximal ==
  ASSUME NoHuge
  PROVE  Spec => ReleaseMergesFully
<1>1. Init => PrevDone  BY DEF Init, PrevDone
<1>2. UntilMerged /\ PrevDone /\ [Next]_vars => PrevDone'
  <2> SUFFICES ASSUME UntilMerged, PrevDone, [Next]_vars PROVE PrevDone'  OBVIOUS
  <2>1. CASE op = "corrupt"
    <3>1. UNCHANGED vars  BY <2>1, CorruptStays
    <3> QED  BY <2>1, <3>1 DEF vars, PrevDone
  <2>2. CASE op # "corrupt"  BY <2>2, PrevDoneStep DEF UntilMerged, Intact
  <2> QED  BY <2>1, <2>2
<1>3. UntilMerged /\ PrevDone /\ [Next]_vars =>
        [op = "next" /\ op' = "idle" => FullyMerged]_vars
  BY FullyMergedStep DEF UntilMerged, Intact
<1> QED  BY <1>1, <1>2, <1>3, Invariance, PTL DEF Spec, ReleaseMergesFully

-----------------------------------------------------------------------------
(* How a span that is on no list comes to be merged. *)

(* The neighbour the two loops look at when they merge. *)
LEMMA CorruptStep ==
  ASSUME IInv, [Next]_vars, op' = "corrupt"
  PROVE  /\ op \in {"prev", "next"}
         /\ Neighbour \in used /\ ~isUse[Neighbour] /\ Mergeable(Neighbour)
<1> USE LimitType
<1>1. CASE MergePrev
  <2>1. /\ op = "prev" /\ Mergeable(PrevSpan) /\ releasing # NoSpan
        /\ Absorb(PrevSpan, pageId[PrevSpan])
    BY <1>1 DEF MergePrev, IInv, RelOK
  <2>2. PrevSpan # NoSpan /\ pageId[releasing] - 1 \in Nat
    <3>1. PrevSpan # NoSpan  BY <2>1 DEF Mergeable
    <3> QED  BY <3>1, PagesAssumption DEF PrevSpan, MapGet
  <2>3. \/ PrevSpan \in used /\ ~isUse[PrevSpan]
        \/ PrevSpan \in Listed
    BY <2>1, <2>2, MergeableNeighbour DEF PrevSpan
  <2>4. ~IsListed(PrevSpan)
    BY <2>1 DEF Absorb, AbsorbListed, AbsorbUnlisted, IInv, Intact
  <2>5. PrevSpan \notin Listed
    BY <2>4, ListedMember DEF IsListed, IInv, FreeOK
  <2> QED  BY <2>1, <2>3, <2>5 DEF Neighbour
<1>2. CASE MergeNext
  <2>1. /\ op = "next" /\ Mergeable(NextSpan) /\ releasing # NoSpan
        /\ Absorb(NextSpan, pageId[releasing])
    BY <1>2 DEF MergeNext, IInv, RelOK
  <2>2. pageId[releasing] + n[releasing] \in Nat
    BY <2>1, ActiveFacts DEF Active
  <2>3. \/ NextSpan \in used /\ ~isUse[NextSpan]
        \/ NextSpan \in Listed
    BY <2>1, <2>2, MergeableNeighbour DEF NextSpan
  <2>4. ~IsListed(NextSpan)
    BY <2>1 DEF Absorb, AbsorbListed, AbsorbUnlisted, IInv, Intact
  <2>5. NextSpan \notin Listed
    BY <2>4, ListedMember DEF IsListed, IInv, FreeOK
  <2> QED  BY <2>1, <2>3, <2>5 DEF Neighbour
<1>3. CASE ~MergePrev /\ ~MergeNext
  BY <1>3 DEF Next, NewSpan, NewSpanThrows, ReleaseHuge, StartRelease, ReleaseStep,
              StopPrev, FinishRelease, vars, IInv, Intact
<1> QED  BY <1>1, <1>2, <1>3

(* The held span that is merged belongs to somebody who obtained it        *)
(* through ConcurrentAlloc: a span of the central cache never is, in       *)
(* whatever order spans are asked for and released.                        *)
THEOREM OnlyLargeCorrupt ==
  ASSUME NoHuge
  PROVE  Spec => CorruptOnlyByLarge
<1>1. UntilMerged /\ [Next]_vars =>
        [op' = "corrupt" /\ Intact => Neighbour \in used /\ ~isUse[Neighbour]]_vars
  BY CorruptStep DEF UntilMerged
<1> QED  BY <1>1, Invariance, PTL DEF Spec, CorruptOnlyByLarge

(* What keeps a held span from its neighbours' releases. *)
KeptOK == \A s \in used : isUse[s] \/ n[s] = Limit

(* No other span is handed out, and no held one grows. *)
LEMMA KeptStep ==
  ASSUME NoMergeableLarge, IInv, KeptOK, [Next]_vars, op' # "corrupt"
  PROVE  KeptOK'
<1> USE LimitType
<1>0. NoHuge  BY DEF NoMergeableLarge, NoHuge
<1>1. \A t \in used : t \in used' => n'[t] = n[t]
  BY <1>0, HeldStay
<1>2. \A t \in used : t \in live /\ t \in Spans /\ t # releasing
  BY DEF IInv, UsedOK, TypeOK
<1>3. ASSUME NEW k \in 1 .. Limit, NEW inUse \in BOOLEAN, inUse \/ k = Limit,
             NEW s \in Spans, NewSpan(k, inUse, s)
      PROVE  KeptOK'
  <2>1. s \notin used /\ n'[s] = k /\ used' = used \cup {s}
    BY <1>3, NewSpanEffect DEF NewSpan
  <2>2. isUse'[s] = inUse /\ \A t \in used : isUse'[t] = isUse[t]
    <3>1. CASE NewHugeSpan(k, inUse, s)  BY <3>1 DEF NewHugeSpan
    <3>2. CASE TakeWhole(k, inUse, s)
      BY <1>2, <2>1, <3>2 DEF TakeWhole, IInv, TypeOK
    <3>3. ASSUME NEW S, S \cap live = {}, s \in Spans,
                 isUse' = [Constructed(S) EXCEPT ![s] = inUse]
          PROVE  isUse'[s] = inUse /\ \A t \in used : isUse'[t] = isUse[t]
      BY <1>2, <2>1, <3>3 DEF Constructed
    <3>4. CASE SplitLonger(k, inUse, s)
      <4>1. PICK rest : isUse' = [Constructed({s, rest} \ live) EXCEPT ![s] = inUse]
        BY <3>4 DEF SplitLonger, Cut
      <4>2. ({s, rest} \ live) \cap live = {}  OBVIOUS
      <4> QED  BY <3>3, <4>1, <4>2
    <3>5. CASE GrowAndTake(k, inUse, s)
      <4>1. \/ s \notin live /\ isUse' = [Constructed({s}) EXCEPT ![s] = inUse]
            \/ \E rest : isUse' = [Constructed({s, rest} \ live) EXCEPT ![s] = inUse]
        BY <3>5 DEF GrowAndTake, Cut
      <4>2. CASE s \notin live /\ isUse' = [Constructed({s}) EXCEPT ![s] = inUse]
        <5>1. {s} \cap live = {}  BY <4>2
        <5> QED  BY <3>3, <4>2, <5>1
      <4>3. CASE \E rest : isUse' = [Constructed({s, rest} \ live) EXCEPT ![s] = inUse]
        <5>1. PICK rest : isUse' = [Constructed({s, rest} \ live) EXCEPT ![s] = inUse]
          BY <4>3
        <5>2. ({s, rest} \ live) \cap live = {}  OBVIOUS
        <5> QED  BY <3>3, <5>1, <5>2
      <4> QED  BY <4>1, <4>2, <4>3
    <3> QED  BY <1>3, <3>1, <3>2, <3>4, <3>5 DEF NewSpan
  <2>3. \A t \in used : n'[t] = n[t]
    BY <1>1, <2>1
  <2> QED  BY <1>3, <2>1, <2>2, <2>3 DEF KeptOK
<1>4. ASSUME NEW k \in CentralRequests, NEW s \in Spans, NewSpan(k, TRUE, s)
      PROVE  KeptOK'
  <2>1. k \in 1 .. Limit  BY RequestsAssumption DEF Limit
  <2> QED  BY <1>3, <1>4, <2>1
<1>5. ASSUME NEW k \in LargeRequests, NEW s \in Spans, NewSpan(k, FALSE, s)
      PROVE  KeptOK'
  <2>1. k \in 1 .. Limit /\ k = Limit  BY DEF NoMergeableLarge
  <2> QED  BY <1>3, <1>5, <2>1
<1>6. ASSUME used' \subseteq used, \A t \in used : isUse'[t] = isUse[t]
      PROVE  KeptOK'
  BY <1>1, <1>6 DEF KeptOK
<1>7. CASE FinishRelease
  <2>1. used' = used /\ isUse' = [isUse EXCEPT ![releasing] = FALSE]
    BY <1>7 DEF FinishRelease
  <2>2. \A t \in used : isUse'[t] = isUse[t]
    BY <1>2, <2>1 DEF IInv, TypeOK
  <2> QED  BY <1>6, <2>1, <2>2
<1>8. \/ \E k \in CentralRequests, s \in Spans : NewSpan(k, TRUE, s)
      \/ \E k \in LargeRequests, s \in Spans : NewSpan(k, FALSE, s)
      \/ FinishRelease
      \/ used' \subseteq used /\ isUse' = isUse
  BY DEF Next, NewSpanThrows, ReleaseHuge, StartRelease, ReleaseStep, MergePrev, StopPrev,
         MergeNext, vars
<1> QED  BY <1>4, <1>5, <1>6, <1>7, <1>8

(* When no large request can leave a span within reach of a merge, no      *)
(* merge takes a span that is held, and the promises above hold for good.  *)
THEOREM NeverCorrupted ==
  ASSUME NoMergeableLarge
  PROVE  Spec => []Intact
<1> USE LimitType
<1>0. NoHuge  BY DEF NoMergeableLarge, NoHuge
<1>1. Init => KeptOK /\ Intact
  BY DEF Init, KeptOK, Intact
<1>2. UntilMerged /\ KeptOK /\ Intact /\ [Next]_vars => KeptOK' /\ Intact'
  <2> SUFFICES ASSUME IInv, KeptOK, [Next]_vars PROVE KeptOK' /\ Intact'
    BY DEF UntilMerged
  <2>1. ASSUME op' = "corrupt" PROVE FALSE
    <3>1. PICK t \in used : ~isUse[t] /\ Mergeable(t) /\ op \in {"prev", "next"}
      BY <2>1, CorruptStep
    <3>2. n[t] = Limit /\ n[t] + n[releasing] <= Limit /\ n[releasing] \in 1 .. Limit
      BY <3>1 DEF KeptOK, Mergeable, IInv, RelOK
    <3> QED  BY <3>2
  <2> QED  BY <2>1, KeptStep DEF Intact
<1> QED  BY <1>0, <1>1, <1>2, Invariance, PTL DEF Spec

(* Then the page cache is the abstract allocator for its callers, without  *)
(* an end: no page is ever handed to two of them.                          *)
THEOREM RefinementForGood ==
  ASSUME NoMergeableLarge
  PROVE  Spec => Allocator!Spec
<1>1. NoHuge  BY LimitType DEF NoMergeableLarge, NoHuge
<1>2. Intact' /\ [op' # "corrupt" => [Allocator!Next]_HeldRuns]_vars
        => [Allocator!Next]_HeldRuns
  BY DEF Intact, vars, HeldRuns, RunOf
<1> QED  BY <1>1, <1>2, Refinement, NeverCorrupted, PTL
         DEF ImplementsAllocator, Allocator!Spec
=============================================================================
