-------------------------- MODULE SearchEngineProofs --------------------------
(***************************************************************************)
(* The index of SearchEngine and its answers, proved for any site, any     *)
(* words Cut may make of a text, any raw.txt and any number of lines,      *)
(* restarts and queries.                                                   *)
(***************************************************************************)
EXTENDS SearchEngine, ListLemmas

(* No more than that the lists are sequences, which the code's vectors     *)
(* are, is needed besides IndexExact itself; that nothing is indexed while *)
(* the script runs is what StartServer begins from.                        *)
Vectors ==
  /\ forward \in Seq(Range(forward))
  /\ \A w \in DOMAIN inverted : inverted[w] \in Seq(Range(inverted[w]))

IInv ==
  /\ Vectors
  /\ IndexExact
  /\ pc \in {"script", "build", "serve"}
  /\ pc = "script" => forward = <<>> /\ inverted = <<>> /\ asked = <<>>

-----------------------------------------------------------------------------
(* push_back *)

(* A sequence is one of all its elements, and of any set with these in it. *)
LEMMA Widened ==
  ASSUME NEW S, NEW T, NEW q \in Seq(S), S \subseteq T
  PROVE  q \in Seq(T) /\ q \in Seq(Range(q))
<1>1. Len(q) \in Nat /\ DOMAIN q = 1 .. Len(q) /\ q \in [1 .. Len(q) -> S]
  BY LenProperties
<1>2. q \in [1 .. Len(q) -> T]
  BY <1>1
<1>3. q \in [1 .. Len(q) -> Range(q)]
  BY <1>1 DEF Range
<1> QED  BY <1>1, <1>2, <1>3, SeqDef

(* What is pushed comes after what was there. *)
LEMMA PushedBack ==
  ASSUME NEW S, NEW q \in Seq(S), NEW x
  PROVE  /\ Len(q) \in Nat /\ DOMAIN q = 1 .. Len(q)
         /\ DOMAIN Append(q, x) = 1 .. Len(q) + 1
         /\ Len(Append(q, x)) = Len(q) + 1
         /\ \A i \in 1 .. Len(q) : Append(q, x)[i] = q[i]
         /\ Append(q, x)[Len(q) + 1] = x
         /\ Append(q, x) \in Seq(Range(Append(q, x)))
         /\ Append(q, x) # <<>>
<1> DEFINE r == Append(q, x)
<1>1. q \in Seq(S \cup {x})
  BY Widened
<1>2. x \in S \cup {x}
  OBVIOUS
<1>3. /\ r \in Seq(S \cup {x}) /\ Len(r) = Len(q) + 1 /\ r[Len(q) + 1] = x
      /\ \A i \in 1 .. Len(q) : r[i] = q[i]
  BY <1>1, <1>2, AppendProperties
<1> HIDE DEF r
<1>4. Len(q) \in Nat /\ DOMAIN q = 1 .. Len(q) /\ DOMAIN r = 1 .. Len(r)
  BY <1>1, <1>3, LenProperties
<1>5. r \in Seq(Range(r))
  BY <1>3, Widened
<1>6. r # <<>>
  BY <1>3, <1>4, EmptyList
<1> QED  BY <1>3, <1>4, <1>5, <1>6 DEF r

-----------------------------------------------------------------------------
(* Indexing a document *)

(* A word that is not in the map is in no document. *)
LEMMA ListOfWord ==
  ASSUME IInv, NEW w
  PROVE  /\ InvertedList(w) \in Seq(Range(InvertedList(w)))
         /\ ListExact(InvertedList(w), w, forward)
<1>1. CASE w \in DOMAIN inverted
  <2>1. InvertedList(w) = inverted[w]
    BY <1>1 DEF InvertedList
  <2> QED  BY <1>1, <2>1 DEF IInv, Vectors, IndexExact
<1>2. CASE w \notin DOMAIN inverted
  <2>1. InvertedList(w) = <<>>
    BY <1>2 DEF InvertedList
  <2>2. \A i \in DOMAIN forward : ~Holds(forward[i], w)
    BY <1>2 DEF IInv, IndexExact, Holds
  <2>3. DOMAIN <<>> = {}
    BY EmptyList, LenProperties
  <2>4. ListExact(<<>>, w, forward)
    BY <2>2, <2>3 DEF ListExact
  <2> QED  BY <2>1, <2>4, EmptyList
<1> QED  BY <1>1, <1>2

(* A document's number is its place: pushing it with this number keeps the *)
(* lists of its words exact, and those of all other words as they are.     *)
LEMMA ListAfter ==
  ASSUME NEW D, NEW docs \in Seq(D), NEW S, NEW list \in Seq(S), NEW w, NEW doc,
         ListExact(list, w, docs)
  PROVE  /\ Holds(doc, w) =>
              ListExact(Append(list, [doc_id |-> Len(docs), weight |-> WeightIn(doc, w)]),
                        w, Append(docs, doc))
         /\ ~Holds(doc, w) => ListExact(list, w, Append(docs, doc))
<1>1. PICK n, more : n = Len(docs) /\ more = Append(docs, doc)
  OBVIOUS
<1>2. /\ n \in Nat /\ DOMAIN docs = 1 .. n /\ DOMAIN more = 1 .. n + 1
      /\ \A i \in 1 .. n : more[i] = docs[i]
      /\ more[n + 1] = doc /\ Len(more) = n + 1
  BY <1>1, PushedBack
<1>3. /\ \A i \in 1 .. n : Holds(docs[i], w) =>
           \E k \in DOMAIN list : list[k].doc_id = i - 1
      /\ \A k \in DOMAIN list : /\ list[k].doc_id \in 0 .. n - 1
                                /\ Holds(docs[list[k].doc_id + 1], w)
                                /\ list[k].weight = WeightIn(docs[list[k].doc_id + 1], w)
      /\ \A j, k \in DOMAIN list : j < k => list[j].doc_id < list[k].doc_id
  BY <1>1, <1>2 DEF ListExact
<1>4. \A k \in DOMAIN list :
        /\ list[k].doc_id \in 0 .. n
        /\ Holds(more[list[k].doc_id + 1], w)
        /\ list[k].weight = WeightIn(more[list[k].doc_id + 1], w)
  BY <1>2, <1>3
<1>5. ASSUME ~Holds(doc, w) PROVE ListExact(list, w, more)
  <2>1. ASSUME NEW i \in 1 .. n + 1, Holds(more[i], w)
        PROVE  \E k \in DOMAIN list : list[k].doc_id = i - 1
    <3>1. i \in 1 .. n  BY <1>2, <1>5, <2>1
    <3> QED  BY <1>2, <1>3, <2>1, <3>1
  <2> QED  BY <1>2, <1>3, <1>4, <2>1 DEF ListExact
<1>6. ASSUME Holds(doc, w)
      PROVE  ListExact(Append(list, [doc_id |-> n, weight |-> WeightIn(doc, w)]), w, more)
  <2>1. PICK p : p = [doc_id |-> n, weight |-> WeightIn(doc, w)]
    OBVIOUS
  <2>2. PICK longer : longer = Append(list, p)
    OBVIOUS
  <2>3. PICK m : m = Len(list)
    OBVIOUS
  <2>4. /\ m \in Nat /\ DOMAIN list = 1 .. m /\ DOMAIN longer = 1 .. m + 1
        /\ \A k \in 1 .. m : longer[k] = list[k]
        /\ longer[m + 1] = p
    BY <2>2, <2>3, PushedBack
  <2>5. p.doc_id = n /\ p.weight = WeightIn(doc, w)
    BY <2>1
  <2>6. ASSUME NEW i \in 1 .. n + 1, Holds(more[i], w)
        PROVE  \E k \in 1 .. m + 1 : longer[k].doc_id = i - 1
    <3>1. CASE i = n + 1
      <4>1. m + 1 \in 1 .. m + 1 /\ longer[m + 1].doc_id = i - 1
        BY <1>2, <2>4, <2>5, <3>1
      <4> QED  BY <4>1
    <3>2. CASE i \in 1 .. n
      <4>1. PICK k \in 1 .. m : list[k].doc_id = i - 1
        BY <1>2, <1>3, <2>4, <2>6, <3>2
      <4>2. k \in 1 .. m + 1 /\ longer[k].doc_id = i - 1
        BY <2>4, <4>1
      <4> QED  BY <4>2
    <3> QED  BY <1>2, <3>1, <3>2
  <2>7. ASSUME NEW k \in 1 .. m + 1
        PROVE  /\ longer[k].doc_id \in 0 .. n
               /\ Holds(more[longer[k].doc_id + 1], w)
               /\ longer[k].weight = WeightIn(more[longer[k].doc_id + 1], w)
    <3>1. CASE k = m + 1
      <4>1. longer[k].doc_id = n /\ longer[k].weight = WeightIn(doc, w)
        BY <2>4, <2>5, <3>1
      <4>2. more[longer[k].doc_id + 1] = doc
        BY <1>2, <4>1
      <4>3. longer[k].doc_id \in 0 .. n
        BY <1>2, <4>1
      <4> QED  BY <1>6, <4>1, <4>2, <4>3, Zenon
    <3>2. CASE k \in 1 .. m
      BY <1>4, <2>4, <3>2
    <3> QED  BY <2>4, <3>1, <3>2
  <2>8. ASSUME NEW j \in 1 .. m + 1, NEW k \in 1 .. m + 1, j < k
        PROVE  longer[j].doc_id < longer[k].doc_id
    <3>1. j \in 1 .. m /\ longer[j] = list[j]
      BY <2>4, <2>8
    <3>2. CASE k = m + 1
      <4>1. PICK id : id = list[j].doc_id
        OBVIOUS
      <4>2. id \in 0 .. n - 1
        BY <1>3, <2>4, <3>1, <4>1, Zenon
      <4>3. id < n
        BY <1>2, <4>2
      <4>4. longer[j].doc_id = id /\ longer[k].doc_id = n
        BY <2>4, <2>5, <3>1, <3>2, <4>1, Zenon
      <4> QED  BY <4>3, <4>4, Zenon
    <3>3. CASE k \in 1 .. m
      BY <1>3, <2>4, <2>8, <3>1, <3>3
    <3> QED  BY <2>4, <3>2, <3>3
  <2>9. Len(more) - 1 = n
    BY <1>2
  <2>10. ListExact(longer, w, more)
    <3>1. \A i \in DOMAIN more : Holds(more[i], w) =>
            \E k \in DOMAIN longer : longer[k].doc_id = i - 1
      BY <1>2, <2>4, <2>6, Zenon
    <3>2. \A k \in DOMAIN longer :
            /\ longer[k].doc_id \in 0 .. Len(more) - 1
            /\ Holds(more[longer[k].doc_id + 1], w)
            /\ longer[k].weight = WeightIn(more[longer[k].doc_id + 1], w)
      BY <2>4, <2>7, <2>9, Zenon
    <3>3. \A j, k \in DOMAIN longer : j < k => longer[j].doc_id < longer[k].doc_id
      BY <2>4, <2>8, Zenon
    <3> QED  BY <3>1, <3>2, <3>3, Zenon DEF ListExact
  <2>11. longer = Append(list, [doc_id |-> n, weight |-> WeightIn(doc, w)])
    BY <2>1, <2>2, Zenon
  <2> QED  BY <2>10, <2>11, Zenon
<1> QED  BY <1>1, <1>5, <1>6

-----------------------------------------------------------------------------
(* The invariant *)

(* Nothing is indexed at first. *)
LEMMA InitInv == Init => IInv
<1> SUFFICES ASSUME Init PROVE IInv
  OBVIOUS
<1>1. DOMAIN <<>> = {} /\ \A S : <<>> \in Seq(S)
  BY EmptyList, LenProperties
<1> QED  BY <1>1 DEF Init, IInv, Vectors, IndexExact

(* A line of raw.txt, split into three tokens or not. *)
LEMMA LineInv == IInv /\ IndexLine => IInv'
<1> SUFFICES ASSUME IInv, IndexLine PROVE IInv'
  OBVIOUS
<1>1. PICK fields, id, title_words, content_words :
        /\ fields = Split(Head(lines)) /\ id = Len(forward)
        /\ title_words = Words(fields[1]) /\ content_words = Words(fields[2])
  OBVIOUS
<1>2. PICK words : words = Range(title_words) \cup Range(content_words)
  OBVIOUS
<1>3. pc = "build" /\ pc' = pc
  BY DEF IndexLine
<1>4. CASE Len(fields) # 3
  <2>1. forward' = forward /\ inverted' = inverted
    BY <1>1, <1>4 DEF IndexLine
  <2> QED  BY <1>3, <2>1 DEF IInv, Vectors, IndexExact
<1>5. CASE Len(fields) = 3
  <2>1. PICK doc : doc = [title |-> fields[1], content |-> fields[2],
                          url |-> fields[3], doc_id |-> id]
    OBVIOUS
  <2>2. /\ doc.title = fields[1] /\ doc.content = fields[2] /\ doc.doc_id = id
        /\ \A w : Holds(doc, w) <=> w \in words
        /\ \A w : WeightIn(doc, w) = Weight(w, title_words, content_words)
    BY <1>1, <1>2, <2>1 DEF Holds, WeightIn, Weight
  <2>3. /\ forward' = Append(forward, doc)
        /\ inverted' = [w \in DOMAIN inverted \cup words |->
              IF w \in words
              THEN Append(InvertedList(w),
                          [doc_id |-> id,
                           weight |-> Weight(w, title_words, content_words)])
              ELSE inverted[w]]
    BY <1>1, <1>2, <1>5, <2>1 DEF IndexLine, NextId
  <2>4. /\ id \in Nat /\ DOMAIN forward = 1 .. id /\ DOMAIN forward' = 1 .. id + 1
        /\ \A i \in 1 .. id : forward'[i] = forward[i]
        /\ forward'[id + 1] = doc /\ forward' \in Seq(Range(forward'))
    BY <1>1, <2>3, PushedBack DEF IInv, Vectors
  <2>5. DOMAIN inverted' = DOMAIN inverted \cup words
    BY <2>3
  <2>6. ASSUME NEW w \in DOMAIN inverted'
        PROVE  /\ inverted'[w] \in Seq(Range(inverted'[w]))
               /\ inverted'[w] # <<>>
               /\ ListExact(inverted'[w], w, forward')
    <3>1. PICK list : list = InvertedList(w)
      OBVIOUS
    <3>2. list \in Seq(Range(list)) /\ ListExact(list, w, forward)
      BY <3>1, ListOfWord
    <3>3. CASE w \in words
      <4>1. PICK p : p = [doc_id |-> id, weight |-> WeightIn(doc, w)]
        OBVIOUS
      <4>2. inverted'[w] = Append(list, p)
        BY <2>2, <2>3, <2>5, <3>1, <3>3, <4>1
      <4>3. ListExact(Append(list, p), w, forward')
        BY <1>1, <2>2, <2>3, <3>2, <3>3, <4>1, ListAfter DEF IInv, Vectors
      <4> QED  BY <3>2, <4>2, <4>3, PushedBack
    <3>4. CASE w \notin words
      <4>1. w \in DOMAIN inverted /\ inverted'[w] = list /\ inverted[w] = list
        BY <2>3, <2>5, <3>1, <3>4 DEF InvertedList
      <4>2. ListExact(list, w, forward')
        BY <2>2, <2>3, <3>2, <3>4, ListAfter DEF IInv, Vectors
      <4> QED  BY <3>2, <4>1, <4>2 DEF IInv, IndexExact
    <3> QED  BY <3>3, <3>4
  <2>7. ASSUME NEW i \in DOMAIN forward'
        PROVE  /\ forward'[i].doc_id = i - 1
               /\ \A w : Holds(forward'[i], w) => w \in DOMAIN inverted'
    <3>1. CASE i = id + 1
      BY <2>2, <2>4, <2>5, <3>1
    <3>2. CASE i \in 1 .. id
      <4>1. i \in DOMAIN forward /\ forward'[i] = forward[i]
        BY <2>4, <3>2
      <4>2. /\ forward[i].doc_id = i - 1
            /\ \A w : Holds(forward[i], w) => w \in DOMAIN inverted
        BY <4>1 DEF IInv, IndexExact, Holds
      <4> QED  BY <2>5, <4>1, <4>2
    <3> QED  BY <2>4, <3>1, <3>2
  <2>8. IndexExact'
    BY <2>6, <2>7 DEF IndexExact, Holds
  <2> QED  BY <1>3, <2>4, <2>6, <2>8 DEF IInv, Vectors
<1> QED  BY <1>4, <1>5

(* Whatever the script, the parser, the server and its users do. *)
LEMMA NextInv == IInv /\ [Next]_vars => IInv'
<1> SUFFICES ASSUME IInv, [Next]_vars PROVE IInv'
  OBVIOUS
<1>1. ASSUME UNCHANGED <<pc, forward, inverted, asked>> PROVE IInv'
  BY <1>1 DEF IInv, Vectors, IndexExact
<1>2. CASE IndexLine
  BY <1>2, LineInv
<1>3. CASE StopServer
  <2>1. DOMAIN <<>> = {} /\ \A S : <<>> \in Seq(S)
    BY EmptyList, LenProperties
  <2> QED  BY <1>3, <2>1 DEF StopServer, IInv, Vectors, IndexExact
<1>4. ASSUME UNCHANGED <<forward, inverted>>, pc' \in {"build", "serve"} PROVE IInv'
  BY <1>4 DEF IInv, Vectors, IndexExact
<1>5. CASE ParserCompletes \/ ParserCutShort
  BY <1>1, <1>5 DEF ParserCompletes, ParserCutShort, Parse, serverVars
<1>6. CASE StartServer \/ Listen
  BY <1>4, <1>6 DEF StartServer, Listen
<1>7. CASE \E query \in Queries : Search(query)
  BY <1>4, <1>7 DEF Search
<1>8. CASE Respond
  <2>1. pc # "script"
    BY <1>8 DEF IInv, Respond
  <2> QED  BY <1>4, <1>8, <2>1 DEF Respond, IInv
<1>9. CASE UNCHANGED vars
  BY <1>1, <1>9 DEF vars
<1> QED  BY <1>2, <1>3, <1>5, <1>6, <1>7, <1>8, <1>9 DEF Next

(* The invariant holds always. *)
LEMMA Invariance == Spec => []IInv
BY InitInv, NextInv, PTL DEF Spec

(* In every state the index says of each word what reading all documents   *)
(* again would, however it was built (BuildForwardIndex and                *)
(* BuildInvertedIndex): no document of a word is missing, none is there    *)
(* twice or without the word, their order is the documents', and every     *)
(* number is a place GetForwardIndex has.                                  *)
THEOREM IndexAlwaysExact == Spec => []IndexExact
<1>1. IInv => IndexExact
  BY DEF IInv
<1> QED  BY <1>1, Invariance, PTL

-----------------------------------------------------------------------------
(* Weights *)

(* JiebaUtil::CutString fills a vector: of any text it makes a sequence of *)
(* words, and no other thing is asked of Cut.                              *)
CutsIntoWords == \A C : \A text \in Seq(C) : \E k \in Nat : DOMAIN Cut(text) = 1 .. k

(* What it is given: titles and contents of documents, and queries.        *)
IsText(text) == text \in Seq(Range(text))
AreTexts(doc) == IsText(doc.title) /\ IsText(doc.content)
TextsServed == \A i \in DOMAIN forward : AreTexts(forward[i])

(* The words of a text have places in it.                                  *)
LEMMA WordPlaces ==
  ASSUME CutsIntoWords, NEW text, IsText(text)
  PROVE  \E k \in Nat : DOMAIN Words(text) = 1 .. k
<1>1. \E k \in Nat : DOMAIN Cut(text) = 1 .. k
  BY Zenon DEF CutsIntoWords, IsText
<1> QED  BY <1>1 DEF Words

(* A number of a document is one less than its place. *)
LEMMA ServedAt ==
  ASSUME IInv, TextsServed, NEW id \in 0 .. Len(forward) - 1
  PROVE  id + 1 \in DOMAIN forward /\ AreTexts(forward[id + 1])
<1>1. id + 1 \in DOMAIN forward
  BY LenProperties DEF IInv, Vectors
<1> QED  BY <1>1 DEF TextsServed

(* A text holds finitely many times each of its words, and once at least.  *)
LEMMA TimesFinite ==
  ASSUME CutsIntoWords, NEW text, IsText(text), NEW w
  PROVE  /\ Times(w, Words(text)) \in Nat
         /\ w \in Range(Words(text)) => Times(w, Words(text)) > 0
<1>1. PICK ws, S : ws = Words(text) /\ S = {k \in DOMAIN ws : ws[k] = w}
  OBVIOUS
<1>3. PICK k \in Nat : DOMAIN ws = 1 .. k
  BY <1>1, WordPlaces
<1>4. IsFiniteSet(1 .. k) /\ S \subseteq 1 .. k
  BY <1>1, <1>3, FS_Interval
<1>5. IsFiniteSet(S) /\ Cardinality(S) \in Nat /\ (Cardinality(S) = 0 <=> S = {})
  BY <1>4, FS_Subset, FS_EmptySet, FS_CardinalityType
<1>6. w \in Range(ws) => S # {}
  BY <1>1 DEF Range
<1>7. Times(w, ws) = Cardinality(S)
  BY <1>1 DEF Times
<1> QED  BY <1>1, <1>5, <1>6, <1>7

(* A document weighs something for each of its words. *)
LEMMA WeightPositive ==
  ASSUME CutsIntoWords, NEW doc, AreTexts(doc), NEW w, Holds(doc, w)
  PROVE  WeightIn(doc, w) \in Nat \ {0}
<1>1. PICK a, b : a = Times(w, Words(doc.title)) /\ b = Times(w, Words(doc.content))
  OBVIOUS
<1>2. a \in Nat /\ b \in Nat /\ (a > 0 \/ b > 0)
  BY <1>1, TimesFinite DEF Holds, AreTexts
<1>3. 10 * a + b \in Nat \ {0}
  BY <1>2
<1> QED  BY <1>1, <1>3 DEF WeightIn

(* The rest of TypeOK, which the lists have no need of: the file, and the  *)
(* answer Search makes of Elem.                                            *)
Records ==
  /\ whole \in BOOLEAN
  /\ DOMAIN disk = {"there", "text"}
  /\ \A k \in DOMAIN answer : DOMAIN answer[k] = {"title", "desc", "url"}

(* It holds whatever the index is. *)
LEMMA RecordsAlways == Spec => []Records
<1>1. Init => Records
  <2>1. DOMAIN <<>> = {}
    BY EmptyList, LenProperties
  <2> QED  BY <2>1 DEF Init, Records, NoFile
<1>2. Records /\ [Next]_vars => Records'
  <2> SUFFICES ASSUME Records, [Next]_vars PROVE Records'
    OBVIOUS
  <2>1. DOMAIN <<>> = {}
    BY EmptyList, LenProperties
  <2>2. CASE ParserCompletes \/ ParserCutShort
    <3>1. PICK files, k : Parse(files, k)
      BY <2>2 DEF ParserCompletes, ParserCutShort
    <3>2. whole' \in BOOLEAN /\ DOMAIN disk' = {"there", "text"} /\ answer' = answer
      BY <3>1 DEF Parse, serverVars
    <3> QED  BY <3>2 DEF Records
  <2>3. CASE StartServer \/ IndexLine \/ Listen \/ UNCHANGED vars
    BY <2>3 DEF StartServer, IndexLine, Listen, vars, Records
  <2>4. CASE StopServer \/ Respond
    BY <2>1, <2>4 DEF StopServer, Respond, Records
  <2>5. CASE \E query \in Queries : Search(query)
    <3>1. PICK query \in Queries : Search(query)
      BY <2>5
    <3>2. PICK p, tokens :
            answer' = [k \in DOMAIN p |-> Elem(p[k], tokens[p[k]].word)]
      BY <3>1 DEF Search
    <3>3. \A id, w : DOMAIN Elem(id, w) = {"title", "desc", "url"}
      BY DEF Elem
    <3>4. UNCHANGED <<whole, disk>>
      BY <3>1 DEF Search
    <3> QED  BY <3>2, <3>3, <3>4 DEF Records
  <2> QED  BY <2>2, <2>3, <2>4, <2>5 DEF Next
<1> QED  BY <1>1, <1>2, PTL DEF Spec

-----------------------------------------------------------------------------
(* tokens_map *)

(* The documents a word hits, by their number. *)
Hitting(w) == {id \in 0 .. Len(forward) - 1 : Holds(forward[id + 1], w)}

(* What Search makes of tokens_map when it has been through the list of w. *)
HitAll(token, w) ==
  [id \in DOMAIN token \cup Hitting(w) |->
     IF id \notin Hitting(w) THEN token[id]
     ELSE IF id \in DOMAIN token
          THEN [token[id] EXCEPT !.weight = @ + WeightIn(forward[id + 1], w)]
          ELSE [weight |-> WeightIn(forward[id + 1], w), word |-> w]]

(* The same when it has been to the places u of a list. *)
HitIn(list, u) == {list[i].doc_id : i \in u}
HitSome(token, w, list, u) ==
  [id \in DOMAIN token \cup HitIn(list, u) |->
     IF id \notin HitIn(list, u) THEN token[id]
     ELSE IF id \in DOMAIN token
          THEN [token[id] EXCEPT !.weight = @ + WeightIn(forward[id + 1], w)]
          ELSE [weight |-> WeightIn(forward[id + 1], w), word |-> w]]

(* A place of the list adds its document. *)
LEMMA OneHit ==
  ASSUME NEW token, NEW w, NEW list, ListExact(list, w, forward),
         \A j, k \in DOMAIN list : list[j].doc_id = list[k].doc_id => j = k,
         NEW u \in SUBSET DOMAIN list, NEW m \in u
  PROVE  HitSome(token, w, list, u)
           = HitOf(HitSome(token, w, list, u \ {m}), list[m], w)
<1>1. PICK d, r : d = list[m].doc_id /\ r = HitSome(token, w, list, u \ {m})
  OBVIOUS
<1>2. HitIn(list, u) = HitIn(list, u \ {m}) \cup {d} /\ d \notin HitIn(list, u \ {m})
  BY <1>1 DEF HitIn
<1>3. list[m].weight = WeightIn(forward[d + 1], w)
  BY <1>1 DEF ListExact
<1>4. DOMAIN r = DOMAIN token \cup HitIn(list, u \ {m})
  BY <1>1 DEF HitSome
<1>5. PICK big, small : big = HitIn(list, u) /\ small = HitIn(list, u \ {m})
  OBVIOUS
<1>6. \A id \in DOMAIN r : r[id] =
        IF id \notin small THEN token[id]
        ELSE IF id \in DOMAIN token
             THEN [token[id] EXCEPT !.weight = @ + WeightIn(forward[id + 1], w)]
             ELSE [weight |-> WeightIn(forward[id + 1], w), word |-> w]
  BY <1>1, <1>4, <1>5, Zenon DEF HitSome
<1>7. HitOf(r, list[m], w) =
        [id \in DOMAIN token \cup big |->
           IF id # d THEN r[id]
           ELSE IF id \in DOMAIN r
                THEN [r[id] EXCEPT !.weight = @ + WeightIn(forward[d + 1], w)]
                ELSE [weight |-> WeightIn(forward[d + 1], w), word |-> w]]
  <2>1. (DOMAIN r) \cup {d} = DOMAIN token \cup big
    BY <1>2, <1>4, <1>5
  <2> QED  BY <1>1, <1>3, <2>1, Zenon DEF HitOf
<1>8. HitSome(token, w, list, u) =
        [id \in DOMAIN token \cup big |->
           IF id \notin big THEN token[id]
           ELSE IF id \in DOMAIN token
                THEN [token[id] EXCEPT !.weight = @ + WeightIn(forward[id + 1], w)]
                ELSE [weight |-> WeightIn(forward[id + 1], w), word |-> w]]
  BY <1>5, Zenon DEF HitSome
<1>9. ASSUME NEW id \in DOMAIN token \cup big
      PROVE  (IF id # d THEN r[id]
              ELSE IF id \in DOMAIN r
                   THEN [r[id] EXCEPT !.weight = @ + WeightIn(forward[d + 1], w)]
                   ELSE [weight |-> WeightIn(forward[d + 1], w), word |-> w])
             = IF id \notin big THEN token[id]
               ELSE IF id \in DOMAIN token
                    THEN [token[id] EXCEPT !.weight = @ + WeightIn(forward[id + 1], w)]
                    ELSE [weight |-> WeightIn(forward[id + 1], w), word |-> w]
  <2>1. CASE id # d
    <3>1. id \in big <=> id \in small
      BY <1>2, <1>5, <2>1
    <3>2. id \in DOMAIN r
      BY <1>4, <1>5, <3>1
    <3> QED  BY <1>6, <2>1, <3>1, <3>2, Zenon
  <2>2. CASE id = d
    <3>1. id \in big /\ id \notin small
      BY <1>2, <1>5, <2>2
    <3>2. id \in DOMAIN r <=> id \in DOMAIN token
      BY <1>4, <1>5, <3>1
    <3>3. id \in DOMAIN r => r[id] = token[id]
      BY <1>6, <3>1, Zenon
    <3> QED  BY <2>2, <3>1, <3>2, <3>3, Zenon
  <2> QED  BY <2>1, <2>2
<1>10. HitOf(r, list[m], w) = HitSome(token, w, list, u)
  BY <1>7, <1>8, <1>9, Zenon
<1> QED  BY <1>1, <1>10, Zenon

(* The loop over a list ends with each of its documents hit once.          *)
LEMMA AllHit ==
  ASSUME NEW token, token = [id \in DOMAIN token |-> token[id]],
         NEW w, NEW list, list \in Seq(Range(list)), ListExact(list, w, forward),
         forward \in Seq(Range(forward))
  PROVE  FoldLeft(LAMBDA t, elem : HitOf(t, elem, w), token, list) = HitAll(token, w)
<1>1. PICK k \in Nat : DOMAIN list = 1 .. k
  BY LenProperties
<1>2. PICK D : D = DOMAIN list
  OBVIOUS
<1> DEFINE Turn(g) == [s \in SUBSET D |->
                         IF s = {} THEN token ELSE HitOf(g[s \ {Max(s)}], list[Max(s)], w)]
           closed == [s \in SUBSET D |-> HitSome(token, w, list, s)]
<1>3. \A i, j \in D : list[i].doc_id = list[j].doc_id => i = j
  <2> SUFFICES ASSUME NEW i \in D, NEW j \in D, list[i].doc_id = list[j].doc_id, i # j
               PROVE  FALSE
    OBVIOUS
  <2>1. i < j \/ j < i
    BY <1>1, <1>2
  <2>2. list[i].doc_id \in Int /\ list[j].doc_id \in Int
    BY <1>2 DEF ListExact
  <2> QED  BY <1>2, <2>1, <2>2 DEF ListExact
<1>4. PICK f : /\ FoldLeft(LAMBDA t, elem : HitOf(t, elem, w), token, list) = f[D]
               /\ f = CHOOSE g : g = Turn(g)
  <2>1. PICK v : v = FoldLeft(LAMBDA t, elem : HitOf(t, elem, w), token, list)
    OBVIOUS
  <2> QED  BY <1>2, <2>1, Zenon DEF FoldLeft, MapThenFoldSet
<1>5. HitIn(list, {}) = {}
  BY DEF HitIn
<1>6. HitSome(token, w, list, {}) = token
  <2>1. PICK none : none = HitIn(list, {})
    OBVIOUS
  <2>2. none = {}
    BY <1>5, <2>1
  <2>3. HitSome(token, w, list, {}) = [id \in DOMAIN token \cup none |->
          IF id \notin none THEN token[id]
          ELSE IF id \in DOMAIN token
               THEN [token[id] EXCEPT !.weight = @ + WeightIn(forward[id + 1], w)]
               ELSE [weight |-> WeightIn(forward[id + 1], w), word |-> w]]
    BY <2>1, Zenon DEF HitSome
  <2>4. DOMAIN token \cup none = DOMAIN token
    BY <2>2
  <2>5. \A id \in DOMAIN token : id \notin none
    BY <2>2
  <2> QED  BY <2>3, <2>4, <2>5, Zenon
<1>7. ASSUME NEW s \in SUBSET D, s # {}
      PROVE  /\ Max(s) \in s
             /\ HitSome(token, w, list, s)
                  = HitOf(HitSome(token, w, list, s \ {Max(s)}), list[Max(s)], w)
  <2>1. Max(s) \in s
    BY <1>1, <1>2, <1>7, LastPlace
  <2> QED  BY <1>2, <1>3, <2>1, OneHit
<1>8. closed = Turn(closed)
  <2> SUFFICES ASSUME NEW s \in SUBSET D
               PROVE  HitSome(token, w, list, s)
                        = IF s = {} THEN token
                          ELSE HitOf(closed[s \ {Max(s)}], list[Max(s)], w)
    BY Zenon
  <2>1. CASE s = {}
    BY <1>6, <2>1
  <2>2. CASE s # {}
    <3>1. closed[s \ {Max(s)}] = HitSome(token, w, list, s \ {Max(s)})
      BY s \ {Max(s)} \in SUBSET D, Zenon
    <3> QED  BY <1>7, <2>2, <3>1, Zenon
  <2> QED  BY <2>1, <2>2
<1>9. f = Turn(f)
  <2> HIDE DEF Turn, closed
  <2> QED  BY <1>4, <1>8, Zenon
<1>10. f[{}] = closed[{}]
  <2>1. f[{}] = token
    BY <1>9, {} \in SUBSET D, Zenon
  <2>2. closed[{}] = HitSome(token, w, list, {})
    BY {} \in SUBSET D, Zenon
  <2> QED  BY <1>6, <2>1, <2>2, Zenon
<1>11. ASSUME NEW s \in SUBSET D, s # {}, f[s \ {Max(s)}] = closed[s \ {Max(s)}]
       PROVE  f[s] = closed[s]
  <2>1. f[s] = HitOf(f[s \ {Max(s)}], list[Max(s)], w)
    BY <1>9, <1>11, Zenon
  <2>2. closed[s] = HitOf(closed[s \ {Max(s)}], list[Max(s)], w)
    BY <1>8, <1>11, Zenon
  <2> QED  BY <1>11, <2>1, <2>2, Zenon
<1>12. f[D] = closed[D]
  <2> HIDE DEF Turn, closed
  <2> QED  BY <1>1, <1>2, <1>10, <1>11, FoldsAgree
<1>13. HitIn(list, D) = Hitting(w)
  <2>0. Len(forward) \in Nat /\ DOMAIN forward = 1 .. Len(forward)
    BY LenProperties
  <2>1. ASSUME NEW id \in Hitting(w) PROVE id \in HitIn(list, D)
    <3>1. id + 1 \in DOMAIN forward /\ Holds(forward[id + 1], w) /\ (id + 1) - 1 = id
      BY <2>0 DEF Hitting
    <3>2. PICK j \in D : list[j].doc_id = (id + 1) - 1
      BY <1>2, <3>1 DEF ListExact
    <3> QED  BY <3>1, <3>2 DEF HitIn
  <2>2. ASSUME NEW id \in HitIn(list, D) PROVE id \in Hitting(w)
    BY <1>2 DEF HitIn, Hitting, ListExact
  <2> QED  BY <2>1, <2>2
<1>14. closed[D] = HitAll(token, w)
  <2>1. closed[D] = HitSome(token, w, list, D)
    BY D \in SUBSET D, Zenon
  <2>2. HitSome(token, w, list, D) = HitAll(token, w)
    BY <1>13, Zenon DEF HitSome, HitAll
  <2> QED  BY <2>1, <2>2, Zenon
<1> QED  BY <1>4, <1>12, <1>14, Zenon

(* What each word of a query adds to a document. *)
Weights(ws, id) == [k \in DOMAIN ws |-> WeightIn(forward[id + 1], ws[k])]

(* The place in the query, among s, of the first word that hit it.         *)
FirstWord(ws, id, s) ==
  CHOOSE k \in s : /\ id \in Hitting(ws[k])
                   /\ \A j \in s : id \in Hitting(ws[j]) => k <= j

(* tokens_map, after the words at the places s. *)
HitBySome(ws, s) == UNION {Hitting(ws[k]) : k \in s}
Tokens(ws, s) ==
  [id \in HitBySome(ws, s) |->
     [weight |-> Cardinality(Units(Weights(ws, id), s)),
      word   |-> ws[FirstWord(ws, id, s)]]]

(* A word that a document does not have adds nothing. *)
LEMMA WeightZero ==
  ASSUME CutsIntoWords, NEW doc, AreTexts(doc), NEW w
  PROVE  /\ WeightIn(doc, w) \in Nat
         /\ WeightIn(doc, w) > 0 <=> Holds(doc, w)
<1>1. CASE Holds(doc, w)
  <2>1. WeightIn(doc, w) \in Nat \ {0}
    BY <1>1, WeightPositive
  <2> QED  BY <1>1, <2>1
<1>2. CASE ~Holds(doc, w)
  <2>1. ASSUME NEW ws, w \notin Range(ws) PROVE Times(w, ws) = 0
    <3>1. {k \in DOMAIN ws : ws[k] = w} = {}
      BY <2>1 DEF Range
    <3> QED  BY <3>1, FS_EmptySet DEF Times
  <2>2. Times(w, Words(doc.title)) = 0 /\ Times(w, Words(doc.content)) = 0
    BY <1>2, <2>1 DEF Holds
  <2>3. WeightIn(doc, w) = 0
    BY <2>2 DEF WeightIn
  <2> QED  BY <1>2, <2>3
<1> QED  BY <1>1, <1>2

(* Each word of the query goes through the documents it hits.              *)
LEMMA OneWord ==
  ASSUME CutsIntoWords, IInv, TextsServed,
         NEW ws, NEW n \in Nat, DOMAIN ws = 1 .. n,
         NEW s \in SUBSET (1 .. n), NEW m \in s, \A x \in s : x <= m
  PROVE  Tokens(ws, s) = HitAll(Tokens(ws, s \ {m}), ws[m])
<1>1. PICK w, r, rest : /\ w = ws[m] /\ r = s \ {m} /\ rest = Tokens(ws, r)
  OBVIOUS
<1>2. /\ DOMAIN rest = HitBySome(ws, r)
      /\ \A id \in HitBySome(ws, r) :
           rest[id] = [weight |-> Cardinality(Units(Weights(ws, id), r)),
                       word |-> ws[FirstWord(ws, id, r)]]
  BY <1>1, Zenon DEF Tokens
<1>3. HitBySome(ws, s) = HitBySome(ws, r) \cup Hitting(w)
  BY <1>1 DEF HitBySome
<1>4. ASSUME NEW id \in 0 .. Len(forward) - 1
      PROVE  /\ Weights(ws, id) \in [1 .. n -> Nat]
             /\ Weights(ws, id)[m] = WeightIn(forward[id + 1], w)
             /\ Cardinality(Units(Weights(ws, id), r)) \in Nat
             /\ Cardinality(Units(Weights(ws, id), s))
                  = WeightIn(forward[id + 1], w)
                      + Cardinality(Units(Weights(ws, id), r))
  <2>1. PICK h, S : h = Weights(ws, id) /\ S = 1 .. n
    OBVIOUS
  <2>2. h \in [S -> Nat] /\ h[m] = WeightIn(forward[id + 1], w)
    <3>1. PICK doc : doc = forward[id + 1]
      OBVIOUS
    <3>2. h = [k \in S |-> WeightIn(doc, ws[k])]
      BY <2>1, <3>1 DEF Weights
    <3>3. \A k \in S : WeightIn(doc, ws[k]) \in Nat
      BY <3>1, ServedAt, WeightZero
    <3>4. m \in S
      BY <2>1
    <3> QED  BY <1>1, <3>1, <3>2, <3>3, <3>4
  <2>3. IsFiniteSet(S)
    BY <2>1, n \in Int, 1 \in Int, FS_Interval, Zenon
  <2>4. s \in SUBSET S /\ r \in SUBSET S /\ m \in s /\ r = s \ {m}
    BY <1>1, <2>1
  <2>5. Cardinality(Units(h, r)) \in Nat
    BY <2>2, <2>3, <2>4, OneMore
  <2>6. Adds(h, s, m)
    BY <2>2, <2>3, <2>4, OneTaken
  <2> QED  BY <2>1, <2>2, <2>4, <2>5, <2>6 DEF Adds
<1>5. ASSUME NEW id \in HitBySome(ws, r)
      PROVE  FirstWord(ws, id, s) = FirstWord(ws, id, r)
  <2>1. PICK k \in r : id \in Hitting(ws[k])
    BY DEF HitBySome
  <2>2. \A x \in r : x \in s /\ x <= m /\ x # m
    BY <1>1
  <2>3. ASSUME NEW x \in s
        PROVE  (id \in Hitting(ws[x]) /\ \A j \in s : id \in Hitting(ws[j]) => x <= j)
               <=> (x \in r /\ id \in Hitting(ws[x])
                      /\ \A j \in r : id \in Hitting(ws[j]) => x <= j)
    BY <1>1, <2>1, <2>2
  <2>4. \A x : (x \in s /\ id \in Hitting(ws[x])
                  /\ \A j \in s : id \in Hitting(ws[j]) => x <= j)
               <=> (x \in r /\ id \in Hitting(ws[x])
                      /\ \A j \in r : id \in Hitting(ws[j]) => x <= j)
    BY <2>2, <2>3
  <2> QED  BY <2>4, Zenon DEF FirstWord
<1>6. ASSUME NEW id \in Hitting(w), id \notin HitBySome(ws, r)
      PROVE  /\ FirstWord(ws, id, s) = m
             /\ Cardinality(Units(Weights(ws, id), r)) = 0
  <2>1. \A k \in r : id \notin Hitting(ws[k])
    BY <1>6 DEF HitBySome
  <2>2. FirstWord(ws, id, s) = m
    <3>1. \A x : (x \in s /\ id \in Hitting(ws[x])
                    /\ \A j \in s : id \in Hitting(ws[j]) => x <= j) <=> x = m
      BY <1>1, <1>6, <2>1
    <3> QED  BY <3>1, Zenon DEF FirstWord
  <2>3. PICK h, S : h = Weights(ws, id) /\ S = 1 .. n
    OBVIOUS
  <2>4. \A k \in r : h[k] = 0
    <3> SUFFICES ASSUME NEW k \in r PROVE h[k] = 0
      OBVIOUS
    <3>1. id \in 0 .. Len(forward) - 1 /\ ~Holds(forward[id + 1], ws[k])
      BY <1>6, <2>1 DEF Hitting
    <3>2. /\ WeightIn(forward[id + 1], ws[k]) \in Nat
          /\ ~(WeightIn(forward[id + 1], ws[k]) > 0)
      BY <3>1, ServedAt, WeightZero
    <3> QED  BY <1>1, <2>3, <3>2 DEF Weights
  <2>5. h \in [S -> Nat] /\ IsFiniteSet(S) /\ r \in SUBSET S
    <3>1. id \in 0 .. Len(forward) - 1
      BY <1>6 DEF Hitting
    <3> QED  BY <1>1, <1>4, <2>3, <3>1, n \in Int, 1 \in Int, FS_Interval
  <2>6. Cardinality(Units(h, r)) = 0
    BY <2>4, <2>5, OneMore
  <2> QED  BY <2>2, <2>3, <2>6
<1>7. ASSUME NEW id \in HitBySome(ws, r), id \notin Hitting(w)
      PROVE  WeightIn(forward[id + 1], w) = 0
  <2>1. id \in 0 .. Len(forward) - 1
    BY DEF HitBySome, Hitting
  <2>2. ~Holds(forward[id + 1], w)
    BY <1>7, <2>1 DEF Hitting
  <2>3. /\ WeightIn(forward[id + 1], w) \in Nat
        /\ ~(WeightIn(forward[id + 1], w) > 0)
    BY <2>1, <2>2, ServedAt, WeightZero
  <2> QED  BY <2>3
<1>8. ASSUME NEW id \in HitBySome(ws, s)
      PROVE  [weight |-> Cardinality(Units(Weights(ws, id), s)),
              word   |-> ws[FirstWord(ws, id, s)]]
             = IF id \notin Hitting(w) THEN rest[id]
               ELSE IF id \in DOMAIN rest
                    THEN [rest[id] EXCEPT !.weight = @ + WeightIn(forward[id + 1], w)]
                    ELSE [weight |-> WeightIn(forward[id + 1], w), word |-> w]
  <2>0. id \in 0 .. Len(forward) - 1
    BY DEF HitBySome, Hitting
  <2>1. WeightIn(forward[id + 1], w) \in Nat
    BY <2>0, ServedAt, WeightZero
  <2>2. CASE id \notin Hitting(w)
    <3>1. id \in HitBySome(ws, r)
      BY <1>3, <2>2
    <3>2. WeightIn(forward[id + 1], w) = 0
      BY <1>7, <2>2, <3>1
    <3>3. Cardinality(Units(Weights(ws, id), s)) = Cardinality(Units(Weights(ws, id), r))
      BY <1>4, <2>0, <3>2
    <3> QED  BY <1>2, <1>5, <2>2, <3>1, <3>3, Zenon
  <2>3. CASE id \in Hitting(w) /\ id \in HitBySome(ws, r)
    <3>1. PICK a, b, c, d : /\ a = Cardinality(Units(Weights(ws, id), s))
                            /\ b = Cardinality(Units(Weights(ws, id), r))
                            /\ c = WeightIn(forward[id + 1], w)
                            /\ d = ws[FirstWord(ws, id, s)]
      OBVIOUS
    <3>2. a = b + c
      BY <1>4, <2>0, <2>1, <3>1
    <3>3. rest[id] = [weight |-> b, word |-> d]
      BY <1>2, <1>5, <2>3, <3>1
    <3>4. [rest[id] EXCEPT !.weight = @ + c] = [weight |-> a, word |-> d]
      BY <3>2, <3>3
    <3> QED  BY <1>2, <2>3, <3>1, <3>4, Zenon
  <2>4. CASE id \in Hitting(w) /\ id \notin HitBySome(ws, r)
    <3>1. Cardinality(Units(Weights(ws, id), s)) = WeightIn(forward[id + 1], w)
      BY <1>4, <1>6, <2>0, <2>1, <2>4
    <3>2. ws[FirstWord(ws, id, s)] = w
      BY <1>1, <1>6, <2>4
    <3> QED  BY <1>2, <2>4, <3>1, <3>2, Zenon
  <2> QED  BY <2>2, <2>3, <2>4
<1>9. HitAll(rest, w) =
        [id \in HitBySome(ws, s) |->
           IF id \notin Hitting(w) THEN rest[id]
           ELSE IF id \in DOMAIN rest
                THEN [rest[id] EXCEPT !.weight = @ + WeightIn(forward[id + 1], w)]
                ELSE [weight |-> WeightIn(forward[id + 1], w), word |-> w]]
  <2>1. (DOMAIN rest) \cup Hitting(w) = HitBySome(ws, s)
    BY <1>2, <1>3
  <2> QED  BY <2>1, Zenon DEF HitAll
<1>10. HitAll(rest, w) = Tokens(ws, s)
  BY <1>8, <1>9, Zenon DEF Tokens
<1> QED  BY <1>1, <1>10, Zenon

(* TokensMap holds the documents that a word of the query hits, with the   *)
(* sum of the weights of its words in them.                                *)
LEMMA TokensAre ==
  ASSUME CutsIntoWords, IInv, TextsServed, NEW query, IsText(query)
  PROVE  TokensMap(query) = Tokens(Words(query), DOMAIN Words(query))
<1> DEFINE ws == Words(query)
           D == DOMAIN ws
<1>1. ws = Words(query) /\ D = DOMAIN ws
  OBVIOUS
<1>2. PICK n \in Nat : D = 1 .. n
  BY <1>1, WordPlaces
<1>3. PICK f :
        /\ TokensMap(query) = f[DOMAIN Words(query)]
        /\ f = CHOOSE g : g = [s \in SUBSET DOMAIN Words(query) |->
                 IF s = {} THEN <<>>
                 ELSE FoldLeft(LAMBDA t, elem : HitOf(t, elem, Words(query)[Max(s)]),
                               g[s \ {Max(s)}], InvertedList(Words(query)[Max(s)]))]
  <2>1. PICK v : v = TokensMap(query)
    OBVIOUS
  <2> QED  BY <2>1, Zenon DEF FoldLeft, MapThenFoldSet, TokensMap
<1> DEFINE Fold(token, w) ==
             FoldLeft(LAMBDA t, elem : HitOf(t, elem, w), token, InvertedList(w))
           Turn(g) == [s \in SUBSET D |->
                         IF s = {} THEN <<>> ELSE Fold(g[s \ {Max(s)}], ws[Max(s)])]
           closed == [s \in SUBSET D |-> Tokens(ws, s)]
<1>4. f = CHOOSE g : g = Turn(g)
  BY <1>3, Zenon
<1> HIDE DEF ws, D
<1>5. ASSUME NEW w
      PROVE  /\ InvertedList(w) \in Seq(Range(InvertedList(w)))
             /\ ListExact(InvertedList(w), w, forward)
  BY ListOfWord
<1> HIDE DEF Fold
<1>6. ASSUME NEW s \in SUBSET D, s # {}
      PROVE  /\ Max(s) \in s
             /\ Tokens(ws, s) = Fold(Tokens(ws, s \ {Max(s)}), ws[Max(s)])
  <2>1. PICK m : m = Max(s)
    OBVIOUS
  <2>2. m \in s /\ \A x \in s : x <= m
    BY <1>2, <1>6, <2>1, LastPlace
  <2>3. Tokens(ws, s) = HitAll(Tokens(ws, s \ {m}), ws[m])
    BY <1>1, <1>2, <2>2, OneWord
  <2>4. PICK token, w : token = Tokens(ws, s \ {m}) /\ w = ws[m]
    OBVIOUS
  <2>5. token = [id \in DOMAIN token |-> token[id]]
    BY <2>4 DEF Tokens
  <2>6. Fold(token, w) = HitAll(token, w)
    BY <1>5, <2>5, AllHit DEF Fold, IInv, Vectors
  <2>7. Fold(Tokens(ws, s \ {m}), ws[m]) = Tokens(ws, s)
    BY <2>3, <2>4, <2>6, Zenon
  <2> QED  BY <2>1, <2>2, <2>7, Zenon
<1>7. Tokens(ws, {}) = <<>>
  <2>1. HitBySome(ws, {}) = {}
    BY DEF HitBySome
  <2>2. PICK r : r = Tokens(ws, {})
    OBVIOUS
  <2>3. DOMAIN r = {} /\ r = [id \in DOMAIN r |-> r[id]]
    BY <2>1, <2>2 DEF Tokens
  <2> QED  BY <2>2, <2>3, EmptyFunction
<1>8. closed = Turn(closed)
  <2> SUFFICES ASSUME NEW s \in SUBSET D
               PROVE  Tokens(ws, s) = IF s = {} THEN <<>>
                                      ELSE Fold(closed[s \ {Max(s)}], ws[Max(s)])
    BY Zenon
  <2>1. CASE s = {}
    BY <1>7, <2>1
  <2>2. CASE s # {}
    <3>1. closed[s \ {Max(s)}] = Tokens(ws, s \ {Max(s)})
      BY s \ {Max(s)} \in SUBSET D, Zenon
    <3> QED  BY <1>6, <2>2, <3>1, Zenon
  <2> QED  BY <2>1, <2>2
<1>9. f = Turn(f)
  <2> HIDE DEF Turn, closed
  <2> QED  BY <1>4, <1>8, Zenon
<1>10. f[{}] = closed[{}]
  <2>1. f[{}] = <<>>
    BY <1>9, {} \in SUBSET D, Zenon
  <2>2. closed[{}] = Tokens(ws, {})
    BY {} \in SUBSET D, Zenon
  <2> QED  BY <1>7, <2>1, <2>2, Zenon
<1>11. ASSUME NEW s \in SUBSET D, s # {}, f[s \ {Max(s)}] = closed[s \ {Max(s)}]
       PROVE  f[s] = closed[s]
  <2>1. f[s] = Fold(f[s \ {Max(s)}], ws[Max(s)])
    BY <1>9, <1>11, Zenon
  <2>2. closed[s] = Fold(closed[s \ {Max(s)}], ws[Max(s)])
    BY <1>8, <1>11, Zenon
  <2> QED  BY <1>11, <2>1, <2>2, Zenon
<1>12. f[D] = closed[D]
  <2>1. PICK g : g = closed
    OBVIOUS
  <2>2. /\ f[{}] = g[{}]
        /\ \A s \in SUBSET (1 .. n) :
             s # {} /\ f[s \ {Max(s)}] = g[s \ {Max(s)}] => f[s] = g[s]
    BY <1>2, <1>10, <1>11, <2>1, Zenon
  <2>3. f[1 .. n] = g[1 .. n]
    BY <2>2, FoldsAgree
  <2> QED  BY <1>2, <2>1, <2>3, Zenon
<1>13. closed[D] = Tokens(ws, D)
  BY D \in SUBSET D, Zenon
<1> QED  BY <1>1, <1>3, <1>12, <1>13, Zenon

-----------------------------------------------------------------------------
(* Reading every document *)

(* The scan counts and arranges as the engine does. *)
LEMMA ScanCounts ==
  /\ \A S : Scan!Cardinality(S) = Cardinality(S)
  /\ \A S : Scan!SetToSeqs(S) = SetToSeqs(S)
  /\ \A w, text : Scan!Times(w, text) = Times(w, Words(text))
<1>1. \A S : Scan!Cardinality(S) = Cardinality(S)
  BY Zenon DEF Scan!Cardinality, Cardinality
<1>2. \A S : Scan!SetToSeqs(S) = SetToSeqs(S)
  BY <1>1, Zenon DEF Scan!SetToSeqs, SetToSeqs
<1>3. \A w, text : Scan!Times(w, text) = Times(w, Words(text))
  BY <1>1, Zenon DEF Scan!Times, Times
<1> QED  BY <1>1, <1>2, <1>3

(* Reading a document from end to end counts for each word of the query    *)
(* what the index holds of it.                                             *)
LEMMA ScanWeight ==
  ASSUME CutsIntoWords, NEW id, AreTexts(forward[id + 1]),
         NEW doc, NEW query, IsText(query),
         doc.title = forward[id + 1].title, doc.content = forward[id + 1].content
  PROVE  Scan!Weight(doc, query)
           = Cardinality(Units(Weights(Words(query), id), DOMAIN Words(query)))
<1> DEFINE ws == Words(query)
           D == DOMAIN ws
<1>1. PICK h : h = Weights(ws, id)
  OBVIOUS
<1>2. ASSUME NEW k \in D
      PROVE  /\ 10 * Scan!Times(ws[k], doc.title)
                  + Scan!Times(ws[k], doc.content) = h[k]
             /\ h[k] \in Nat
  <2>1. h[k] = WeightIn(forward[id + 1], ws[k])
    BY <1>1 DEF Weights
  <2>2. WeightIn(forward[id + 1], ws[k])
          = 10 * Times(ws[k], Words(doc.title)) + Times(ws[k], Words(doc.content))
    BY Zenon DEF WeightIn
  <2>3. WeightIn(forward[id + 1], ws[k]) \in Nat
    BY WeightZero
  <2> QED  BY <2>1, <2>2, <2>3, ScanCounts
<1> DEFINE Pick(s) == CHOOSE x \in s : TRUE
           Scanned(g) == [s \in SUBSET D |->
             IF s = {} THEN 0
             ELSE (10 * Scan!Times(ws[Pick(s)], doc.title)
                    + Scan!Times(ws[Pick(s)], doc.content)) + g[s \ {Pick(s)}]]
           Turn(g) == [s \in SUBSET D |->
             IF s = {} THEN 0 ELSE h[Pick(s)] + g[s \ {Pick(s)}]]
<1>3. PICK f : /\ Scan!Weight(doc, query) = f[D]
               /\ f = CHOOSE g : g = Scanned(g)
  <2>1. PICK v : v = Scan!Weight(doc, query)
    OBVIOUS
  <2> QED  BY <2>1, Zenon DEF Scan!Weight, Scan!MapThenSumSet, Scan!MapThenFoldSet
<1>4. ASSUME NEW g
      PROVE  Scanned(g) = Turn(g)
  <2> SUFFICES ASSUME NEW s \in SUBSET D, s # {}
               PROVE  (10 * Scan!Times(ws[Pick(s)], doc.title)
                        + Scan!Times(ws[Pick(s)], doc.content)) + g[s \ {Pick(s)}]
                      = h[Pick(s)] + g[s \ {Pick(s)}]
    BY Zenon
  <2>1. Pick(s) \in D
    OBVIOUS
  <2> QED  BY <1>2, <2>1, Zenon
<1>5. f = CHOOSE g : g = Turn(g)
  <2> HIDE DEF Scanned, Turn
  <2> QED  BY <1>3, <1>4, Zenon
<1>6. h \in [D -> Nat]
  BY <1>1, <1>2 DEF Weights
<1>7. IsFiniteSet(D)
  <2>1. PICK n \in Nat : D = 1 .. n
    BY WordPlaces
  <2> QED  BY <2>1, n \in Int, 1 \in Int, FS_Interval
<1>8. f[D] = Cardinality(Units(h, D))
  BY <1>5, <1>6, <1>7, Summed
<1> QED  BY <1>1, <1>3, <1>8, Zenon

(* The documents with a weight for the scan are those the index names. *)
LEMMA HitsWeigh ==
  ASSUME CutsIntoWords, IInv, TextsServed, NEW query, IsText(query),
         NEW id \in 0 .. Len(forward) - 1
  PROVE  /\ Scan!Weight(Served[id + 1], query)
              = Cardinality(Units(Weights(Words(query), id), DOMAIN Words(query)))
         /\ Scan!Weight(Served[id + 1], query) > 0
              <=> id \in HitBySome(Words(query), DOMAIN Words(query))
<1>1. PICK ws, D, h : /\ ws = Words(query) /\ D = DOMAIN Words(query)
                      /\ h = Weights(Words(query), id)
  OBVIOUS
<1>2. id + 1 \in DOMAIN forward /\ AreTexts(forward[id + 1])
  BY ServedAt
<1>3. Scan!Weight(Served[id + 1], query) = Cardinality(Units(h, D))
  <2>1. PICK doc : doc = Served[id + 1]
    OBVIOUS
  <2>2. doc.title = forward[id + 1].title /\ doc.content = forward[id + 1].content
    BY <1>2, <2>1 DEF Served, Bare
  <2> QED  BY <1>1, <1>2, <2>1, <2>2, ScanWeight
<1>4. /\ h = [k \in D |-> WeightIn(forward[id + 1], ws[k])]
      /\ \A k \in D : h[k] \in Nat
  BY <1>1, <1>2, WeightZero DEF Weights
<1>5. IsFiniteSet(D)
  <2>1. PICK n \in Nat : D = 1 .. n
    BY <1>1, WordPlaces
  <2> QED  BY <2>1, n \in Int, 1 \in Int, FS_Interval
<1>6. /\ Cardinality(Units(h, D)) \in Nat
      /\ Cardinality(Units(h, D)) = 0 <=> \A k \in D : h[k] = 0
  <2>1. h \in [D -> Nat] /\ D \in SUBSET D
    BY <1>4
  <2> QED  BY <1>5, <2>1, OneMore
<1>7. \A k \in D : h[k] # 0 <=> id \in Hitting(ws[k])
  <2> SUFFICES ASSUME NEW k \in D PROVE h[k] # 0 <=> id \in Hitting(ws[k])
    OBVIOUS
  <2>1. h[k] \in Nat /\ h[k] > 0 <=> Holds(forward[id + 1], ws[k])
    BY <1>2, <1>4, WeightZero
  <2> QED  BY <1>4, <2>1 DEF Hitting
<1>8. id \in HitBySome(ws, D) <=> \E k \in D : h[k] # 0
  BY <1>7 DEF HitBySome
<1> QED  BY <1>1, <1>3, <1>6, <1>8

(* An order std::sort may leave the hits in is one the scan may answer. *)
LEMMA RankedAlike ==
  ASSUME CutsIntoWords, IInv, TextsServed, pc = "serve",
         NEW query, IsText(query), NEW p \in Sorted(TokensMap(query))
  PROVE  /\ \A k \in DOMAIN p : p[k] \in 0 .. Len(forward) - 1
         /\ [k \in DOMAIN p |-> Scan!Shown(Served[p[k] + 1])] \in Scan!Rankings(query)
<1>1. PICK ws, D, n : /\ ws = Words(query) /\ D = DOMAIN Words(query)
                      /\ n = Len(forward)
  OBVIOUS
<1>2. n \in Nat /\ DOMAIN forward = 1 .. n /\ DOMAIN Served = 1 .. n
  BY <1>1, LenProperties DEF IInv, Vectors, Served
<1>3. PICK ids : ids = HitBySome(ws, D)
  OBVIOUS
<1>4. PICK weight : weight = [i \in 1 .. n |-> Scan!Weight(Served[i], query)]
  OBVIOUS
<1>5. ids \subseteq 0 .. n - 1
  BY <1>1, <1>3 DEF HitBySome, Hitting
<1>6. \A id \in 0 .. n - 1 : weight[id + 1] > 0 <=> id \in ids
  BY <1>1, <1>2, <1>3, <1>4, HitsWeigh
<1>7. /\ DOMAIN TokensMap(query) = ids
      /\ \A id \in ids : TokensMap(query)[id].weight = weight[id + 1]
  <2>1. TokensMap(query) = Tokens(ws, D)
    BY <1>1, TokensAre
  <2>2. /\ DOMAIN Tokens(ws, D) = ids
        /\ \A id \in ids : Tokens(ws, D)[id].weight = Cardinality(Units(Weights(ws, id), D))
    BY <1>3 DEF Tokens
  <2>3. \A id \in ids : weight[id + 1] = Cardinality(Units(Weights(ws, id), D))
    BY <1>1, <1>2, <1>4, <1>5, HitsWeigh
  <2> QED  BY <2>1, <2>2, <2>3
<1>8. /\ p \in SetToSeqs(ids)
      /\ \A j, k \in DOMAIN p : j < k => weight[p[j] + 1] >= weight[p[k] + 1]
  <2>1. PICK tokens : tokens = TokensMap(query)
    OBVIOUS
  <2>2. /\ p \in SetToSeqs(DOMAIN tokens)
        /\ \A j, k \in DOMAIN p : j < k => tokens[p[j]].weight >= tokens[p[k]].weight
    BY <2>1 DEF Sorted
  <2>3. \A k \in DOMAIN p : p[k] \in DOMAIN tokens
    BY <2>2 DEF SetToSeqs
  <2> QED  BY <1>7, <2>1, <2>2, <2>3
<1>9. PICK c : c = Cardinality(ids)
  OBVIOUS
<1>10. /\ p \in [1 .. c -> ids]
       /\ \A j, k \in 1 .. c : j # k => p[j] # p[k]
  BY <1>8, <1>9 DEF SetToSeqs
<1>11. PICK hits : hits = {i \in 1 .. n : weight[i] > 0}
  OBVIOUS
<1>12. \A i : i \in hits <=> i - 1 \in ids /\ i \in 1 .. n
  <2> SUFFICES ASSUME NEW i \in 1 .. n PROVE weight[i] > 0 <=> i - 1 \in ids
    BY <1>11
  <2>1. i - 1 \in 0 .. n - 1 /\ (i - 1) + 1 = i
    BY <1>2
  <2> QED  BY <1>6, <2>1
<1>13. Cardinality(hits) = c
  <2>1. IsFiniteSet(ids)
    <3>1. IsFiniteSet(0 .. n - 1)
      BY <1>2, n - 1 \in Int, 0 \in Int, FS_Interval
    <3> QED  BY <1>5, <3>1, FS_Subset
  <2>2. PICK b : b = [id \in ids |-> id + 1]
    OBVIOUS
  <2>3. b \in Bijection(ids, hits)
    <3>1. ASSUME NEW id \in ids PROVE id + 1 \in hits /\ id \in Int
      BY <1>2, <1>5, <1>12
    <3>2. b \in [ids -> hits]
      BY <2>2, <3>1
    <3>3. IsInjective(b)
      BY <2>2, <3>1 DEF IsInjective
    <3>4. ASSUME NEW i \in hits PROVE \E id \in ids : b[id] = i
      <4>1. i - 1 \in ids /\ i \in Int
        BY <1>12
      <4> QED  BY <2>2, <4>1
    <3> QED  BY <3>2, <3>3, <3>4 DEF Bijection, Injection, Surjection
  <2> QED  BY <1>9, <2>1, <2>3, FS_Bijection DEF ExistsBijection
<1>14. PICK q : q = [k \in 1 .. c |-> p[k] + 1]
  OBVIOUS
<1>15. /\ q \in SetToSeqs(hits) /\ DOMAIN q = 1 .. c /\ DOMAIN p = 1 .. c
       /\ \A j, k \in DOMAIN q : j < k => weight[q[j]] >= weight[q[k]]
  <2>1. ASSUME NEW k \in 1 .. c PROVE q[k] \in hits /\ q[k] = p[k] + 1 /\ p[k] \in Int
    <3>1. p[k] \in ids
      BY <1>10
    <3>2. p[k] \in 0 .. n - 1
      BY <1>5, <3>1
    <3>3. q[k] = p[k] + 1
      BY <1>14
    <3>4. q[k] \in 1 .. n /\ q[k] - 1 = p[k]
      BY <1>2, <3>2, <3>3
    <3> QED  BY <1>12, <3>1, <3>2, <3>3, <3>4
  <2>2. q \in [1 .. c -> hits]
    BY <1>14, <2>1
  <2>3. \A j, k \in 1 .. c : j # k => q[j] # q[k]
    BY <1>10, <2>1
  <2>4. DOMAIN p = 1 .. c /\ DOMAIN q = 1 .. c
    BY <1>10, <1>14
  <2>5. \A j, k \in DOMAIN q : j < k => weight[q[j]] >= weight[q[k]]
    BY <1>8, <2>1, <2>4
  <2> QED  BY <1>13, <2>2, <2>3, <2>4, <2>5 DEF SetToSeqs
<1>16. q \in {r \in SetToSeqs(hits) :
                \A j, k \in DOMAIN r : j < k =>
                  Scan!Weight(Served[r[j]], query) >= Scan!Weight(Served[r[k]], query)}
  <2>1. \A k \in DOMAIN q : q[k] \in 1 .. n
    BY <1>11, <1>15 DEF SetToSeqs
  <2> QED  BY <1>4, <1>15, <2>1
<1>17. hits = {i \in DOMAIN Served : Scan!Weight(Served[i], query) > 0}
  BY <1>2, <1>4, <1>11
<1>18. [k \in DOMAIN q |-> Scan!Shown(Served[q[k]])] \in Scan!Rankings(query)
  <2>1. (IF pc = "serve" THEN Served ELSE <<>>) = Served
    OBVIOUS
  <2>2. \A S : Scan!SetToSeqs(S) = SetToSeqs(S)
    BY ScanCounts
  <2> QED  BY <1>16, <1>17, <2>1, <2>2, Zenon DEF Scan!Rankings
<1>19. [k \in DOMAIN q |-> Scan!Shown(Served[q[k]])]
         = [k \in DOMAIN p |-> Scan!Shown(Served[p[k] + 1])]
  BY <1>14, <1>15, Zenon
<1>20. \A k \in DOMAIN p : p[k] \in 0 .. Len(forward) - 1
  BY <1>1, <1>5, <1>10, <1>15
<1> QED  BY <1>18, <1>19, <1>20, Zenon

-----------------------------------------------------------------------------
(* The refinement *)

(* What the scan sees of the engine. *)
Found == [k \in DOMAIN answer |->
            [title |-> answer[k].title, url |-> answer[k].url]]
Published == IF pc = "serve" THEN Served ELSE <<>>

(* Only a server that listens has been asked anything. *)
Quiet == pc # "serve" => asked = <<>> /\ answer = <<>>

(* No answer shows no hits. *)
LEMMA NothingFound == answer = <<>> => Found = <<>>
<1> SUFFICES ASSUME answer = <<>> PROVE Found = <<>>
  OBVIOUS
<1>1. DOMAIN answer = {}
  BY EmptyList, LenProperties
<1>2. PICK f : f = Found
  OBVIOUS
<1>3. DOMAIN f = {} /\ f = [k \in DOMAIN f |-> f[k]]
  BY <1>1, <1>2 DEF Found
<1> QED  BY <1>2, <1>3, EmptyFunction

(* The server is asked only while it serves. *)
LEMMA AskedWhenServing == Spec => []Quiet
<1>1. Init => Quiet
  BY DEF Init, Quiet
<1>2. ASSUME Quiet, [Next]_vars PROVE Quiet'
  <2>1. CASE ParserCompletes \/ ParserCutShort
    BY <1>2, <2>1 DEF Quiet, ParserCompletes, ParserCutShort, Parse, serverVars
  <2>2. CASE StartServer \/ IndexLine
    BY <1>2, <2>2 DEF Quiet, StartServer, IndexLine
  <2>3. CASE Listen \/ StopServer \/ Respond
    BY <2>3 DEF Quiet, Listen, StopServer, Respond
  <2>4. CASE \E query \in Queries : Search(query)
    BY <2>4 DEF Quiet, Search
  <2>5. CASE UNCHANGED vars
    BY <1>2, <2>5 DEF Quiet, vars
  <2> QED  BY <1>2, <2>1, <2>2, <2>3, <2>4, <2>5 DEF Next
<1> QED  BY <1>1, <1>2, PTL DEF Spec

(* Going through the lists of the query's words and sorting is reading     *)
(* every document.                                                         *)
LEMMA SearchScans ==
  ASSUME CutsIntoWords, IInv, TextsServed, NEW query \in Queries, Search(query)
  PROVE  Scan!Ask
<1>1. PICK p \in Sorted(TokensMap(query)) :
        answer' = [k \in DOMAIN p |-> Elem(p[k], TokensMap(query)[p[k]].word)]
  BY DEF Search
<1>2. pc = "serve" /\ asked' = query /\ UNCHANGED <<pc, forward>>
  BY DEF Search
<1>3. /\ \A k \in DOMAIN p : p[k] \in 0 .. Len(forward) - 1
      /\ [k \in DOMAIN p |-> Scan!Shown(Served[p[k] + 1])] \in Scan!Rankings(query)
  BY <1>2, RankedAlike, QueriesAssumption DEF IsText
<1>4. PICK a : a = answer'
  OBVIOUS
<1>5. ASSUME NEW k \in DOMAIN p
      PROVE  [title |-> a[k].title, url |-> a[k].url]
               = Scan!Shown(Served[p[k] + 1])
  <2>1. p[k] + 1 \in DOMAIN forward
    BY <1>3, LenProperties DEF IInv, Vectors
  <2>2. a[k] = Elem(p[k], TokensMap(query)[p[k]].word)
    BY <1>1, <1>4
  <2>3. /\ a[k].title = forward[p[k] + 1].title
        /\ a[k].url = forward[p[k] + 1].url
    BY <2>2 DEF Elem
  <2>4. /\ Served[p[k] + 1].title = forward[p[k] + 1].title
        /\ Served[p[k] + 1].url = forward[p[k] + 1].url
    BY <2>1 DEF Served, Bare
  <2> QED  BY <2>3, <2>4 DEF Scan!Shown
<1>6. Found' = [k \in DOMAIN p |-> Scan!Shown(Served[p[k] + 1])]
  <2>1. Found' = [k \in DOMAIN a |-> [title |-> a[k].title, url |-> a[k].url]]
    BY <1>4 DEF Found
  <2>2. DOMAIN a = DOMAIN p
    BY <1>1, <1>4
  <2> QED  BY <1>5, <2>1, <2>2, Zenon
<1>7. Published' = Published
  BY <1>2 DEF Published, Served
<1>8. Found' \in Scan!Rankings(asked')
  BY <1>2, <1>3, <1>6
<1> QED  BY <1>2, <1>7, <1>8, Zenon DEF Scan!Ask, Found, Published

(* Every step of the engine is one of the scan or leaves what it sees.     *)
LEMMA StepScans ==
  ASSUME CutsIntoWords, IInv, TextsServed, Quiet, [Next]_vars
  PROVE  [Scan!Next]_(Scan!vars)
<1>1. ASSUME UNCHANGED <<asked, answer>>, Published' = Published
      PROVE  UNCHANGED Scan!vars
  <2>1. Found' = Found
    BY <1>1 DEF Found
  <2> QED  BY <1>1, <2>1 DEF Scan!vars, Found, Published
<1>2. ASSUME asked' = <<>>, answer' = <<>>
      PROVE  Scan!Publish
  <2>1. (answer = <<>> => Found = <<>>)'
    BY NothingFound, PTL
  <2>2. Found' = <<>>
    BY <1>2, <2>1
  <2> QED  BY <1>2, <2>2 DEF Scan!Publish, Found
<1>3. CASE ParserCompletes \/ ParserCutShort
  <2>1. UNCHANGED <<asked, answer>> /\ pc # "serve" /\ pc' # "serve"
    BY <1>3 DEF ParserCompletes, ParserCutShort, Parse, serverVars
  <2> QED  BY <1>1, <2>1 DEF Published
<1>4. CASE StartServer \/ IndexLine
  <2>1. UNCHANGED <<asked, answer>> /\ pc # "serve" /\ pc' # "serve"
    BY <1>4 DEF StartServer, IndexLine
  <2> QED  BY <1>1, <2>1 DEF Published
<1>5. CASE Listen
  <2>1. asked' = <<>> /\ answer' = <<>>
    BY <1>5 DEF Listen, Quiet
  <2> QED  BY <1>2, <2>1 DEF Scan!Next
<1>6. CASE StopServer \/ Respond
  <2>1. asked' = <<>> /\ answer' = <<>>
    BY <1>6 DEF StopServer, Respond
  <2> QED  BY <1>2, <2>1 DEF Scan!Next
<1>7. CASE \E query \in Queries : Search(query)
  BY <1>7, SearchScans DEF Scan!Next
<1>8. CASE UNCHANGED vars
  BY <1>1, <1>8 DEF vars, Published, Served
<1> QED  BY <1>3, <1>4, <1>5, <1>6, <1>7, <1>8 DEF Next

-----------------------------------------------------------------------------
(* Splitting *)

(* SplitText as a run: its states and its step. *)
SplitStates(C) == [tokens : Seq(Seq(C)) \ {<<>>}, marked : BOOLEAN]
SplitRun(C, mark, compress) ==
  [x \in SplitStates(C) \X C |-> SplitStep(x[1], x[2], mark, compress)]
Splits(C, mark, compress, a, text, b) ==
  EndsIn(SplitStates(C), SplitRun(C, mark, compress), a, text, b)

(* The state with t as the token it is in. *)
In(ts, t, marked) == [tokens |-> Append(ts, t), marked |-> marked]

(* What comes last and what comes before it. *)
LEMMA FrontAndLast ==
  ASSUME NEW S
  PROVE  /\ \A q \in Seq(S) : \A x \in S : Front(Append(q, x)) = q /\ Last(Append(q, x)) = x
         /\ \A q \in Seq(S) \ {<<>>} : Front(q) \in Seq(S) /\ Last(q) \in S
<1>1. ASSUME NEW q \in Seq(S), NEW x \in S
      PROVE  Front(Append(q, x)) = q /\ Last(Append(q, x)) = x
  <2>1. PICK r, n : r = Append(q, x) /\ n = Len(q)
    OBVIOUS
  <2>2. /\ r \in Seq(S) /\ n \in Nat /\ Len(r) = n + 1 /\ r[n + 1] = x
        /\ \A i \in 1 .. n : r[i] = q[i]
    BY <2>1, AppendProperties, LenProperties
  <2>3. Last(r) = x
    BY <2>2 DEF Last
  <2>4. Front(r) = SubSeq(r, 1, n)
    BY <2>2 DEF Front
  <2>5. PICK p : p = SubSeq(r, 1, n)
    OBVIOUS
  <2>6. /\ p \in Seq(S) /\ Len(p) = n
        /\ \A i \in 1 .. n : p[i] = r[i]
    <3>1. n \in 0 .. Len(r)
      BY <2>2
    <3>2. p \in Seq(S) /\ Len(p) = n
      BY <2>2, <2>5, <3>1, CutOff
    <3>3. \A i \in 1 .. n : p[i] = r[i]
      BY <2>2, <2>5
    <3> QED  BY <3>2, <3>3
  <2>7. p = q
    BY <2>1, <2>2, <2>6, SeqEqual
  <2> QED  BY <2>1, <2>3, <2>4, <2>5, <2>7
<1>2. ASSUME NEW q \in Seq(S), q # <<>> PROVE Front(q) \in Seq(S) /\ Last(q) \in S
  <2>1. PICK r \in Seq(S), x \in S : q = Append(r, x)
    BY <1>2, SequenceEmptyOrAppend
  <2> QED  BY <1>1, <2>1
<1> QED  BY <1>1, <1>2

(* Its steps lead from state to state. *)
LEMMA SplitStays ==
  ASSUME NEW C, NEW mark, NEW compress
  PROVE  Steps(SplitStates(C), C, SplitRun(C, mark, compress))
<1>1. ASSUME NEW acc \in SplitStates(C), NEW c \in C
      PROVE  SplitStep(acc, c, mark, compress) \in SplitStates(C)
  <2>1. acc.tokens \in Seq(Seq(C)) \ {<<>>}
    BY DEF SplitStates
  <2>2. Front(acc.tokens) \in Seq(Seq(C)) /\ Last(acc.tokens) \in Seq(C)
    BY <2>1, FrontAndLast
  <2>3. CASE c # mark
    <3>1. Append(Last(acc.tokens), c) \in Seq(C)
      BY <2>2, AppendProperties
    <3>2. Append(Front(acc.tokens), Append(Last(acc.tokens), c)) \in Seq(Seq(C)) \ {<<>>}
      BY <2>2, <3>1, AppendProperties
    <3> QED  BY <2>3, <3>2 DEF SplitStep, SplitStates
  <2>4. CASE c = mark /\ compress /\ acc.marked
    BY <2>4 DEF SplitStep
  <2>5. CASE c = mark /\ ~(compress /\ acc.marked)
    <3>1. <<>> \in Seq(C)
      BY EmptySeq
    <3>2. Append(acc.tokens, <<>>) \in Seq(Seq(C)) \ {<<>>}
      BY <2>1, <3>1, AppendProperties
    <3> QED  BY <2>5, <3>2 DEF SplitStep, SplitStates
  <2> QED  BY <2>3, <2>4, <2>5
<1>2. PICK X : X = SplitStates(C)
  OBVIOUS
<1>3. ASSUME NEW x \in X \X C PROVE SplitStep(x[1], x[2], mark, compress) \in X
  <2>1. x[1] \in X /\ x[2] \in C
    OBVIOUS
  <2> QED  BY <1>1, <1>2, <2>1
<1>4. [x \in X \X C |-> SplitStep(x[1], x[2], mark, compress)] \in [X \X C -> X]
  BY <1>3
<1> QED  BY <1>2, <1>4, Zenon DEF Steps, SplitRun

(* In is a state. *)
LEMMA InIsState ==
  ASSUME NEW C, NEW ts \in Seq(Seq(C)), NEW t \in Seq(C), NEW marked \in BOOLEAN
  PROVE  In(ts, t, marked) \in SplitStates(C)
<1>1. Append(ts, t) \in Seq(Seq(C)) \ {<<>>}
  BY AppendProperties
<1> QED  BY <1>1 DEF In, SplitStates

(* A character after a token, and a mark after one. *)
Moves(C, mark, compress, ts, t, marked, c) ==
  /\ c # mark => SplitRun(C, mark, compress)[<<In(ts, t, marked), c>>]
                   = In(ts, Append(t, c), FALSE)
  /\ c = mark => SplitRun(C, mark, compress)[<<In(ts, t, marked), c>>]
                   = IF compress /\ marked THEN In(ts, t, marked)
                     ELSE In(Append(ts, t), <<>>, TRUE)
LEMMA SplitOne ==
  ASSUME NEW C, NEW mark, NEW compress \in BOOLEAN, NEW ts \in Seq(Seq(C)),
         NEW t \in Seq(C), NEW marked \in BOOLEAN, NEW c \in C
  PROVE  Moves(C, mark, compress, ts, t, marked, c)
<1>1. PICK acc : acc = In(ts, t, marked)
  OBVIOUS
<1>2. acc.tokens = Append(ts, t) /\ acc.marked = marked
  BY <1>1 DEF In
<1>4. acc \in SplitStates(C)
  BY <1>1, InIsState
<1>5. SplitRun(C, mark, compress)[<<acc, c>>] = SplitStep(acc, c, mark, compress)
  <2>1. PICK x : x = <<acc, c>>
    OBVIOUS
  <2>2. x \in SplitStates(C) \X C /\ x[1] = acc /\ x[2] = c
    BY <1>4, <2>1
  <2>3. SplitRun(C, mark, compress)[x] = SplitStep(x[1], x[2], mark, compress)
    BY <2>2, Zenon DEF SplitRun
  <2> QED  BY <2>1, <2>2, <2>3, Zenon
<1>6. Front(acc.tokens) = ts /\ Last(acc.tokens) = t
  BY <1>2, FrontAndLast
<1>7. CASE c # mark
  <2>1. SplitStep(acc, c, mark, compress) = In(ts, Append(t, c), FALSE)
    BY <1>6, <1>7, Zenon DEF SplitStep, In
  <2> QED  BY <1>1, <1>4, <1>5, <1>7, <2>1 DEF Moves
<1>8. CASE c = mark /\ compress /\ marked
  <2>1. SplitStep(acc, c, mark, compress) = acc
    BY <1>2, <1>8 DEF SplitStep
  <2> QED  BY <1>1, <1>4, <1>5, <1>8, <2>1 DEF Moves
<1>9. CASE c = mark /\ ~(compress /\ marked)
  <2>1. SplitStep(acc, c, mark, compress) = In(Append(ts, t), <<>>, TRUE)
    BY <1>2, <1>9, Zenon DEF SplitStep, In
  <2> QED  BY <1>1, <1>4, <1>5, <1>9, <2>1 DEF Moves
<1> QED  BY <1>7, <1>8, <1>9

(* It begins in an empty token. *)
SplitInto(text, mark, compress, ts, t) == SplitText(text, mark, compress) = Append(ts, t)
LEMMA SplitStart ==
  ASSUME NEW C, NEW mark, NEW compress \in BOOLEAN, NEW text \in Seq(C),
         NEW ts \in Seq(Seq(C)), NEW t \in Seq(C), NEW marked \in BOOLEAN,
         Splits(C, mark, compress, In(<<>>, <<>>, FALSE), text, In(ts, t, marked))
  PROVE  SplitInto(text, mark, compress, ts, t)
<1>1. PICK X, step, a, n :
        /\ X = SplitStates(C) /\ step = SplitRun(C, mark, compress)
        /\ a = In(<<>>, <<>>, FALSE) /\ n = Len(text)
  OBVIOUS
<1>2. n \in Nat /\ DOMAIN text = 1 .. n
  BY <1>1, LenProperties
<1>3. a = [tokens |-> << <<>> >>, marked |-> FALSE] /\ a \in X
  <2>1. <<>> \in Seq(C) /\ <<>> \in Seq(Seq(C)) /\ Append(<<>>, <<>>) = << <<>> >>
    BY EmptySeq
  <2>2. a = [tokens |-> << <<>> >>, marked |-> FALSE]
    BY <1>1, <2>1 DEF In
  <2> QED  BY <1>1, <2>1, <2>2, InIsState
<1>4. Steps(X, C, step)
  BY <1>1, SplitStays
<1>5. PICK g : FoldOf(X, step, a, text, g)
  BY <1>3, <1>4, FoldExists
<1>6. g[1 .. n] = In(ts, t, marked)
  <2>1. EndsIn(X, step, a, text, g[1 .. n])
    BY <1>1, <1>3, <1>4, <1>5, FoldRuns
  <2>2. EndsIn(X, step, a, text, In(ts, t, marked))
    BY <1>1 DEF Splits
  <2> QED  BY <2>1, <2>2, RunEndsOnce
<1> DEFINE D == DOMAIN text
           Turn(f) == [s \in SUBSET D |->
                         IF s = {} THEN a
                         ELSE SplitStep(f[s \ {Max(s)}], text[Max(s)], mark, compress)]
<1>7. PICK f : /\ SplitText(text, mark, compress) = f[D].tokens
               /\ f = CHOOSE h : h = Turn(h)
  <2>1. PICK v : v = SplitText(text, mark, compress)
    OBVIOUS
  <2> QED  BY <1>3, <2>1, Zenon DEF SplitText, FoldLeft, MapThenFoldSet
<1>8. ASSUME NEW s \in SUBSET D, s # {}
      PROVE  g[s] = SplitStep(g[s \ {Max(s)}], text[Max(s)], mark, compress)
  <2>1. Max(s) \in s
    BY <1>2, <1>8, LastPlace
  <2>2. PICK x : x = <<g[s \ {Max(s)}], text[Max(s)]>>
    OBVIOUS
  <2>3. g[s \ {Max(s)}] \in X
    BY <1>1, <1>2, <1>5 DEF FoldOf
  <2>4. text[Max(s)] \in C
    BY <1>1, <1>2, <2>1, ElementOfSeq
  <2>5. x \in X \X C /\ x[1] = g[s \ {Max(s)}] /\ x[2] = text[Max(s)]
    BY <2>2, <2>3, <2>4
  <2>6. step[x] = SplitStep(x[1], x[2], mark, compress)
    BY <1>1, <2>5, Zenon DEF SplitRun
  <2>7. g[s] = step[x]
    BY <1>1, <1>2, <1>5, <1>8, <2>2 DEF FoldOf
  <2> QED  BY <2>5, <2>6, <2>7, Zenon
<1>9. g[{}] = a /\ g = [s \in SUBSET D |-> g[s]]
  BY <1>1, <1>2, <1>5 DEF FoldOf
<1>10. g = Turn(g)
  <2> HIDE DEF D
  <2> QED  BY <1>8, <1>9, Zenon
<1>11. f = Turn(f)
  <2> HIDE DEF Turn, D
  <2> QED  BY <1>7, <1>10, Zenon
<1>12. f[{}] = g[{}]
  BY <1>9, <1>11, {} \in SUBSET D, Zenon
<1>13. ASSUME NEW s \in SUBSET D, s # {}, f[s \ {Max(s)}] = g[s \ {Max(s)}]
       PROVE  f[s] = g[s]
  <2>1. f[s] = SplitStep(f[s \ {Max(s)}], text[Max(s)], mark, compress)
    BY <1>11, <1>13, Zenon
  <2> QED  BY <1>8, <1>13, <2>1, Zenon
<1>14. f[D] = g[D]
  <2> HIDE DEF Turn
  <2> QED  BY <1>2, <1>12, <1>13, FoldsAgree
<1>15. f[D].tokens = Append(ts, t)
  BY <1>2, <1>6, <1>14 DEF In
<1> QED  BY <1>7, <1>15 DEF SplitInto


(* Text without a mark in it goes to the token. *)
LEMMA SplitOn ==
  ASSUME NEW C, NEW mark, NEW compress \in BOOLEAN, NEW ts \in Seq(Seq(C)),
         NEW t \in Seq(C), NEW marked \in BOOLEAN, NEW text \in Seq(C),
         \A k \in 1 .. Len(text) : text[k] # mark
  PROVE  Splits(C, mark, compress, In(ts, t, marked), text,
                In(ts, t \o text, marked /\ text = <<>>))
<1>1. PICK X, step, a, n :
        /\ X = SplitStates(C) /\ step = SplitRun(C, mark, compress)
        /\ a = In(ts, t, marked) /\ n = Len(text)
  OBVIOUS
<1>2. n \in Nat /\ a \in X /\ Steps(X, C, step)
  BY <1>1, LenProperties, InIsState, SplitStays
<1> DEFINE Upto(v) == SubSeq(text, 1, v)
           To(v) == In(ts, t \o Upto(v), marked /\ v = 0)
           G == {v \in 0 .. n : EndsIn(X, step, a, Upto(v), To(v))}
<1>3. 0 \in G
  <2>1. Upto(0) = <<>> /\ t \o <<>> = t
    BY SubSeqEmpty, ConcatEmptySeq
  <2>2. To(0) = a
    <3>1. (marked /\ 0 = 0) = marked
      OBVIOUS
    <3> QED  BY <1>1, <2>1, <3>1, Zenon
  <2>3. EndsIn(X, step, a, <<>>, a)
    BY <1>2, RunNowhere
  <2>4. 0 \in 0 .. n
    BY <1>2
  <2> HIDE DEF Upto, To
  <2> QED  BY <2>1, <2>2, <2>3, <2>4
<1>4. ASSUME NEW v \in 0 .. n - 1, v \in G PROVE v + 1 \in G
  <2>1. PICK s, c : s = Upto(v) /\ c = text[v + 1]
    OBVIOUS
  <2>2. v + 1 \in 1 .. n /\ 1 \in 1 .. n /\ v \in 0 .. n /\ v + 1 \in 0 .. n
        /\ (v + 1) - 1 = v /\ v + 1 # 0
    BY <1>2
  <2>3. c \in C /\ c # mark
    BY <1>1, <2>1, <2>2, ElementOfSeq
  <2>4. s \in Seq(C)
    BY <1>1, <2>1, <2>2, CutOff
  <2>5. Upto(v + 1) = s \o <<c>> /\ Append(s, c) = s \o <<c>>
    <3>1. v + 1 \in 1 .. Len(text) /\ 1 \in 1 .. Len(text) /\ v + 1 \in 1 .. Len(text)
      BY <1>1, <2>2
    <3>2. Upto(v + 1) = SubSeq(text, 1, (v + 1) - 1) \o <<text[v + 1]>>
      BY <2>2, <3>1, SubSeqRecursiveSecond
    <3> QED  BY <2>1, <2>2, <2>3, <2>4, <3>2, AppendIsConcat
  <2>6. t \o s \in Seq(C) /\ Append(t \o s, c) = t \o Append(s, c)
    <3>1. <<c>> \in Seq(C) /\ t \o s \in Seq(C)
      BY <2>3, <2>4, ConcatProperties
    <3>2. Grouped(t, s, <<c>>)
      BY <2>4, <3>1, Grouping
    <3>3. Append(t \o s, c) = (t \o s) \o <<c>>
      BY <2>3, <3>1, AppendIsConcat
    <3> QED  BY <2>5, <3>1, <3>2, <3>3 DEF Grouped
  <2>7. PICK m : m = (marked /\ v = 0) /\ m \in BOOLEAN
    OBVIOUS
  <2>8. EndsIn(X, step, a, s, In(ts, t \o s, m))
    BY <1>4, <2>1, <2>7
  <2>9. step[<<In(ts, t \o s, m), c>>] = In(ts, Append(t \o s, c), FALSE)
    <3>1. Moves(C, mark, compress, ts, t \o s, m, c)
      BY <2>3, <2>6, <2>7, SplitOne
    <3> QED  BY <1>1, <2>3, <3>1, Zenon DEF Moves
  <2>10. EndsIn(X, step, a, Append(s, c), step[<<In(ts, t \o s, m), c>>])
    BY <1>2, <2>3, <2>4, <2>8, RunFurther
  <2>11. To(v + 1) = In(ts, t \o Append(s, c), FALSE)
    <3>1. (marked /\ v + 1 = 0) = FALSE
      BY <2>2
    <3> QED  BY <2>5, <3>1, Zenon
  <2>12. EndsIn(X, step, a, Upto(v + 1), To(v + 1))
    BY <2>5, <2>6, <2>9, <2>10, <2>11, Zenon
  <2> HIDE DEF Upto, To
  <2> QED  BY <2>2, <2>12
<1>5. n \in G
  <2> HIDE DEF G
  <2>1. 0 .. n \subseteq G
    BY <1>2, <1>3, <1>4, Counting
  <2> QED  BY <1>2, <2>1
<1>6. Upto(n) = text
  BY <1>1, SubSeqFull
<1>7. (marked /\ n = 0) = (marked /\ text = <<>>)
  BY <1>1, EmptyList
<1>8. EndsIn(X, step, a, text, In(ts, t \o text, marked /\ text = <<>>))
  BY <1>5, <1>6, <1>7, Zenon
<1> QED  BY <1>1, <1>8, Zenon DEF Splits

(* A mark ends the token, or is passed over. *)
LEMMA SplitMark ==
  ASSUME NEW C, NEW mark \in C, NEW compress \in BOOLEAN, NEW ts \in Seq(Seq(C)),
         NEW t \in Seq(C), NEW marked \in BOOLEAN
  PROVE  /\ ~(compress /\ marked) =>
              Splits(C, mark, compress, In(ts, t, marked), <<mark>>,
                     In(Append(ts, t), <<>>, TRUE))
         /\ compress /\ marked =>
              Splits(C, mark, compress, In(ts, t, marked), <<mark>>,
                     In(ts, t, marked))
<1>1. PICK X, step, a :
        /\ X = SplitStates(C) /\ step = SplitRun(C, mark, compress)
        /\ a = In(ts, t, marked)
  OBVIOUS
<1>2. EndsIn(X, step, a, <<>>, a) /\ Steps(X, C, step)
  BY <1>1, InIsState, SplitStays, RunNowhere
<1>3. <<>> \in Seq(C) /\ Append(<<>>, mark) = <<mark>>
  BY EmptySeq
<1>4. EndsIn(X, step, a, <<mark>>, step[<<a, mark>>])
  BY <1>2, <1>3, RunFurther
<1>5. step[<<a, mark>>] = IF compress /\ marked THEN a ELSE In(Append(ts, t), <<>>, TRUE)
  <2>1. Moves(C, mark, compress, ts, t, marked, mark)
    BY SplitOne
  <2> QED  BY <1>1, <2>1, Zenon DEF Moves
<1> QED  BY <1>1, <1>4, <1>5 DEF Splits

(* Texts behind each other. *)
LEMMA SplitThen ==
  ASSUME NEW C, NEW mark, NEW compress, NEW a, NEW b, NEW d,
         NEW p \in Seq(C), NEW q \in Seq(C),
         Splits(C, mark, compress, a, p, b), Splits(C, mark, compress, b, q, d)
  PROVE  Splits(C, mark, compress, a, p \o q, d)
BY SplitStays, RunOn DEF Splits

-----------------------------------------------------------------------------
(* raw.txt *)

(* c does not stand in text. *)
Free(text, c) == \A k \in 1 .. Len(text) : text[k] # c

(* It then stands in no part of it, nor in what two such texts make.       *)
LEMMA FreeParts ==
  ASSUME NEW C, NEW c, NEW p \in Seq(C), Free(p, c)
  PROVE  /\ \A m \in 0 .. Len(p) : SubSeq(p, 1, m) \in Seq(C) /\ Free(SubSeq(p, 1, m), c)
         /\ \A q \in Seq(C) : Free(q, c) => Free(p \o q, c)
<1>1. Len(p) \in Nat
  BY LenProperties
<1>2. ASSUME NEW m \in 0 .. Len(p)
      PROVE  SubSeq(p, 1, m) \in Seq(C) /\ Free(SubSeq(p, 1, m), c)
  <2>1. SubSeq(p, 1, m) \in Seq(C) /\ Len(SubSeq(p, 1, m)) = m
    BY CutOff
  <2>2. \A i \in 1 .. m : SubSeq(p, 1, m)[i] = p[i] /\ i \in 1 .. Len(p)
    BY <1>1
  <2> QED  BY <2>1, <2>2 DEF Free
<1>3. ASSUME NEW q \in Seq(C), Free(q, c) PROVE Free(p \o q, c)
  <2>1. PICK r : r = p \o q
    OBVIOUS
  <2>2. /\ Len(r) = Len(p) + Len(q) /\ Len(q) \in Nat
        /\ \A i \in 1 .. Len(p) + Len(q) : r[i] = IF i <= Len(p) THEN p[i] ELSE q[i - Len(p)]
    BY <2>1, ConcatProperties, LenProperties
  <2>3. ASSUME NEW i \in 1 .. Len(r) PROVE r[i] # c
    <3>1. i <= Len(p) => i \in 1 .. Len(p)
      BY <1>1, <2>2
    <3>2. ~(i <= Len(p)) => i - Len(p) \in 1 .. Len(q)
      BY <1>1, <2>2
    <3>3. r[i] = IF i <= Len(p) THEN p[i] ELSE q[i - Len(p)]
      BY <2>2
    <3> QED  BY <1>3, <3>1, <3>2, <3>3 DEF Free
  <2> QED  BY <2>1, <2>3 DEF Free
<1> QED  BY <1>2, <1>3

(* A list of one. *)
LEMMA FreeOne ==
  ASSUME NEW C, NEW x \in C, NEW c
  PROVE  <<x>> \in Seq(C) /\ (x # c => Free(<<x>>, c)) /\ Free(<<>>, c)
<1>1. Len(<<x>>) = 1 /\ <<x>>[1] = x /\ <<x>> \in Seq(C) /\ Len(<<>>) = 0
  BY EmptySeq
<1> QED  BY <1>1 DEF Free

(* Documents as they are parsed: texts, none with a newline in it. *)
Marks(C) == {Sep, Newline} \subseteq C
Docs(C) == [title : Seq(C), content : Seq(C), url : Seq(C)]
OneLine(C) == {doc \in Docs(C) : /\ Free(doc.title, Newline)
                                 /\ Free(doc.content, Newline)
                                 /\ Free(doc.url, Newline)}

(* A record is a line. *)
Line(doc) == doc.title \o <<Sep>> \o doc.content \o <<Sep>> \o doc.url
LineOf(C) == [doc \in OneLine(C) |-> Line(doc)]
RecordOf(C) == [doc \in OneLine(C) |-> Record(doc)]

(* A line has no newline in it, and a record is a line and a newline.     *)
LEMMA RecordIsLine ==
  ASSUME NEW C, Marks(C), NEW doc \in OneLine(C)
  PROVE  /\ Line(doc) \in Seq(C) /\ Free(Line(doc), Newline)
         /\ Record(doc) = Line(doc) \o <<Newline>> /\ Record(doc) \in Seq(C)
         /\ Len(Record(doc)) = Len(Line(doc)) + 1
<1>1. PICK t, c, u : t = doc.title /\ c = doc.content /\ u = doc.url
  OBVIOUS
<1>2. /\ t \in Seq(C) /\ c \in Seq(C) /\ u \in Seq(C)
      /\ Free(t, Newline) /\ Free(c, Newline) /\ Free(u, Newline)
  BY <1>1 DEF OneLine, Docs
<1>3. /\ <<Sep>> \in Seq(C) /\ Free(<<Sep>>, Newline)
      /\ <<Newline>> \in Seq(C)
  BY FreeOne, MarksAssumption DEF Marks
<1>4. t \o <<Sep>> \in Seq(C) /\ Free(t \o <<Sep>>, Newline)
  BY <1>2, <1>3, ConcatProperties, FreeParts
<1>5. t \o <<Sep>> \o c \in Seq(C) /\ Free(t \o <<Sep>> \o c, Newline)
  BY <1>2, <1>4, ConcatProperties, FreeParts
<1>6. t \o <<Sep>> \o c \o <<Sep>> \in Seq(C) /\ Free(t \o <<Sep>> \o c \o <<Sep>>, Newline)
  BY <1>3, <1>5, ConcatProperties, FreeParts
<1>7. /\ t \o <<Sep>> \o c \o <<Sep>> \o u \in Seq(C)
      /\ Free(t \o <<Sep>> \o c \o <<Sep>> \o u, Newline)
  BY <1>2, <1>6, ConcatProperties, FreeParts
<1>8. Line(doc) = t \o <<Sep>> \o c \o <<Sep>> \o u
  BY <1>1 DEF Line
<1>9. Record(doc) = Line(doc) \o <<Newline>>
  BY DEF Record, Line
<1>10. PICK line : line = Line(doc)
  OBVIOUS
<1>11. line \in Seq(C) /\ Free(line, Newline)
  BY <1>7, <1>8, <1>10
<1>12. Len(<<Newline>>) = 1
  OBVIOUS
<1>13. line \o <<Newline>> \in Seq(C) /\ Len(line \o <<Newline>>) = Len(line) + 1
  BY <1>3, <1>11, <1>12, ConcatProperties
<1> QED  BY <1>9, <1>10, <1>11, <1>13

(* The text of docs, and of the first v of them. *)
LEMMA SavedAsRecords ==
  ASSUME NEW C, NEW docs \in Seq(OneLine(C))
  PROVE  SavedText(docs) = FlatMap(RecordOf(C), docs)
<1>1. Mapped(RecordOf(C), docs) = [k \in DOMAIN docs |-> Record(docs[k])]
  <2>1. \A k \in DOMAIN docs : docs[k] \in OneLine(C)
    BY LenProperties, ElementOfSeq
  <2>2. \A k \in DOMAIN docs : RecordOf(C)[docs[k]] = Record(docs[k])
    BY <2>1 DEF RecordOf
  <2> QED  BY <2>2, Zenon DEF Mapped
<1> QED  BY <1>1 DEF SavedText, FlatMap

(* getline reads the lines of the records. *)
ReadsInto(C, text, ls, t) ==
  \E marked \in BOOLEAN :
    Splits(C, Newline, FALSE, In(<<>>, <<>>, FALSE), text, In(ls, t, marked))
LEMMA RecordsRead ==
  ASSUME NEW C, Marks(C), NEW docs \in Seq(OneLine(C))
  PROVE  ReadsInto(C, FlatMap(RecordOf(C), docs), Mapped(LineOf(C), docs), <<>>)
<1>1. PICK n, D, R, F : /\ n = Len(docs) /\ n \in Nat /\ D = OneLine(C)
                        /\ R = RecordOf(C) /\ F = LineOf(C)
  BY LenProperties
<1>2. R \in [D -> Seq(C)] /\ F \in [D -> Seq(C)]
  <2>1. \A doc \in D : Record(doc) \in Seq(C) /\ Line(doc) \in Seq(C)
    BY <1>1, RecordIsLine
  <2> QED  BY <1>1, <2>1 DEF RecordOf, LineOf
<1> DEFINE Upto(v) == SubSeq(docs, 1, v)
           G == {v \in 0 .. n : ReadsInto(C, FlatMap(R, Upto(v)), Mapped(F, Upto(v)), <<>>)}
<1>3. 0 \in G
  <2>1. Upto(0) = <<>> /\ <<>> \in Seq(D)
    BY SubSeqEmpty, EmptySeq
  <2>2. FlatMap(R, <<>>) = <<>>
    BY <1>2, <2>1, FlatMapped
  <2>3. Mapped(F, <<>>) = <<>>
    BY MappedNone
  <2>4. PICK a, X, step : /\ a = In(<<>>, <<>>, FALSE) /\ X = SplitStates(C)
                          /\ step = SplitRun(C, Newline, FALSE)
    OBVIOUS
  <2>5. a \in X
    BY <2>4, InIsState, EmptySeq
  <2>6. EndsIn(X, step, a, <<>>, a)
    BY <2>5, RunNowhere
  <2>7. Splits(C, Newline, FALSE, In(<<>>, <<>>, FALSE), <<>>, In(<<>>, <<>>, FALSE))
    BY <2>4, <2>6 DEF Splits
  <2>8. ReadsInto(C, <<>>, <<>>, <<>>)
    BY <2>7 DEF ReadsInto
  <2>9. 0 \in 0 .. n
    BY <1>1
  <2> QED  BY <2>1, <2>2, <2>3, <2>8, <2>9, Zenon
<1>4. ASSUME NEW v \in 0 .. n - 1, v \in G PROVE v + 1 \in G
  <2>1. PICK p, doc, text, ls, l :
          /\ p = Upto(v) /\ doc = docs[v + 1]
          /\ text = FlatMap(R, p) /\ ls = Mapped(F, p) /\ l = Line(doc)
    OBVIOUS
  <2>2. p \in Seq(D) /\ doc \in D /\ Upto(v + 1) = Append(p, doc)
    BY <1>1, <2>1, Grown
  <2>3. /\ text \in Seq(C) /\ FlatMap(R, Append(p, doc)) = text \o R[doc]
    <3>1. FlatMaps(R, p, doc)
      BY <1>2, <2>2, FlatMapped
    <3> QED  BY <1>2, <2>1, <2>2, <3>1, FlatMapped DEF FlatMaps
  <2>4. ls \in Seq(Seq(C)) /\ Mapped(F, Append(p, doc)) = Append(ls, F[doc])
    <3>1. MapsPushed(F, p, doc)
      BY <1>2, <2>2, MappedAppended
    <3> QED  BY <1>2, <2>1, <2>2, <3>1, MappedAppended DEF MapsPushed
  <2>5. /\ l \in Seq(C) /\ Free(l, Newline) /\ F[doc] = l
        /\ R[doc] = l \o <<Newline>> /\ <<Newline>> \in Seq(C)
    <3>1. F[doc] = l /\ R[doc] = Record(doc)
      BY <1>1, <2>1, <2>2 DEF LineOf, RecordOf
    <3>2. /\ Line(doc) \in Seq(C) /\ Free(Line(doc), Newline)
          /\ Record(doc) = Line(doc) \o <<Newline>>
      BY <1>1, <2>2, RecordIsLine
    <3>3. <<Newline>> \in Seq(C)
      BY FreeOne DEF Marks
    <3> QED  BY <2>1, <3>1, <3>2, <3>3
  <2>6. PICK m \in BOOLEAN :
          Splits(C, Newline, FALSE, In(<<>>, <<>>, FALSE), text, In(ls, <<>>, m))
    BY <1>4, <2>1 DEF ReadsInto
  <2>7. PICK k : k = (m /\ l = <<>>) /\ k \in BOOLEAN
    OBVIOUS
  <2>8. Splits(C, Newline, FALSE, In(ls, <<>>, m), l, In(ls, l, k))
    <3>1. <<>> \in Seq(C) /\ <<>> \o l = l
      BY <2>5, EmptySeq, ConcatEmptySeq
    <3>2. FALSE \in BOOLEAN /\ \A i \in 1 .. Len(l) : l[i] # Newline
      BY <2>5 DEF Free
    <3>3. Splits(C, Newline, FALSE, In(ls, <<>>, m), l, In(ls, <<>> \o l, m /\ l = <<>>))
      BY <2>4, <2>5, <3>1, <3>2, SplitOn
    <3> QED  BY <2>7, <3>1, <3>3
  <2>9. Splits(C, Newline, FALSE, In(ls, l, k), <<Newline>>, In(Append(ls, l), <<>>, TRUE))
    BY <2>4, <2>5, <2>7, SplitMark DEF Marks
  <2>10. Splits(C, Newline, FALSE, In(ls, <<>>, m), l \o <<Newline>>,
                In(Append(ls, l), <<>>, TRUE))
    BY <2>5, <2>8, <2>9, SplitThen
  <2>11. l \o <<Newline>> \in Seq(C)
    BY <2>5, ConcatProperties
  <2>12. Splits(C, Newline, FALSE, In(<<>>, <<>>, FALSE), text \o (l \o <<Newline>>),
                In(Append(ls, l), <<>>, TRUE))
    BY <2>3, <2>6, <2>10, <2>11, SplitThen
  <2>13. ReadsInto(C, text \o (l \o <<Newline>>), Append(ls, l), <<>>)
    BY <2>12 DEF ReadsInto
  <2>14. v + 1 \in 0 .. n
    BY <1>1
  <2>15. FlatMap(R, Upto(v + 1)) = text \o (l \o <<Newline>>) /\ Mapped(F, Upto(v + 1)) = Append(ls, l)
    BY <2>2, <2>3, <2>4, <2>5
  <2> HIDE DEF Upto
  <2> QED  BY <2>13, <2>14, <2>15
<1>5. n \in G
  <2> HIDE DEF G
  <2>1. 0 .. n \subseteq G
    BY <1>1, <1>3, <1>4, Counting
  <2> QED  BY <1>1, <2>1
<1>6. Upto(n) = docs
  BY <1>1, SubSeqFull
<1> QED  BY <1>1, <1>5, <1>6

(* What a disk that fills keeps of the text: whole records, and the first  *)
(* part of another's line.                                                 *)
Kept(C, docs, v, text, j, p) ==
  /\ j \in 0 .. v /\ p \in Seq(C) /\ Free(p, Newline)
  /\ text = FlatMap(RecordOf(C), SubSeq(docs, 1, j)) \o p
  /\ p # <<>> => /\ j < v
                 /\ \E r \in 0 .. Len(Line(docs[j + 1])) : p = SubSeq(Line(docs[j + 1]), 1, r)
LEMMA FirstPartKept ==
  ASSUME NEW C, Marks(C), NEW docs \in Seq(OneLine(C)),
         NEW m \in 0 .. Len(FlatMap(RecordOf(C), docs))
  PROVE  \E j, p : /\ Kept(C, docs, Len(docs), SubSeq(FlatMap(RecordOf(C), docs), 1, m), j, p)
                   /\ m = Len(FlatMap(RecordOf(C), docs)) => j = Len(docs) /\ p = <<>>
<1>1. PICK n, D, R : n = Len(docs) /\ n \in Nat /\ D = OneLine(C) /\ R = RecordOf(C)
  BY LenProperties
<1>2. R \in [D -> Seq(C)]
  BY <1>1, RecordIsLine DEF RecordOf
<1>3. <<>> \in Seq(C) /\ Free(<<>>, Newline)
  BY EmptyList, EmptySeq DEF Free
<1> DEFINE Upto(v) == SubSeq(docs, 1, v)
           Text(v) == FlatMap(R, Upto(v))
           Good(v, i) == \E j, p : Kept(C, docs, v, SubSeq(Text(v), 1, i), j, p)
           G == {v \in 0 .. n : \A i \in 0 .. Len(Text(v)) : Good(v, i)}
<1>4. ASSUME NEW v \in 0 .. n PROVE Upto(v) \in Seq(D) /\ Text(v) \in Seq(C)
  <2>1. Upto(v) \in Seq(D)
    BY <1>1, CutOff
  <2> QED  BY <1>2, <2>1, FlatMapped
<1>5. ASSUME NEW v \in 0 .. n PROVE Kept(C, docs, v, Text(v), v, <<>>)
  <2>1. Text(v) \o <<>> = Text(v)
    BY <1>4, ConcatEmptySeq
  <2>2. v \in 0 .. v
    BY <1>1
  <2> QED  BY <1>1, <1>3, <2>1, <2>2 DEF Kept
<1>6. ASSUME NEW v \in 0 .. n PROVE Good(v, Len(Text(v)))
  <2>1. SubSeq(Text(v), 1, Len(Text(v))) = Text(v)
    BY <1>4, SubSeqFull
  <2> HIDE DEF Text
  <2> QED  BY <1>5, <2>1
<1>7. 0 \in G
  <2>1. 0 \in 0 .. n
    BY <1>1
  <2>2. Upto(0) = <<>>
    BY SubSeqEmpty
  <2>3. Text(0) = <<>>
    <3>1. FlatMap(R, <<>>) = <<>>
      BY <1>2, EmptySeq, FlatMapped
    <3> QED  BY <2>2, <3>1
  <2>4. \A i \in 0 .. Len(Text(0)) : i = Len(Text(0))
    BY <2>3, EmptyList
  <2> HIDE DEF Good, Text
  <2> QED  BY <1>6, <2>1, <2>4
<1>8. ASSUME NEW v \in 0 .. n - 1, v \in G PROVE v + 1 \in G
  <2>1. v \in 0 .. n /\ v + 1 \in 0 .. n
    BY <1>1
  <2>2. PICK old, doc, line, rec, new :
          /\ old = Text(v) /\ doc = docs[v + 1] /\ line = Line(doc)
          /\ rec = Record(doc) /\ new = Text(v + 1)
    OBVIOUS
  <2>3. doc \in D /\ old \in Seq(C) /\ new = old \o rec
    <3>1. Upto(v) \in Seq(D) /\ doc \in D /\ Upto(v + 1) = Append(Upto(v), doc)
      BY <1>1, <2>2, Grown
    <3>2. FlatMaps(R, Upto(v), doc)
      BY <1>2, <3>1, FlatMapped
    <3>3. R[doc] = rec
      BY <1>1, <2>2, <3>1 DEF RecordOf
    <3> QED  BY <1>4, <2>1, <2>2, <3>1, <3>2, <3>3 DEF FlatMaps
  <2>4. /\ line \in Seq(C) /\ Free(line, Newline) /\ rec = line \o <<Newline>>
        /\ rec \in Seq(C) /\ Len(rec) = Len(line) + 1
    BY <1>1, <2>2, <2>3, RecordIsLine
  <2>5. /\ Len(old) \in Nat /\ Len(line) \in Nat /\ Len(rec) \in Nat
        /\ Len(new) = Len(old) + Len(rec) /\ Len(rec) = Len(line) + 1
    BY <2>3, <2>4, ConcatProperties, LenProperties
  <2>6. ASSUME NEW i \in 0 .. Len(new) PROVE Good(v + 1, i)
    <3>1. FirstPart(old, rec, i)
      BY <2>3, <2>4, <2>5, CutJoined
    <3>2. CASE i = Len(new)
      BY <1>6, <2>1, <2>2, <3>2
    <3>3. CASE i <= Len(old)
      <4>1. SubSeq(new, 1, i) = SubSeq(old, 1, i)
        BY <2>3, <3>1, <3>3 DEF FirstPart
      <4>2. PICK j, p : Kept(C, docs, v, SubSeq(old, 1, i), j, p)
        <5>1. i \in 0 .. Len(old)
          BY <2>5, <3>3
        <5> QED  BY <1>8, <2>2, <5>1
      <4>3. Kept(C, docs, v + 1, SubSeq(old, 1, i), j, p)
        <5>1. j \in 0 .. v + 1 /\ (j < v => j < v + 1)
          BY <1>1, <4>2 DEF Kept
        <5> QED  BY <4>2, <5>1 DEF Kept
      <4> QED  BY <2>2, <4>1, <4>3
    <3>4. CASE i > Len(old) /\ i # Len(new)
      <4>0. PICK r : r = i - Len(old)
        OBVIOUS
      <4>1. PICK p : p = SubSeq(line, 1, r)
        OBVIOUS
      <4>2. r \in 0 .. Len(line) /\ i >= Len(old)
        <5>1. PICK a, b, c : a = Len(old) /\ b = Len(line) /\ c = Len(new)
          OBVIOUS
        <5>2. a \in Nat /\ b \in Nat /\ c = a + (b + 1) /\ i \in 0 .. c
          BY <2>5, <5>1
        <5>3. i > a /\ i # c /\ r = i - a
          BY <3>4, <4>0, <5>1
        <5>4. r \in 0 .. b /\ i >= a
          BY <5>2, <5>3
        <5> QED  BY <5>1, <5>4
      <4>3. SubSeq(new, 1, i) = old \o SubSeq(rec, 1, r)
        BY <2>3, <3>1, <4>0, <4>2 DEF FirstPart
      <4>4. SubSeq(rec, 1, r) = p
        <5>1. <<Newline>> \in Seq(C) /\ Len(<<Newline>>) = 1
          BY FreeOne DEF Marks
        <5>2. r <= Len(line) /\ r \in 0 .. Len(line) + Len(<<Newline>>)
          BY <2>5, <4>2, <5>1
        <5>3. FirstPart(line, <<Newline>>, r)
          BY <2>4, <5>1, <5>2, CutJoined
        <5> QED  BY <2>4, <4>1, <5>2, <5>3 DEF FirstPart
      <4>5. p \in Seq(C) /\ Free(p, Newline)
        BY <2>4, <4>1, <4>2, FreeParts
      <4>6. Kept(C, docs, v + 1, SubSeq(new, 1, i), v, p)
        <5>1. v \in 0 .. v + 1 /\ v < v + 1
          BY <2>1
        <5>2. SubSeq(new, 1, i) = FlatMap(RecordOf(C), SubSeq(docs, 1, v)) \o p
          BY <1>1, <2>2, <4>3, <4>4
        <5>3. \E s \in 0 .. Len(Line(docs[v + 1])) : p = SubSeq(Line(docs[v + 1]), 1, s)
          BY <2>2, <4>1, <4>2
        <5> QED  BY <4>5, <5>1, <5>2, <5>3 DEF Kept
      <4> QED  BY <2>2, <4>6
    <3>5. i <= Len(old) \/ i > Len(old)
      BY <2>5
    <3> HIDE DEF Good
    <3> QED  BY <3>2, <3>3, <3>4, <3>5
  <2> HIDE DEF Good, Text
  <2> QED  BY <2>1, <2>2, <2>6
<1>9. 0 .. n \subseteq G
  <2> HIDE DEF G
  <2> QED  BY <1>1, <1>7, <1>8, Counting
<1>10. Upto(n) = docs
  BY <1>1, SubSeqFull
<1>11. n \in 0 .. n
  BY <1>1
<1>12. CASE m = Len(FlatMap(R, docs))
  <2>1. Kept(C, docs, n, FlatMap(R, docs), n, <<>>)
    BY <1>5, <1>10, <1>11
  <2>2. SubSeq(FlatMap(R, docs), 1, m) = FlatMap(R, docs)
    <3>1. FlatMap(R, docs) \in Seq(C)
      BY <1>4, <1>10, <1>11
    <3> QED  BY <1>12, <3>1, SubSeqFull
  <2> QED  BY <1>1, <2>1, <2>2
<1>13. CASE m # Len(FlatMap(R, docs))
  <2>1. n \in G
    <3> HIDE DEF G
    <3> QED  BY <1>9, <1>11
  <2>2. Good(n, m)
    BY <1>1, <1>10, <2>1
  <2> QED  BY <1>1, <1>10, <1>13, <2>2
<1> QED  BY <1>12, <1>13

(* What getline reads of it. *)
LEMMA LinesRead ==
  ASSUME NEW C, Marks(C), NEW docs \in Seq(OneLine(C)),
         NEW j \in 0 .. Len(docs), NEW p \in Seq(C), Free(p, Newline)
  PROVE  Lines(FlatMap(RecordOf(C), SubSeq(docs, 1, j)) \o p)
           = IF p = <<>> THEN Mapped(LineOf(C), SubSeq(docs, 1, j))
             ELSE Append(Mapped(LineOf(C), SubSeq(docs, 1, j)), p)
<1>1. PICK first, text, ls :
        /\ first = SubSeq(docs, 1, j) /\ text = FlatMap(RecordOf(C), first)
        /\ ls = Mapped(LineOf(C), first)
  OBVIOUS
<1>2. first \in Seq(OneLine(C))
  BY <1>1, CutOff
<1>3. text \in Seq(C) /\ ls \in Seq(Seq(C))
  <2>1. RecordOf(C) \in [OneLine(C) -> Seq(C)] /\ LineOf(C) \in [OneLine(C) -> Seq(C)]
    BY RecordIsLine DEF RecordOf, LineOf
  <2> QED  BY <1>1, <1>2, <2>1, FlatMapped, MappedAppended
<1>4. PICK m \in BOOLEAN :
        Splits(C, Newline, FALSE, In(<<>>, <<>>, FALSE), text, In(ls, <<>>, m))
  BY <1>1, <1>2, RecordsRead DEF ReadsInto
<1>5. PICK k : k = (m /\ p = <<>>) /\ k \in BOOLEAN
  OBVIOUS
<1>6. Splits(C, Newline, FALSE, In(ls, <<>>, m), p, In(ls, p, k))
  <2>1. <<>> \in Seq(C) /\ <<>> \o p = p
    BY EmptySeq, ConcatEmptySeq
  <2>2. FALSE \in BOOLEAN /\ \A i \in 1 .. Len(p) : p[i] # Newline
    BY DEF Free
  <2>3. Splits(C, Newline, FALSE, In(ls, <<>>, m), p, In(ls, <<>> \o p, m /\ p = <<>>))
    BY <1>3, <2>1, <2>2, SplitOn
  <2> QED  BY <1>5, <2>1, <2>3
<1>7. SplitText(text \o p, Newline, FALSE) = Append(ls, p)
  <2>0. PICK all : all = text \o p
    OBVIOUS
  <2>1. Splits(C, Newline, FALSE, In(<<>>, <<>>, FALSE), text \o p, In(ls, p, k))
    BY <1>3, <1>4, <1>6, SplitThen
  <2>2. text \o p \in Seq(C)
    BY <1>3, ConcatProperties
  <2>3. FALSE \in BOOLEAN
    OBVIOUS
  <2>4. all \in Seq(C) /\ Splits(C, Newline, FALSE, In(<<>>, <<>>, FALSE), all, In(ls, p, k))
    BY <2>0, <2>1, <2>2
  <2>5. SplitText(all, Newline, FALSE) = Append(ls, p)
    <3>1. SplitInto(all, Newline, FALSE, ls, p)
      BY <1>3, <1>5, <2>3, <2>4, SplitStart
    <3> QED  BY <3>1 DEF SplitInto
  <2> QED  BY <2>0, <2>5
<1>8. Front(Append(ls, p)) = ls /\ Last(Append(ls, p)) = p
  BY <1>3, FrontAndLast
<1>9. Lines(text \o p) = IF p = <<>> THEN ls ELSE Append(ls, p)
  BY <1>7, <1>8, Zenon DEF Lines
<1> QED  BY <1>1, <1>9

-----------------------------------------------------------------------------
(* The fields of a line *)

(* Splitting makes texts of a text. *)
LEMMA SplitTyped ==
  ASSUME NEW C, NEW mark, NEW compress \in BOOLEAN, NEW text \in Seq(C)
  PROVE  SplitText(text, mark, compress) \in Seq(Seq(C))
<1>1. PICK X, step, a :
        /\ X = SplitStates(C) /\ step = SplitRun(C, mark, compress)
        /\ a = In(<<>>, <<>>, FALSE)
  OBVIOUS
<1>2. a \in X /\ Steps(X, C, step)
  BY <1>1, InIsState, SplitStays, EmptySeq
<1>3. PICK g : FoldOf(X, step, a, text, g)
  BY <1>2, FoldExists
<1>4. PICK b : b = g[1 .. Len(text)]
  OBVIOUS
<1>5. b \in X /\ EndsIn(X, step, a, text, b)
  BY <1>2, <1>3, <1>4, FoldRuns DEF FoldOf
<1>6. b.tokens \in Seq(Seq(C)) /\ b.tokens # <<>> /\ b.marked \in BOOLEAN
      /\ b = [tokens |-> b.tokens, marked |-> b.marked]
  BY <1>1, <1>5 DEF SplitStates
<1>7. PICK ts \in Seq(Seq(C)), t \in Seq(C) : b.tokens = Append(ts, t)
  BY <1>6, SequenceEmptyOrAppend
<1>8. PICK m \in BOOLEAN : m = b.marked
  BY <1>6
<1>9. b = In(ts, t, m)
  BY <1>6, <1>7, <1>8 DEF In
<1>10. Splits(C, mark, compress, In(<<>>, <<>>, FALSE), text, In(ts, t, m))
  BY <1>1, <1>5, <1>9 DEF Splits
<1>11. SplitInto(text, mark, compress, ts, t)
  BY <1>10, SplitStart
<1> QED  BY <1>6, <1>7, <1>11 DEF SplitInto

(* How boost::split goes through a field, and on through a separator.      *)
Through(C, text, ts, t, m) ==
  Splits(C, Sep, TRUE, In(<<>>, <<>>, FALSE), text, In(ts, t, m))
LEMMA FieldThrough ==
  ASSUME NEW C, Marks(C), NEW text \in Seq(C), NEW ts \in Seq(Seq(C)),
         NEW m \in BOOLEAN, Through(C, text, ts, <<>>, m),
         NEW f \in Seq(C), Free(f, Sep)
  PROVE  /\ Through(C, text \o f, ts, f, m /\ f = <<>>)
         /\ f # <<>> \/ ~m => Through(C, text \o f \o <<Sep>>, Append(ts, f), <<>>, TRUE)
         /\ f = <<>> /\ m => Through(C, text \o f \o <<Sep>>, ts, <<>>, TRUE)
<1>1. PICK k : k = (m /\ f = <<>>) /\ k \in BOOLEAN
  OBVIOUS
<1>2. PICK yes, start : yes = TRUE /\ yes \in BOOLEAN /\ start = In(<<>>, <<>>, FALSE)
  OBVIOUS
<1>3. Splits(C, Sep, yes, In(ts, <<>>, m), f, In(ts, f, k))
  <2>1. <<>> \in Seq(C) /\ <<>> \o f = f
    BY EmptySeq, ConcatEmptySeq
  <2>2. \A i \in 1 .. Len(f) : f[i] # Sep
    BY DEF Free
  <2>3. Splits(C, Sep, yes, In(ts, <<>>, m), f, In(ts, <<>> \o f, m /\ f = <<>>))
    BY <1>2, <2>1, <2>2, SplitOn
  <2> QED  BY <1>1, <2>1, <2>3
<1>4. PICK more, sep : more = text \o f /\ sep = <<Sep>>
  OBVIOUS
<1>5. more \in Seq(C) /\ sep \in Seq(C)
  BY <1>4, ConcatProperties, FreeOne DEF Marks
<1>6. Splits(C, Sep, yes, start, more, In(ts, f, k))
  <2>1. Splits(C, Sep, yes, start, text, In(ts, <<>>, m))
    BY <1>2 DEF Through
  <2> QED  BY <1>3, <1>4, <2>1, SplitThen
<1>7. ASSUME f # <<>> \/ ~m
      PROVE  Splits(C, Sep, yes, start, more \o sep, In(Append(ts, f), <<>>, TRUE))
  <2>1. ~(yes /\ k)
    BY <1>1, <1>7
  <2>2. Splits(C, Sep, yes, In(ts, f, k), sep, In(Append(ts, f), <<>>, TRUE))
    BY <1>1, <1>2, <1>4, <2>1, SplitMark DEF Marks
  <2> QED  BY <1>5, <1>6, <2>2, SplitThen
<1>8. ASSUME f = <<>>, m
      PROVE  Splits(C, Sep, yes, start, more \o sep, In(ts, <<>>, TRUE))
  <2>1. k = TRUE /\ yes /\ k
    BY <1>1, <1>2, <1>8
  <2>2. Splits(C, Sep, yes, In(ts, f, k), sep, In(ts, f, k))
    BY <1>1, <1>2, <1>4, <2>1, SplitMark DEF Marks
  <2>3. Splits(C, Sep, yes, start, more \o sep, In(ts, f, k))
    BY <1>5, <1>6, <2>2, SplitThen
  <2> QED  BY <1>8, <2>1, <2>3
<1>9. Through(C, more, ts, f, m /\ f = <<>>)
  BY <1>1, <1>2, <1>6, Zenon DEF Through
<1>10. f # <<>> \/ ~m => Through(C, more \o sep, Append(ts, f), <<>>, TRUE)
  BY <1>2, <1>7, Zenon DEF Through
<1>11. f = <<>> /\ m => Through(C, more \o sep, ts, <<>>, TRUE)
  BY <1>2, <1>8, Zenon DEF Through
<1> QED  BY <1>4, <1>9, <1>10, <1>11, Zenon

(* What Split makes of what it has been through. *)
Parted(text, ts, f) == Split(text) = Append(ts, f)
LEMMA SplitThrough ==
  ASSUME NEW C, NEW text \in Seq(C), NEW ts \in Seq(Seq(C)), NEW f \in Seq(C),
         NEW m \in BOOLEAN, Through(C, text, ts, f, m)
  PROVE  Parted(text, ts, f)
<1>1. PICK yes : yes = TRUE /\ yes \in BOOLEAN
  OBVIOUS
<1>2. Splits(C, Sep, yes, In(<<>>, <<>>, FALSE), text, In(ts, f, m))
  BY <1>1 DEF Through
<1>3. SplitInto(text, Sep, yes, ts, f)
  BY <1>1, <1>2, SplitStart
<1> QED  BY <1>1, <1>3, Zenon DEF SplitInto, Split, Parted

(* What Split makes of the first parts of a line. *)
LEMMA LineSplit ==
  ASSUME NEW C, Marks(C), NEW t \in Seq(C), NEW c \in Seq(C), NEW u \in Seq(C),
         Free(t, Sep), Free(c, Sep), Free(u, Sep)
  PROVE  /\ Split(t) = <<t>>
         /\ Split(t \o <<Sep>> \o c) = <<t, c>>
         /\ Split(t \o <<Sep>> \o c \o <<Sep>> \o u)
              = IF c = <<>> THEN <<t, u>> ELSE <<t, c, u>>
<1>1. /\ <<>> \in Seq(C) /\ <<>> \in Seq(Seq(C)) /\ <<Sep>> \in Seq(C)
      /\ <<t>> \in Seq(Seq(C)) /\ <<t, c>> \in Seq(Seq(C))
      /\ Append(<<>>, t) = <<t>> /\ Append(<<t>>, c) = <<t, c>>
      /\ Append(<<t>>, u) = <<t, u>> /\ Append(<<t, c>>, u) = <<t, c, u>>
      /\ <<>> \o t = t
  <2>1. <<Sep>> \in Seq(C)
    BY FreeOne DEF Marks
  <2>2. <<>> \o t = t
    BY ConcatEmptySeq
  <2>3. PICK T : T = Seq(C) /\ <<>> \in T /\ t \in T /\ c \in T /\ u \in T
    BY EmptySeq
  <2>4. <<t>> \in Seq(T) /\ <<t, c>> \in Seq(T) /\ <<>> \in Seq(T)
    BY <2>3
  <2>5. /\ Append(<<>>, t) = <<t>> /\ Append(<<t>>, c) = <<t, c>>
        /\ Append(<<t>>, u) = <<t, u>> /\ Append(<<t, c>>, u) = <<t, c, u>>
    BY <2>3, AppendedToNone, AppendedToOne, AppendedToTwo
  <2> QED  BY <2>1, <2>2, <2>3, <2>4, <2>5
<1>3. Through(C, <<>>, <<>>, <<>>, FALSE)
  <2>1. PICK a, X, step : /\ a = In(<<>>, <<>>, FALSE) /\ X = SplitStates(C)
                          /\ step = SplitRun(C, Sep, TRUE)
    OBVIOUS
  <2>2. a \in X
    BY <2>1, InIsState, EmptySeq
  <2>3. EndsIn(X, step, a, <<>>, a)
    BY <2>2, RunNowhere
  <2> QED  BY <2>1, <2>3 DEF Splits, Through
<1>4. PICK no, yes : no = FALSE /\ yes = TRUE /\ no \in BOOLEAN /\ yes \in BOOLEAN
  OBVIOUS
<1>5. PICK A, B, E : /\ A = t \o <<Sep>> /\ B = A \o c /\ E = B \o <<Sep>>
  OBVIOUS
<1>6. A \in Seq(C) /\ B \in Seq(C) /\ E \in Seq(C) /\ E \o u \in Seq(C)
  BY <1>1, <1>5, ConcatProperties
<1>7. Through(C, t, <<>>, t, no) /\ Through(C, A, <<t>>, <<>>, yes)
  <2>1. /\ Through(C, <<>> \o t, <<>>, t, no /\ t = <<>>)
        /\ t # <<>> \/ ~no =>
             Through(C, <<>> \o t \o <<Sep>>, Append(<<>>, t), <<>>, TRUE)
    BY <1>1, <1>3, <1>4, FieldThrough
  <2>2. (no /\ t = <<>>) = no
    BY <1>4
  <2> QED  BY <1>1, <1>4, <1>5, <2>1, <2>2
<1>8. PICK k : k = (yes /\ c = <<>>) /\ k \in BOOLEAN
  OBVIOUS
<1>9. /\ Through(C, B, <<t>>, c, k)
      /\ c # <<>> => Through(C, E, <<t, c>>, <<>>, yes)
      /\ c = <<>> => Through(C, E, <<t>>, <<>>, yes)
  <2>1. /\ Through(C, A \o c, <<t>>, c, yes /\ c = <<>>)
        /\ c # <<>> \/ ~yes => Through(C, A \o c \o <<Sep>>, Append(<<t>>, c), <<>>, TRUE)
        /\ c = <<>> /\ yes => Through(C, A \o c \o <<Sep>>, <<t>>, <<>>, TRUE)
    BY <1>1, <1>4, <1>6, <1>7, FieldThrough
  <2> QED  BY <1>1, <1>4, <1>5, <1>8, <2>1
<1>10. PICK l : l = (yes /\ u = <<>>) /\ l \in BOOLEAN
  OBVIOUS
<1>11. /\ c # <<>> => Through(C, E \o u, <<t, c>>, u, l)
       /\ c = <<>> => Through(C, E \o u, <<t>>, u, l)
  <2>1. c # <<>> => Through(C, E \o u, <<t, c>>, u, yes /\ u = <<>>)
    BY <1>1, <1>4, <1>6, <1>9, FieldThrough
  <2>2. c = <<>> => Through(C, E \o u, <<t>>, u, yes /\ u = <<>>)
    BY <1>1, <1>4, <1>6, <1>9, FieldThrough
  <2> QED  BY <1>10, <2>1, <2>2
<1>12. Split(t) = <<t>>
  <2>1. Parted(t, <<>>, t)
    BY <1>1, <1>4, <1>7, SplitThrough
  <2> QED  BY <1>1, <2>1 DEF Parted
<1>13. Split(B) = <<t, c>>
  <2>1. Parted(B, <<t>>, c)
    BY <1>1, <1>6, <1>8, <1>9, SplitThrough
  <2> QED  BY <1>1, <2>1 DEF Parted
<1>14. Split(E \o u) = IF c = <<>> THEN <<t, u>> ELSE <<t, c, u>>
  <2>1. CASE c = <<>>
    <3>1. Parted(E \o u, <<t>>, u)
      BY <1>1, <1>6, <1>10, <1>11, <2>1, SplitThrough
    <3> QED  BY <1>1, <2>1, <3>1 DEF Parted
  <2>2. CASE c # <<>>
    <3>1. Parted(E \o u, <<t, c>>, u)
      BY <1>1, <1>6, <1>10, <1>11, <2>2, SplitThrough
    <3> QED  BY <1>1, <2>2, <3>1 DEF Parted
  <2> QED  BY <2>1, <2>2
<1> QED  BY <1>5, <1>12, <1>13, <1>14, Zenon

(* What a line is the first part of: a title, a title and a content, or    *)
(* both and a url.                                                         *)
PartOf(C, t, c, u, p) ==
  \/ Free(p, Sep)
  \/ \E d \in Seq(C) : Free(d, Sep) /\ p = t \o <<Sep>> \o d
  \/ \E s \in Seq(C) : /\ Free(s, Sep) /\ IsPrefix(s, u)
                       /\ p = t \o <<Sep>> \o c \o <<Sep>> \o s
LEMMA LineParts ==
  ASSUME NEW C, Marks(C), NEW t \in Seq(C), NEW c \in Seq(C), NEW u \in Seq(C),
         Free(t, Sep), Free(c, Sep), Free(u, Sep),
         NEW r \in 0 .. Len(t \o <<Sep>> \o c \o <<Sep>> \o u)
  PROVE  /\ SubSeq(t \o <<Sep>> \o c \o <<Sep>> \o u, 1, r) \in Seq(C)
         /\ PartOf(C, t, c, u, SubSeq(t \o <<Sep>> \o c \o <<Sep>> \o u, 1, r))
<1>1. PICK one, A, B, E, all :
        /\ one = <<Sep>> /\ A = t \o one /\ B = A \o c /\ E = B \o one
        /\ all = E \o u
  OBVIOUS
<1>2. one \in Seq(C) /\ Len(one) = 1
  BY <1>1, FreeOne DEF Marks
<1>3. /\ A \in Seq(C) /\ Len(A) = Len(t) + 1
      /\ B \in Seq(C) /\ Len(B) = Len(A) + Len(c)
      /\ E \in Seq(C) /\ Len(E) = Len(B) + 1
      /\ all \in Seq(C) /\ Len(all) = Len(E) + Len(u)
  BY <1>1, <1>2, ConcatProperties
<1>4. PICK lt, lc, lu : /\ lt = Len(t) /\ lc = Len(c) /\ lu = Len(u)
                        /\ lt \in Nat /\ lc \in Nat /\ lu \in Nat
  BY LenProperties
<1>5. /\ Len(A) = lt + 1 /\ Len(B) = lt + 1 + lc /\ Len(E) = lt + 1 + lc + 1
      /\ Len(all) = lt + 1 + lc + 1 + lu /\ r \in 0 .. lt + 1 + lc + 1 + lu
  BY <1>1, <1>3, <1>4
<1>6. PICK p : p = SubSeq(all, 1, r)
  OBVIOUS
<1>7. p \in Seq(C)
  BY <1>1, <1>3, <1>6, CutOff
<1>8. CASE r >= lt + 1 + lc + 1
  <2>1. PICK n : n = r - (lt + 1 + lc + 1) /\ n \in 0 .. lu
    BY <1>4, <1>5, <1>8
  <2>2. FirstPart(E, u, r)
    BY <1>3, <1>4, <1>5, CutJoined
  <2>3. p = E \o SubSeq(u, 1, n)
    BY <1>1, <1>5, <1>6, <1>8, <2>1, <2>2 DEF FirstPart
  <2>4. PICK s : s = SubSeq(u, 1, n)
    OBVIOUS
  <2>5. s \in Seq(C) /\ Len(s) = n /\ Free(s, Sep)
    <3>1. n \in 0 .. Len(u)
      BY <1>4, <2>1
    <3>2. s \in Seq(C) /\ Len(s) = n
      BY <2>4, <3>1, CutOff
    <3>3. Free(s, Sep)
      BY <2>4, <3>1, FreeParts
    <3> QED  BY <3>2, <3>3
  <2>6. SubSeq(s, 1, Len(s)) = SubSeq(u, 1, Len(s))
    <3>1. SubSeq(s, 1, Len(s)) = s
      BY <2>5, SubSeqFull
    <3> QED  BY <2>4, <2>5, <3>1
  <2>7. IsPrefix(s, u)
    BY <1>4, <2>1, <2>5, <2>6 DEF IsPrefix
  <2> QED  BY <1>1, <1>6, <1>7, <2>3, <2>4, <2>5, <2>7 DEF PartOf
<1>9. CASE r <= lt + 1 + lc
  <2>1. p = SubSeq(B, 1, r)
    <3>1. FirstPart(E, u, r)
      BY <1>3, <1>4, <1>5, CutJoined
    <3>2. p = SubSeq(E, 1, r)
      BY <1>1, <1>4, <1>5, <1>6, <1>9, <3>1 DEF FirstPart
    <3>3. FirstPart(B, one, r)
      <4>1. r \in 0 .. Len(B) + Len(one)
        BY <1>2, <1>4, <1>5, <1>9
      <4> QED  BY <1>2, <1>3, <4>1, CutJoined
    <3> QED  BY <1>1, <1>5, <1>9, <3>2, <3>3 DEF FirstPart
  <2>2. FirstPart(A, c, r)
    <3>1. r \in 0 .. Len(A) + Len(c)
      BY <1>4, <1>5, <1>9
    <3> QED  BY <1>3, <3>1, CutJoined
  <2>3. CASE r >= lt + 1
    <3>1. PICK n : n = r - (lt + 1) /\ n \in 0 .. lc
      BY <1>4, <1>5, <1>9, <2>3
    <3>2. PICK d : d = SubSeq(c, 1, n)
      OBVIOUS
    <3>3. d \in Seq(C) /\ Free(d, Sep)
      BY <1>4, <3>1, <3>2, CutOff, FreeParts
    <3>4. p = A \o d
      BY <1>1, <1>5, <2>1, <2>2, <2>3, <3>1, <3>2 DEF FirstPart
    <3> QED  BY <1>1, <1>6, <1>7, <3>3, <3>4 DEF PartOf
  <2>4. CASE r <= lt
    <3>1. p = SubSeq(A, 1, r)
      BY <1>1, <1>4, <1>5, <2>1, <2>2, <2>4 DEF FirstPart
    <3>2. FirstPart(t, one, r)
      <4>1. r \in 0 .. Len(t) + Len(one)
        BY <1>2, <1>4, <1>5, <2>4
      <4> QED  BY <1>2, <4>1, CutJoined
    <3>3. p = SubSeq(t, 1, r)
      BY <1>1, <1>4, <2>4, <3>1, <3>2 DEF FirstPart
    <3>4. r \in 0 .. Len(t)
      BY <1>4, <1>5, <2>4
    <3>5. Free(p, Sep)
      BY <3>3, <3>4, FreeParts
    <3> QED  BY <1>1, <1>6, <1>7, <3>5 DEF PartOf
  <2>5. r >= lt + 1 \/ r <= lt
    BY <1>4, <1>5
  <2> QED  BY <2>3, <2>4, <2>5
<1>10. r >= lt + 1 + lc + 1 \/ r <= lt + 1 + lc
  BY <1>4, <1>5
<1> QED  BY <1>8, <1>9, <1>10

(* What BuildForwardIndex makes of a line, and of a document's whole line. *)
Took(C) == [line \in Seq(C) |->
  IF Len(Split(line)) = 3
  THEN <<[title |-> Split(line)[1], content |-> Split(line)[2], url |-> Split(line)[3]]>>
  ELSE <<>>]
UnitOf(C) == [doc \in OneLine(C) |-> IF doc.content = <<>> THEN <<>> ELSE <<doc>>]

(* They are lists of documents. *)
LEMMA TookTyped ==
  ASSUME NEW C
  PROVE  /\ Took(C) \in [Seq(C) -> Seq(Docs(C))]
         /\ UnitOf(C) \in [OneLine(C) -> Seq(Docs(C))]
<1>1. ASSUME NEW line \in Seq(C)
      PROVE  Took(C)[line] \in Seq(Docs(C))
  <2>1. PICK q : q = Split(line)
    OBVIOUS
  <2>2. q \in Seq(Seq(C))
    BY <2>1, SplitTyped DEF Split
  <2>3. CASE Len(q) = 3
    <3>1. q[1] \in Seq(C) /\ q[2] \in Seq(C) /\ q[3] \in Seq(C)
      <4>1. 1 \in 1 .. Len(q) /\ 2 \in 1 .. Len(q) /\ 3 \in 1 .. Len(q)
        BY <2>3
      <4>2. \A n \in 1 .. Len(q) : q[n] \in Seq(C)
        BY <2>2, ElementOfSeq
      <4> QED  BY <4>1, <4>2
    <3>2. PICK d : d = [title |-> q[1], content |-> q[2], url |-> q[3]]
      OBVIOUS
    <3>3. d \in Docs(C)
      BY <3>1, <3>2 DEF Docs
    <3>4. Took(C)[line] = <<d>>
      BY <2>1, <2>3, <3>2, Zenon DEF Took
    <3> QED  BY <3>3, <3>4
  <2>4. CASE Len(q) # 3
    <3>1. Took(C)[line] = <<>>
      BY <2>1, <2>4, Zenon DEF Took
    <3> QED  BY <3>1, EmptySeq
  <2> QED  BY <2>3, <2>4
<1>2. ASSUME NEW doc \in OneLine(C)
      PROVE  UnitOf(C)[doc] \in Seq(Docs(C))
  <2>1. doc \in Docs(C)
    BY DEF OneLine
  <2>2. CASE doc.content = <<>>
    BY <2>2, EmptySeq DEF UnitOf
  <2>3. CASE doc.content # <<>>
    <3>1. UnitOf(C)[doc] = <<doc>>
      BY <2>3 DEF UnitOf
    <3> QED  BY <2>1, <3>1
  <2> QED  BY <2>2, <2>3
<1>3. Took(C) = [line \in Seq(C) |-> Took(C)[line]]
  BY Zenon DEF Took
<1>4. UnitOf(C) = [doc \in OneLine(C) |-> UnitOf(C)[doc]]
  BY Zenon DEF UnitOf
<1> QED  BY <1>1, <1>2, <1>3, <1>4, Zenon

(* A line of three tokens, and of another number of them. *)
TakenFrom(C, line, ts) ==
  Took(C)[line] = IF Len(ts) = 3
                  THEN <<[title |-> ts[1], content |-> ts[2], url |-> ts[3]]>>
                  ELSE <<>>
LEMMA Taking ==
  ASSUME NEW C, NEW line \in Seq(C), NEW ts, Split(line) = ts
  PROVE  TakenFrom(C, line, ts)
BY Zenon DEF Took, TakenFrom

(* Of a document's line and of its first parts: the document, if it has a  *)
(* content, with a first part of its url; or nothing.                      *)
TookLine(C, doc) == Took(C)[Line(doc)] = UnitOf(C)[doc]
TookPart(C, doc, p) ==
  \/ Took(C)[p] = <<>>
  \/ \E s \in Seq(C) : /\ doc.content # <<>> /\ IsPrefix(s, doc.url)
                       /\ Took(C)[p] = <<[doc EXCEPT !.url = s]>>
LEMMA LineTaken ==
  ASSUME NEW C, Marks(C), NEW doc \in OneLine(C),
         Free(doc.title, Sep), Free(doc.content, Sep), Free(doc.url, Sep)
  PROVE  /\ TookLine(C, doc)
         /\ \A r \in 0 .. Len(Line(doc)) : TookPart(C, doc, SubSeq(Line(doc), 1, r))
<1>1. PICK t, c, u : t = doc.title /\ c = doc.content /\ u = doc.url
  OBVIOUS
<1>2. /\ t \in Seq(C) /\ c \in Seq(C) /\ u \in Seq(C)
      /\ Free(t, Sep) /\ Free(c, Sep) /\ Free(u, Sep)
      /\ doc = [title |-> t, content |-> c, url |-> u]
  BY <1>1 DEF OneLine, Docs
<1>3. Line(doc) = t \o <<Sep>> \o c \o <<Sep>> \o u /\ Line(doc) \in Seq(C)
  <2>1. Line(doc) \in Seq(C)
    BY RecordIsLine
  <2> QED  BY <1>1, <2>1, Zenon DEF Line
<1>4. Len(<<t, u>>) = 2 /\ \A x : Len(<<x>>) = 1 /\ \A y : Len(<<x, y>>) = 2
  OBVIOUS
<1>5. ASSUME NEW s \in Seq(C), Free(s, Sep), NEW p \in Seq(C),
             p = t \o <<Sep>> \o c \o <<Sep>> \o s
      PROVE  /\ c = <<>> => Took(C)[p] = <<>>
             /\ c # <<>> => Took(C)[p] = <<[doc EXCEPT !.url = s]>>
  <2>1. Split(p) = IF c = <<>> THEN <<t, s>> ELSE <<t, c, s>>
    BY <1>2, <1>5, LineSplit
  <2>2. CASE c = <<>>
    <3>1. PICK q : q = <<t, s>>
      OBVIOUS
    <3>2. Split(p) = q /\ Len(q) = 2
      BY <2>1, <2>2, <3>1
    <3>3. TakenFrom(C, p, q)
      BY <3>2, Taking
    <3> QED  BY <2>2, <3>2, <3>3 DEF TakenFrom
  <2>3. CASE c # <<>>
    <3>1. PICK q : q = <<t, c, s>>
      OBVIOUS
    <3>2. Split(p) = q /\ Len(q) = 3 /\ q[1] = t /\ q[2] = c /\ q[3] = s
      BY <2>1, <2>3, <3>1
    <3>3. TakenFrom(C, p, q)
      BY <3>2, Taking
    <3>4. Took(C)[p] = <<[title |-> t, content |-> c, url |-> s]>>
      BY <3>2, <3>3 DEF TakenFrom
    <3>5. [doc EXCEPT !.url = s] = [title |-> t, content |-> c, url |-> s]
      BY <1>2
    <3> QED  BY <2>3, <3>4, <3>5
  <2> QED  BY <2>2, <2>3
<1>6. TookLine(C, doc)
  <2>1. [doc EXCEPT !.url = u] = doc
    BY <1>2
  <2>2. /\ c = <<>> => Took(C)[Line(doc)] = <<>>
        /\ c # <<>> => Took(C)[Line(doc)] = <<doc>>
    BY <1>2, <1>3, <1>5, <2>1
  <2>3. UnitOf(C)[doc] = IF c = <<>> THEN <<>> ELSE <<doc>>
    BY <1>1, Zenon DEF UnitOf
  <2> QED  BY <2>2, <2>3 DEF TookLine
<1>7. ASSUME NEW r \in 0 .. Len(Line(doc)), NEW p, p = SubSeq(Line(doc), 1, r)
      PROVE  TookPart(C, doc, p)
  <2>1. p \in Seq(C) /\ PartOf(C, t, c, u, p)
    BY <1>2, <1>3, <1>7, LineParts
  <2>2. CASE Free(p, Sep)
    <3>1. PICK q : q = <<p>>
      OBVIOUS
    <3>2. Split(p) = q /\ Len(q) = 1
      BY <1>2, <2>1, <2>2, <3>1, LineSplit
    <3>3. TakenFrom(C, p, q)
      BY <2>1, <3>2, Taking
    <3> QED  BY <3>2, <3>3 DEF TakenFrom, TookPart
  <2>3. ASSUME NEW d \in Seq(C), Free(d, Sep), p = t \o <<Sep>> \o d
        PROVE  TookPart(C, doc, p)
    <3>1. PICK q : q = <<t, d>>
      OBVIOUS
    <3>2. Split(p) = q /\ Len(q) = 2
      BY <1>2, <2>1, <2>3, <3>1, LineSplit
    <3>3. TakenFrom(C, p, q)
      BY <2>1, <3>2, Taking
    <3> QED  BY <3>2, <3>3 DEF TakenFrom, TookPart
  <2>4. ASSUME NEW s \in Seq(C), Free(s, Sep), IsPrefix(s, u),
               p = t \o <<Sep>> \o c \o <<Sep>> \o s
        PROVE  TookPart(C, doc, p)
    <3>1. /\ c = <<>> => Took(C)[p] = <<>>
          /\ c # <<>> => Took(C)[p] = <<[doc EXCEPT !.url = s]>>
      BY <1>5, <2>1, <2>4
    <3> QED  BY <1>1, <2>4, <3>1, Zenon DEF TookPart
  <2> QED  BY <2>1, <2>2, <2>3, <2>4 DEF PartOf
<1> QED  BY <1>6, <1>7

-----------------------------------------------------------------------------
(* Parsing *)

(* A text stands somewhere in another. *)
HeldAt(p, q, m) ==
  m \in Nat /\ m + Len(p) <= Len(q) /\ \A k \in 1 .. Len(p) : q[m + k] = p[k]
HeldIn(p, q) == \E m : HeldAt(p, q, m)

(* The characters that any text can be made of, and the documents: texts   *)
(* without a newline, whose urls have no separator either and whose titles *)
(* are part of the content when they have no tag.                          *)
Chars == (UNION {Range(f.page) \cup {f.path} : f \in UNION (Sites \ {NoSite})})
           \cup {UrlHead, Blank, Sep, Newline}
TitleRead(t, c) == {OpenTag, OpenTitle} \cap Range(t) = {} => HeldIn(t, c)
Documents ==
  {doc \in OneLine(Chars) : Free(doc.url, Sep) /\ TitleRead(doc.title, doc.content)}

(* The characters but the newline. *)
Plain == Chars \ {Newline}

(* The marks are among the characters. *)
LEMMA CharsMarks ==
  Marks(Chars) /\ Blank \in Plain /\ UrlHead \in Plain
<1>1. PICK U : U = UNION {Range(f.page) \cup {f.path} : f \in UNION (Sites \ {NoSite})}
  OBVIOUS
<1>2. Chars = U \cup {UrlHead, Blank, Sep, Newline}
  BY <1>1, Zenon DEF Chars
<1> QED  BY <1>2, MarksAssumption DEF Marks, Plain

(* A text of plain characters has no newline. *)
LEMMA PlainText ==
  ASSUME NEW text \in Seq(Plain)
  PROVE  text \in Seq(Chars) /\ Free(text, Newline)
<1>1. text \in Seq(Chars)
  BY Widened DEF Plain
<1>2. \A k \in 1 .. Len(text) : text[k] \in Plain
  BY ElementOfSeq
<1> QED  BY <1>1, <1>2 DEF Free, Plain

(* The files of a site. *)
LEMMA FileTexts ==
  ASSUME NEW s \in Sites, s # NoSite, NEW f \in s
  PROVE  /\ f.page \in Seq(Chars)
         /\ f.path \in Plain /\ f.path # Sep
<1>1. f.page \in Seq(Range(f.page)) /\ f.path \notin {Sep, Newline}
  BY SitesAssumption
<1>2. f \in UNION (Sites \ {NoSite})
  OBVIOUS
<1>3. PICK R : R = Range(f.page)
  OBVIOUS
<1>4. R \subseteq Chars /\ f.path \in Chars
  <2>1. PICK U : U = {Range(h.page) \cup {h.path} : h \in UNION (Sites \ {NoSite})}
    OBVIOUS
  <2>2. R \cup {f.path} \in U
    BY <1>2, <1>3, <2>1, Zenon
  <2>3. Chars = (UNION U) \cup {UrlHead, Blank, Sep, Newline}
    BY <2>1, Zenon DEF Chars
  <2> QED  BY <2>2, <2>3
<1>5. f.page \in Seq(Chars)
  BY <1>1, <1>3, <1>4, Widened
<1> QED  BY <1>1, <1>4, <1>5 DEF Plain

(* ReadFile leaves the newlines out. *)
LEMMA ReadWithoutNewlines ==
  ASSUME NEW f, f.page \in Seq(Chars)
  PROVE  ReadFile(f) \in Seq(Plain)
<1>1. PICK p : p = f.page /\ p \in Seq(Chars)
  OBVIOUS
<1>2. PICK F : F = [c \in Chars |-> IF c = Newline THEN <<>> ELSE <<c>>]
  OBVIOUS
<1>3. F \in [Chars -> Seq(Plain)]
  <2>1. \A c \in Chars : c # Newline => <<c>> \in Seq(Plain)
    BY FreeOne DEF Plain
  <2>2. <<>> \in Seq(Plain)
    BY EmptySeq
  <2> QED  BY <1>2, <2>1, <2>2
<1>4. ReadFile(f) = FlatMap(F, p)
  <2>1. \A k \in DOMAIN p : p[k] \in Chars
    BY <1>1, LenProperties, ElementOfSeq
  <2>2. \A k \in DOMAIN p : F[p[k]] = IF p[k] = Newline THEN <<>> ELSE <<p[k]>>
    BY <1>2, <2>1, Zenon
  <2>3. Mapped(F, p) = [k \in DOMAIN p |-> IF p[k] = Newline THEN <<>> ELSE <<p[k]>>]
    BY <2>2, Zenon DEF Mapped
  <2> QED  BY <1>1, <2>3, Zenon DEF ReadFile, FlatMap
<1>5. FlatMap(F, p) \in Seq(Plain)
  BY <1>1, <1>3, FlatMapped
<1> QED  BY <1>4, <1>5

(* The title stands between the first of either mark. *)
TitleAt(text, i, j) ==
  /\ i \in 1 .. Len(text) /\ j \in 1 .. Len(text) /\ i < j
  /\ text[i] = OpenTitle
  /\ \A k \in 1 .. Len(text) : text[k] = CloseTitle => j <= k
  /\ ParseTitle(text) = SubSeq(text, i + 1, j - 1)
LEMMA TitleMarks ==
  ASSUME NEW text \in Seq(Plain), HasTitle(text)
  PROVE  \E i, j : TitleAt(text, i, j)
<1>1. PICK i, j : /\ i = SelectInSeq(text, LAMBDA c : c = OpenTitle)
                  /\ j = SelectInSeq(text, LAMBDA c : c = CloseTitle)
  OBVIOUS
<1> DEFINE I(m) == {k \in 1 .. Len(text) : text[k] = m}
<1>2. ASSUME NEW m, m \in Range(text)
      PROVE  I(m) # {} /\ Min(I(m)) \in I(m) /\ \A y \in I(m) : Min(I(m)) <= y
  <2>1. DOMAIN text = 1 .. Len(text) /\ Len(text) \in Nat
    BY LenProperties
  <2>2. I(m) # {} /\ I(m) \subseteq Nat
    BY <1>2, <2>1 DEF Range
  <2>3. PICK x \in I(m) : \A y \in I(m) : x <= y
    BY <2>2, LeastNumber
  <2> HIDE DEF I
  <2> QED  BY <2>2, <2>3 DEF Min
<1>3. OpenTitle \in Range(text) /\ CloseTitle \in Range(text)
  BY DEF HasTitle
<1>4. i = Min(I(OpenTitle)) /\ j = Min(I(CloseTitle))
  <2>1. I(OpenTitle) # {} /\ I(CloseTitle) # {}
    BY <1>2, <1>3
  <2> QED  BY <1>1, <2>1, Zenon DEF SelectInSeq
<1>5. i \in I(OpenTitle) /\ j \in I(CloseTitle) /\ \A y \in I(CloseTitle) : j <= y
  <2> HIDE DEF I
  <2> QED  BY <1>2, <1>3, <1>4
<1>6. i < j
  BY <1>1, Zenon DEF HasTitle
<1>7. ParseTitle(text) = SubSeq(text, i + 1, j - 1)
  BY <1>1, Zenon DEF ParseTitle
<1> QED  BY <1>5, <1>6, <1>7 DEF TitleAt

(* ParseTitle cuts a part out of a text. *)
LEMMA TitlePlain ==
  ASSUME NEW text \in Seq(Plain), HasTitle(text)
  PROVE  ParseTitle(text) \in Seq(Plain)
<1>1. PICK i, j : TitleAt(text, i, j)
  BY TitleMarks
<1>2. PICK n : n = Len(text) /\ n \in Nat
  BY LenProperties
<1>3. /\ i \in 1 .. n /\ j \in 1 .. n
      /\ ParseTitle(text) = SubSeq(text, i + 1, j - 1)
  BY <1>1, <1>2 DEF TitleAt
<1>4. i + 1 \in Int /\ j - 1 \in Int /\ \A k \in i + 1 .. j - 1 : k \in 1 .. n
  BY <1>2, <1>3
<1>5. \A k \in i + 1 .. j - 1 : text[k] \in Plain
  BY <1>2, <1>4, ElementOfSeq
<1>6. SubSeq(text, i + 1, j - 1) \in Seq(Plain)
  BY <1>4, <1>5, SubSeqProperties
<1> QED  BY <1>3, <1>6

(* The states ParseContent goes through. *)
ContentStates == [lable : BOOLEAN, out : Seq(Plain)]

(* A step leaves the text as it is or adds a character to it: this very    *)
(* one, between two tags; the mark of a title ends a tag.                  *)
StepOf(s, c, r) ==
  /\ r \in ContentStates
  /\ r.out = s.out \/ \E d \in Plain : r.out = Append(s.out, d)
  /\ c = OpenTitle => ~r.lable
  /\ (~s.lable /\ c \notin {OpenTag, OpenTitle, CloseTitle})
       => ~r.lable /\ r.out = Append(s.out, c)
LEMMA ContentSteps ==
  ASSUME NEW s \in ContentStates, NEW c \in Plain
  PROVE  StepOf(s, c, ContentStep(s, c))
<1>1. s.out \in Seq(Plain) /\ s.lable \in BOOLEAN
      /\ s = [lable |-> s.lable, out |-> s.out]
  BY DEF ContentStates
<1>2. CASE s.lable
  <2>1. PICK b : b = (c \notin {CloseTag, OpenTitle, CloseTitle}) /\ b \in BOOLEAN
    OBVIOUS
  <2>2. PICK r : r = [s EXCEPT !.lable = b] /\ ContentStep(s, c) = r
    BY <1>2, <2>1, Zenon DEF ContentStep
  <2>3. r \in ContentStates /\ r.out = s.out /\ r.lable = b
    BY <1>1, <2>1, <2>2 DEF ContentStates
  <2>4. c = OpenTitle => ~b
    BY <2>1
  <2> QED  BY <1>2, <2>2, <2>3, <2>4 DEF StepOf
<1>3. CASE ~s.lable
  <2>1. CASE c = OpenTag
    <3>1. PICK r : r = [s EXCEPT !.lable = TRUE] /\ ContentStep(s, c) = r
      BY <1>3, <2>1, Zenon DEF ContentStep
    <3>2. r \in ContentStates /\ r.out = s.out
      BY <1>1, <3>1 DEF ContentStates
    <3> QED  BY <2>1, <3>1, <3>2, MarksAssumption DEF StepOf
  <2>2. CASE c # OpenTag /\ c \in {OpenTitle, CloseTitle}
    <3>1. ContentStep(s, c) = s
      BY <1>3, <2>2, Zenon DEF ContentStep
    <3> QED  BY <1>3, <2>2, <3>1 DEF StepOf
  <2>3. CASE c # OpenTag /\ c \notin {OpenTitle, CloseTitle}
    <3>1. c # Newline
      BY DEF Plain
    <3>2. PICK o : o = Append(s.out, c)
      OBVIOUS
    <3>3. o \in Seq(Plain)
      BY <1>1, <3>2, AppendProperties
    <3>4. ContentStep(s, c) = [s EXCEPT !.out = Append(@, c)]
      BY <1>3, <2>3, <3>1, Zenon DEF ContentStep
    <3>5. PICK r : r = [s EXCEPT !.out = o] /\ ContentStep(s, c) = r
      BY <3>2, <3>4
    <3>6. r \in ContentStates /\ r.out = o /\ r.lable = s.lable
      BY <1>1, <3>3, <3>5 DEF ContentStates
    <3> QED  BY <1>3, <2>3, <3>2, <3>5, <3>6 DEF StepOf
  <2> QED  BY <2>1, <2>2, <2>3
<1> QED  BY <1>2, <1>3

(* ParseContent as a run: its states along the text. *)
ContentRun(text, h) ==
  /\ h \in [0 .. Len(text) -> ContentStates]
  /\ \A i \in 1 .. Len(text) : StepOf(h[i - 1], text[i], h[i])
  /\ ParseContent(text) = h[Len(text)].out
LEMMA ContentRuns ==
  ASSUME NEW text \in Seq(Plain)
  PROVE  \E h : ContentRun(text, h)
<1>1. PICK X, step, a, n :
        /\ X = ContentStates
        /\ step = [x \in X \X Plain |-> ContentStep(x[1], x[2])]
        /\ a = [lable |-> TRUE, out |-> <<>>] /\ n = Len(text)
  OBVIOUS
<1>2. n \in Nat /\ DOMAIN text = 1 .. n
  BY <1>1, LenProperties
<1>3. a \in X
  BY <1>1, EmptySeq DEF ContentStates
<1>4. ASSUME NEW s \in X, NEW c \in Plain
      PROVE  /\ ContentStep(s, c) \in X /\ StepOf(s, c, ContentStep(s, c))
             /\ step[<<s, c>>] = ContentStep(s, c)
  <2>1. StepOf(s, c, ContentStep(s, c))
    BY <1>1, ContentSteps
  <2>2. PICK x : x = <<s, c>>
    OBVIOUS
  <2>3. x \in X \X Plain /\ x[1] = s /\ x[2] = c
    BY <2>2
  <2>4. step[x] = ContentStep(s, c)
    BY <1>1, <2>3, Zenon
  <2> QED  BY <1>1, <2>1, <2>2, <2>4 DEF StepOf
<1>5. Steps(X, Plain, step)
  <2>1. \A x \in X \X Plain : ContentStep(x[1], x[2]) \in X
    BY <1>4
  <2> QED  BY <1>1, <2>1 DEF Steps
<1>6. PICK g : FoldOf(X, step, a, text, g)
  BY <1>3, <1>5, FoldExists
<1> DEFINE D == DOMAIN text
           Turn(f) == [s \in SUBSET D |->
                         IF s = {} THEN a ELSE ContentStep(f[s \ {Max(s)}], text[Max(s)])]
<1>7. PICK f : /\ ParseContent(text) = f[D].out
               /\ f = CHOOSE h : h = Turn(h)
  <2>1. PICK v : v = ParseContent(text)
    OBVIOUS
  <2> QED  BY <1>1, <2>1, Zenon DEF ParseContent, FoldLeft, MapThenFoldSet
<1>8. ASSUME NEW s \in SUBSET D, s # {}
      PROVE  g[s] = ContentStep(g[s \ {Max(s)}], text[Max(s)])
  <2>1. Max(s) \in s
    BY <1>2, <1>8, LastPlace
  <2>2. g[s \ {Max(s)}] \in X
    BY <1>1, <1>2, <1>6 DEF FoldOf
  <2>3. text[Max(s)] \in Plain
    BY <1>1, <1>2, <2>1, ElementOfSeq
  <2>4. g[s] = step[<<g[s \ {Max(s)}], text[Max(s)]>>]
    BY <1>1, <1>2, <1>6, <1>8 DEF FoldOf
  <2> QED  BY <1>4, <2>2, <2>3, <2>4
<1>9. g[{}] = a /\ g = [s \in SUBSET D |-> g[s]]
  BY <1>1, <1>2, <1>6 DEF FoldOf
<1>10. g = Turn(g)
  <2> HIDE DEF D
  <2> QED  BY <1>8, <1>9, Zenon
<1>11. f = Turn(f)
  <2> HIDE DEF Turn, D
  <2> QED  BY <1>7, <1>10, Zenon
<1>12. f[{}] = g[{}]
  BY <1>9, <1>11, {} \in SUBSET D, Zenon
<1>13. ASSUME NEW s \in SUBSET D, s # {}, f[s \ {Max(s)}] = g[s \ {Max(s)}]
       PROVE  f[s] = g[s]
  <2>1. f[s] = ContentStep(f[s \ {Max(s)}], text[Max(s)])
    BY <1>11, <1>13, Zenon
  <2> QED  BY <1>8, <1>13, <2>1, Zenon
<1>14. f[D] = g[D]
  <2> HIDE DEF Turn
  <2> QED  BY <1>2, <1>12, <1>13, FoldsAgree
<1>15. PICK h : RunOf(X, step, a, text, h) /\ h[Len(text)] = g[D]
  <2>1. EndsIn(X, step, a, text, g[1 .. Len(text)])
    BY <1>3, <1>5, <1>6, FoldRuns
  <2> QED  BY <1>1, <1>2, <2>1 DEF EndsIn
<1>16. h \in [0 .. n -> X] /\ \A i \in 1 .. n : h[i] = step[<<h[i - 1], text[i]>>]
  BY <1>1, <1>15 DEF RunOf
<1>17. ASSUME NEW i \in 1 .. n PROVE StepOf(h[i - 1], text[i], h[i])
  <2>1. i - 1 \in 0 .. n
    BY <1>2
  <2>2. h[i - 1] \in X
    BY <1>16, <2>1
  <2>3. text[i] \in Plain
    BY <1>1, ElementOfSeq
  <2> QED  BY <1>4, <1>16, <2>2, <2>3
<1>18. ParseContent(text) = h[Len(text)].out
  BY <1>7, <1>14, <1>15
<1> QED  BY <1>1, <1>16, <1>17, <1>18 DEF ContentRun

(* ParseContent makes its text of the characters it is given.              *)
LEMMA ContentPlain ==
  ASSUME NEW text \in Seq(Plain)
  PROVE  ParseContent(text) \in Seq(Plain)
<1>1. PICK h : ContentRun(text, h)
  BY ContentRuns
<1>2. PICK n : n = Len(text) /\ n \in Nat
  BY LenProperties
<1>3. h[n] \in ContentStates /\ ParseContent(text) = h[n].out
  BY <1>1, <1>2 DEF ContentRun
<1> QED  BY <1>3 DEF ContentStates

(* The text only grows along the way. *)
LEMMA ContentGrows ==
  ASSUME NEW text \in Seq(Plain), NEW h, ContentRun(text, h),
         NEW i \in 0 .. Len(text), NEW j \in i .. Len(text)
  PROVE  /\ Len(h[i].out) <= Len(h[j].out)
         /\ \A k \in 1 .. Len(h[i].out) : h[j].out[k] = h[i].out[k]
<1>1. PICK n, a : n = Len(text) /\ n \in Nat /\ a = h[i].out
  BY LenProperties
<1>2. PICK m : m = Len(a) /\ m \in Nat
  <2>1. a \in Seq(Plain)
    BY <1>1 DEF ContentRun, ContentStates
  <2> QED  BY <2>1, LenProperties
<1> DEFINE G == {v \in 0 .. n - i : /\ m <= Len(h[i + v].out)
                                    /\ \A k \in 1 .. m : h[i + v].out[k] = a[k]}
<1>3. i \in Nat /\ j \in Nat /\ n - i \in Nat /\ j - i \in 0 .. n - i /\ i + (j - i) = j
  BY <1>1
<1>4. 0 \in G
  <2>1. i + 0 = i /\ 0 \in 0 .. n - i
    BY <1>3
  <2> QED  BY <1>1, <1>2, <2>1
<1>5. ASSUME NEW v \in 0 .. n - i - 1, v \in G PROVE v + 1 \in G
  <2>1. i + v + 1 \in 1 .. n /\ (i + v + 1) - 1 = i + v /\ i + v \in 0 .. n
        /\ v + 1 \in 0 .. n - i /\ i + (v + 1) = i + v + 1
    BY <1>1, <1>3
  <2>2. PICK o, r : o = h[i + v].out /\ r = h[i + (v + 1)].out
    OBVIOUS
  <2>3. o \in Seq(Plain) /\ (r = o \/ \E d \in Plain : r = Append(o, d))
    <3>1. h[i + v] \in ContentStates
      BY <1>1, <2>1 DEF ContentRun
    <3>2. StepOf(h[i + v], text[i + v + 1], h[i + v + 1])
      BY <1>1, <2>1 DEF ContentRun
    <3>3. o \in Seq(Plain)
      BY <2>2, <3>1 DEF ContentStates
    <3> QED  BY <2>1, <2>2, <3>2, <3>3 DEF StepOf
  <2>4. m <= Len(o) /\ \A k \in 1 .. m : o[k] = a[k]
    BY <1>5, <2>2
  <2>5. CASE r = o
    BY <2>1, <2>2, <2>4, <2>5
  <2>6. ASSUME NEW d \in Plain, r = Append(o, d) PROVE v + 1 \in G
    <3>1. PICK l : l = Len(o) /\ l \in Nat
      BY <2>3, LenProperties
    <3>2. Len(r) = l + 1 /\ \A k \in 1 .. l : r[k] = o[k]
      BY <2>3, <2>6, <3>1, PushedBack
    <3>3. m <= l + 1 /\ \A k \in 1 .. m : k \in 1 .. l
      BY <1>2, <2>4, <3>1
    <3> QED  BY <2>1, <2>2, <2>4, <3>2, <3>3
  <2> QED  BY <2>3, <2>5, <2>6
<1>6. j - i \in G
  <2> HIDE DEF G
  <2>1. 0 .. n - i \subseteq G
    BY <1>3, <1>4, <1>5, Counting
  <2> QED  BY <1>3, <2>1
<1> QED  BY <1>1, <1>2, <1>3, <1>6

(* Without a tag in it the whole title is content too. *)
LEMMA TitleInContent ==
  ASSUME NEW text \in Seq(Plain), HasTitle(text)
  PROVE  TitleRead(ParseTitle(text), ParseContent(text))
<1>1. PICK i, j : TitleAt(text, i, j)
  BY TitleMarks
<1>2. PICK h : ContentRun(text, h)
  BY ContentRuns
<1>3. PICK n, t, c : n = Len(text) /\ n \in Nat /\ t = ParseTitle(text) /\ c = ParseContent(text)
  BY LenProperties
<1> SUFFICES ASSUME {OpenTag, OpenTitle} \cap Range(t) = {} PROVE HeldIn(t, c)
  BY <1>3 DEF TitleRead
<1>20. i \in 1 .. n /\ j \in 1 .. n /\ i < j /\ t = SubSeq(text, i + 1, j - 1)
  BY <1>1, <1>3 DEF TitleAt
<1>4. n \in Nat /\ i \in Nat /\ j \in Nat /\ 1 <= i /\ i < j /\ j <= n
  BY <1>3, <1>20
<1>5. PICK l : l = j - 1 - i /\ l \in Nat /\ i + l < j /\ j = i + l + 1
  BY <1>4
<1>6. Len(t) = l /\ DOMAIN t = 1 .. l /\ \A k \in 1 .. l : t[k] = text[i + k]
  <2>1. i + 1 \in Int /\ j - 1 \in Int /\ \A k \in i + 1 .. j - 1 : k \in 1 .. n
    BY <1>4
  <2>2. \A k \in i + 1 .. j - 1 : text[k] \in Plain
    BY <1>3, <2>1, ElementOfSeq
  <2>3. /\ t \in Seq(Plain)
        /\ Len(t) = IF i + 1 <= j - 1 THEN j - 1 - (i + 1) + 1 ELSE 0
        /\ \A k \in 1 .. j - 1 - (i + 1) + 1 : t[k] = text[i + 1 + k - 1]
    BY <1>20, <2>1, <2>2, SubSeqProperties
  <2>4. /\ (IF i + 1 <= j - 1 THEN j - 1 - (i + 1) + 1 ELSE 0) = l
        /\ j - 1 - (i + 1) + 1 = l /\ \A k \in 1 .. l : i + 1 + k - 1 = i + k
    BY <1>4, <1>5
  <2>5. DOMAIN t = 1 .. Len(t)
    BY <2>3, LenProperties
  <2> QED  BY <2>3, <2>4, <2>5
<1>7. ASSUME NEW v \in 1 .. l
      PROVE  i + v \in 1 .. n /\ text[i + v] \notin {OpenTag, OpenTitle, CloseTitle}
  <2>1. i + v \in 1 .. n /\ ~(j <= i + v)
    BY <1>4, <1>5
  <2>2. text[i + v] # CloseTitle
    BY <1>1, <1>3, <2>1 DEF TitleAt
  <2>3. t[v] \in Range(t) /\ t[v] = text[i + v]
    BY <1>6 DEF Range
  <2> QED  BY <2>1, <2>2, <2>3
<1>8. ASSUME NEW v \in 0 .. l PROVE i + v \in 0 .. n /\ h[i + v].out \in Seq(Plain)
  <2>1. i + v \in 0 .. n
    BY <1>4, <1>5
  <2>2. h[i + v] \in ContentStates
    BY <1>2, <1>3, <2>1 DEF ContentRun
  <2> QED  BY <2>1, <2>2 DEF ContentStates
<1>9. PICK m : m = Len(h[i].out) /\ m \in Nat
  <2>1. i + 0 = i /\ 0 \in 0 .. l
    BY <1>4, <1>5
  <2>2. h[i].out \in Seq(Plain)
    BY <1>8, <2>1
  <2> QED  BY <2>2, LenProperties
<1> DEFINE G == {v \in 0 .. l : ~h[i + v].lable /\ Len(h[i + v].out) = m + v}
<1>10. ASSUME NEW v \in 0 .. l - 1, v \in G
       PROVE  /\ v + 1 \in G
              /\ h[i + (v + 1)].out = Append(h[i + v].out, text[i + (v + 1)])
              /\ h[i + (v + 1)].out[m + (v + 1)] = text[i + (v + 1)]
  <2>1. v + 1 \in 1 .. l /\ v + 1 \in 0 .. l /\ v \in 0 .. l /\ (i + (v + 1)) - 1 = i + v
        /\ m + (v + 1) = (m + v) + 1
    <3>1. v \in Nat /\ v < l /\ m \in Nat
      BY <1>5, <1>9
    <3> HIDE DEF G
    <3> QED  BY <1>4, <1>5, <3>1
  <2>2. PICK s, r, d : s = h[i + v] /\ r = h[i + (v + 1)] /\ d = text[i + (v + 1)]
    OBVIOUS
  <2>3. StepOf(s, d, r)
    <3>1. i + (v + 1) \in 1 .. Len(text)
      BY <1>3, <1>7, <2>1
    <3>2. StepOf(h[(i + (v + 1)) - 1], text[i + (v + 1)], h[i + (v + 1)])
      BY <1>2, <3>1 DEF ContentRun
    <3> QED  BY <2>1, <2>2, <3>2
  <2>4. ~s.lable /\ d \notin {OpenTag, OpenTitle, CloseTitle} /\ Len(s.out) = m + v
    BY <1>7, <1>10, <2>1, <2>2
  <2>5. ~r.lable /\ r.out = Append(s.out, d)
    BY <2>3, <2>4 DEF StepOf
  <2>6. PICK o, q : o = s.out /\ q = Append(o, d)
    OBVIOUS
  <2>7. o \in Seq(Plain)
    BY <1>8, <2>1, <2>2, <2>6
  <2>8. Len(q) = Len(o) + 1 /\ q[Len(o) + 1] = d
    BY <2>6, <2>7, PushedBack
  <2> QED  BY <2>1, <2>2, <2>4, <2>5, <2>6, <2>8
<1>11. 0 \in G
  <2>1. i + 0 = i /\ 0 \in 0 .. l /\ m + 0 = m
    BY <1>4, <1>5, <1>9
  <2>2. text[i] = OpenTitle
    BY <1>1 DEF TitleAt
  <2>3. StepOf(h[i - 1], text[i], h[i])
    BY <1>2, <1>3, <1>20 DEF ContentRun
  <2>4. ~h[i].lable
    BY <2>2, <2>3 DEF StepOf
  <2> QED  BY <1>9, <2>1, <2>4
<1>12. 0 .. l \subseteq G
  <2> HIDE DEF G
  <2> QED  BY <1>5, <1>10, <1>11, Counting
<1>13. c = h[n].out /\ n \in 0 .. n
  BY <1>2, <1>3 DEF ContentRun
<1>14. ASSUME NEW k \in 1 .. l PROVE c[m + k] = t[k]
  <2>1. PICK v : v = k - 1 /\ v \in 0 .. l - 1 /\ k = v + 1 /\ v \in 0 .. l
    BY <1>5
  <2>2. v \in G /\ k \in G
    <3>1. k \in 0 .. l
      BY <1>5
    <3> HIDE DEF G
    <3> QED  BY <1>12, <2>1, <3>1
  <2>3. h[i + k].out[m + k] = text[i + k]
    BY <1>10, <2>1, <2>2
  <2>4. Len(h[i + k].out) = m + k
    BY <2>2
  <2>5. /\ i + k \in 0 .. Len(text) /\ Len(text) \in i + k .. Len(text)
        /\ m + k \in 1 .. m + k
    BY <1>3, <1>4, <1>5, <1>9
  <2>6. h[n].out[m + k] = h[i + k].out[m + k]
    BY <1>2, <1>3, <2>4, <2>5, ContentGrows
  <2> QED  BY <1>6, <1>13, <2>3, <2>6
<1>15. m + l <= Len(c)
  <2>1. i + l \in 0 .. Len(text) /\ Len(text) \in i + l .. Len(text) /\ l \in 0 .. l
    BY <1>3, <1>4, <1>5
  <2>2. Len(h[i + l].out) = m + l
    BY <1>12, <2>1
  <2> QED  BY <1>2, <1>3, <1>13, <2>1, <2>2, ContentGrows
<1>16. HeldAt(t, c, m)
  BY <1>6, <1>9, <1>14, <1>15 DEF HeldAt
<1> QED  BY <1>16 DEF HeldIn

(* ParseHtml makes such a document of a file. *)
LEMMA DocParsed ==
  ASSUME NEW s \in Sites, s # NoSite, NEW f \in s, HasTitle(ReadFile(f))
  PROVE  Doc(f) \in Documents
<1>1. f.page \in Seq(Chars) /\ f.path \in Plain /\ f.path # Sep
  BY FileTexts
<1>2. PICK text, t, c, u, doc :
        /\ text = ReadFile(f) /\ t = ParseTitle(text) /\ c = ParseContent(text)
        /\ u = ParseUrl(f) /\ doc = Doc(f)
  OBVIOUS
<1>3. text \in Seq(Plain)
  BY <1>1, <1>2, ReadWithoutNewlines
<1>4. t \in Seq(Plain) /\ c \in Seq(Plain)
  BY <1>2, <1>3, TitlePlain, ContentPlain
<1>10. TitleRead(t, c)
  BY <1>2, <1>3, TitleInContent
<1>5. PICK h, p : h = UrlHead /\ p = f.path
  OBVIOUS
<1>6. u = <<h, p>> /\ h \in Plain /\ p \in Plain /\ h # Sep /\ p # Sep
  BY <1>1, <1>2, <1>5, CharsMarks, MarksAssumption DEF ParseUrl
<1>7. u \in Seq(Plain) /\ Free(u, Sep)
  <2>1. u \in Seq(Plain) /\ Len(u) = 2 /\ u[1] = h /\ u[2] = p
    BY <1>6
  <2>2. \A k \in 1 .. 2 : u[k] # Sep
    BY <1>6, <2>1
  <2> QED  BY <2>1, <2>2 DEF Free
<1>8. /\ t \in Seq(Chars) /\ c \in Seq(Chars) /\ u \in Seq(Chars)
      /\ Free(t, Newline) /\ Free(c, Newline) /\ Free(u, Newline)
  BY <1>4, <1>7, PlainText
<1>9. doc = [title |-> t, content |-> c, url |-> u]
  BY <1>2, Zenon DEF Doc
<1>11. doc \in OneLine(Chars)
  BY <1>7, <1>8, <1>9 DEF OneLine, Docs
<1> QED  BY <1>2, <1>7, <1>9, <1>10, <1>11 DEF Documents

(* And a list of them of the files. *)
LEMMA HtmlParsed ==
  ASSUME NEW s \in Sites, s # NoSite, NEW files \in Seq(s)
  PROVE  ParseHtml(files) \in Seq(Documents)
<1>1. PICK F : F = [f \in s |-> IF f.readable /\ HasTitle(ReadFile(f))
                                THEN <<Doc(f)>> ELSE <<>>]
  OBVIOUS
<1>2. F \in [s -> Seq(Documents)]
  <2>1. ASSUME NEW f \in s PROVE F[f] \in Seq(Documents)
    <3>1. CASE f.readable /\ HasTitle(ReadFile(f))
      <4>1. F[f] = <<Doc(f)>>
        BY <1>1, <3>1, Zenon
      <4>2. Doc(f) \in Documents
        BY <3>1, DocParsed
      <4> QED  BY <4>1, <4>2
    <3>2. CASE ~(f.readable /\ HasTitle(ReadFile(f)))
      <4>1. F[f] = <<>>
        BY <1>1, <3>2, Zenon
      <4> QED  BY <4>1, EmptySeq
    <3> QED  BY <3>1, <3>2
  <2>2. F = [f \in s |-> F[f]]
    BY <1>1, Zenon
  <2> QED  BY <2>1, <2>2, Zenon
<1>3. ParseHtml(files) = FlatMap(F, files)
  <2>1. \A k \in DOMAIN files : files[k] \in s
    BY LenProperties, ElementOfSeq
  <2>2. \A k \in DOMAIN files :
          F[files[k]] = IF files[k].readable /\ HasTitle(ReadFile(files[k]))
                        THEN <<Doc(files[k])>> ELSE <<>>
    BY <1>1, <2>1, Zenon
  <2>3. Mapped(F, files) = [k \in DOMAIN files |->
          IF files[k].readable /\ HasTitle(ReadFile(files[k]))
          THEN <<Doc(files[k])>> ELSE <<>>]
    BY <2>2, Zenon DEF Mapped
  <2> QED  BY <2>3, Zenon DEF ParseHtml, FlatMap
<1>4. FlatMap(F, files) \in Seq(Documents)
  BY <1>2, FlatMapped
<1> QED  BY <1>3, <1>4

(* EnumFile lists files of the site. *)
LEMMA FilesListed ==
  ASSUME site \in Sites, site # NoSite, NEW files \in FilesLists
  PROVE  files \in Seq(site)
<1>1. PICK H : H = {f \in site : f.regular /\ f.html}
  OBVIOUS
<1>2. H \subseteq site /\ IsFiniteSet(H)
  <2>1. IsFiniteSet(site)
    BY SitesAssumption
  <2> QED  BY <1>1, <2>1, FS_Subset
<1>3. Cardinality(H) \in Nat
  BY <1>2, FS_CardinalityType
<1>4. files \in [1 .. Cardinality(H) -> H]
  BY <1>1 DEF FilesLists, SetToSeqs
<1>5. files \in [1 .. Cardinality(H) -> site]
  BY <1>2, <1>4
<1> QED  BY <1>3, <1>5, SeqDef

-----------------------------------------------------------------------------
(* What is served *)

(* A list is of documents without separators.                              *)
Clean(docs) == \A k \in 1 .. Len(docs) :
  Free(docs[k].title, Sep) /\ Free(docs[k].content, Sep) /\ Free(docs[k].url, Sep)

(* Of whole lines BuildForwardIndex takes what has a content. *)
LEMMA LinesTaken ==
  ASSUME NEW C, Marks(C), NEW docs \in Seq(OneLine(C)), Clean(docs)
  PROVE  FlatMap(Took(C), Mapped(LineOf(C), docs)) = FlatMap(UnitOf(C), docs)
<1>1. PICK ls : ls = Mapped(LineOf(C), docs)
  OBVIOUS
<1>2. DOMAIN docs = 1 .. Len(docs) /\ \A k \in DOMAIN docs : docs[k] \in OneLine(C)
  BY LenProperties, ElementOfSeq
<1>3. ASSUME NEW k \in DOMAIN docs PROVE Took(C)[ls[k]] = UnitOf(C)[docs[k]]
  <2>1. PICK doc : doc = docs[k]
    OBVIOUS
  <2>2. doc \in OneLine(C) /\ Free(doc.title, Sep) /\ Free(doc.content, Sep) /\ Free(doc.url, Sep)
    BY <1>2, <2>1 DEF Clean
  <2>3. TookLine(C, doc)
    BY <2>2, LineTaken
  <2>4. ls[k] = LineOf(C)[docs[k]]
    BY <1>1, Zenon DEF Mapped
  <2>5. LineOf(C)[doc] = Line(doc)
    BY <2>2, Zenon DEF LineOf
  <2> QED  BY <2>1, <2>3, <2>4, <2>5 DEF TookLine
<1>4. DOMAIN ls = DOMAIN docs
  BY <1>1, Zenon DEF Mapped
<1>5. Mapped(Took(C), ls) = Mapped(UnitOf(C), docs)
  BY <1>3, <1>4, Zenon DEF Mapped
<1> QED  BY <1>1, <1>5, Zenon DEF FlatMap

(* A list behind another leaves that as it was. *)
Ahead(a, b) == Len(a) <= Len(b) /\ \A i \in 1 .. Len(a) : b[i] = a[i]
LEMMA JoinedBehind ==
  ASSUME NEW X, NEW a \in Seq(X), NEW z \in Seq(X)
  PROVE  Ahead(a, a \o z)
<1>1. PICK r : r = a \o z
  OBVIOUS
<1>2. /\ Len(a) \in Nat /\ Len(z) \in Nat /\ Len(r) = Len(a) + Len(z)
      /\ \A i \in 1 .. Len(a) + Len(z) : r[i] = IF i <= Len(a) THEN a[i] ELSE z[i - Len(a)]
  BY <1>1, ConcatProperties, LenProperties
<1>3. PICK m, n : m = Len(a) /\ n = Len(z) /\ m \in Nat /\ n \in Nat
  BY <1>2
<1>4. \A i \in 1 .. m : i \in 1 .. m + n /\ i <= m
  BY <1>3
<1>5. m <= m + n
  BY <1>3
<1>6. \A i \in 1 .. Len(a) : r[i] = a[i]
  BY <1>2, <1>3, <1>4
<1> QED  BY <1>1, <1>2, <1>3, <1>5, <1>6 DEF Ahead

(* What the first v documents make a list of is ahead in what all make.    *)
LEMMA UnitsAhead ==
  ASSUME NEW C, NEW docs \in Seq(OneLine(C)), NEW v \in 0 .. Len(docs)
  PROVE  /\ SubSeq(docs, 1, v) \in Seq(OneLine(C))
         /\ FlatMap(UnitOf(C), SubSeq(docs, 1, v)) \in Seq(Docs(C))
         /\ Ahead(FlatMap(UnitOf(C), SubSeq(docs, 1, v)), FlatMap(UnitOf(C), docs))
<1>1. PICK D, F, first : /\ D = OneLine(C) /\ F = UnitOf(C) /\ first = SubSeq(docs, 1, v)
  OBVIOUS
<1>2. F \in [D -> Seq(Docs(C))] /\ first \in Seq(D) /\ docs \in Seq(D)
  BY <1>1, TookTyped, CutOff
<1>3. FlatMap(F, first) \in Seq(Docs(C))
  BY <1>2, FlatMapped
<1>4. PICK z \in Seq(Docs(C)) : FlatMap(F, docs) = FlatMap(F, first) \o z
  <2>1. v \in 0 .. Len(docs)
    OBVIOUS
  <2>2. Grows(Docs(C), FlatMap(F, SubSeq(docs, 1, v)), FlatMap(F, docs))
    BY <1>2, <2>1, FlatGrows
  <2> QED  BY <1>1, <2>2 DEF Grows
<1>5. Ahead(FlatMap(F, first), FlatMap(F, first) \o z)
  BY <1>3, JoinedBehind
<1> QED  BY <1>1, <1>2, <1>3, <1>4, <1>5

(* The next one, if it has a content, comes next. *)
LEMMA UnitNext ==
  ASSUME NEW C, NEW docs \in Seq(OneLine(C)), NEW v \in 0 .. Len(docs) - 1,
         docs[v + 1].content # <<>>
  PROVE  Ahead(Append(FlatMap(UnitOf(C), SubSeq(docs, 1, v)), docs[v + 1]),
               FlatMap(UnitOf(C), docs))
<1>1. PICK D, F, first, doc, n :
        /\ D = OneLine(C) /\ F = UnitOf(C) /\ first = SubSeq(docs, 1, v)
        /\ doc = docs[v + 1] /\ n = Len(docs) /\ n \in Nat
  BY LenProperties
<1>2. v \in 0 .. n /\ v + 1 \in 0 .. n
  BY <1>1
<1>3. first \in Seq(D) /\ doc \in D /\ SubSeq(docs, 1, v + 1) = Append(first, doc)
  BY <1>1, Grown
<1>4. F \in [D -> Seq(Docs(C))] /\ F[doc] = <<doc>> /\ doc \in Docs(C)
  <2>1. F[doc] = IF doc.content = <<>> THEN <<>> ELSE <<doc>>
    BY <1>1, <1>3, Zenon DEF UnitOf
  <2> QED  BY <1>1, <1>3, <2>1, TookTyped DEF OneLine
<1>5. FlatMap(F, first) \in Seq(Docs(C)) /\ FlatMaps(F, first, doc)
  BY <1>3, <1>4, FlatMapped
<1>6. FlatMap(F, SubSeq(docs, 1, v + 1)) = Append(FlatMap(F, first), doc)
  <2>1. FlatMap(F, Append(first, doc)) = FlatMap(F, first) \o <<doc>>
    BY <1>4, <1>5 DEF FlatMaps
  <2>2. Append(FlatMap(F, first), doc) = FlatMap(F, first) \o <<doc>>
    BY <1>4, <1>5, AppendIsConcat
  <2> QED  BY <1>3, <2>1, <2>2
<1>7. Ahead(FlatMap(F, SubSeq(docs, 1, v + 1)), FlatMap(F, docs))
  BY <1>1, <1>2, UnitsAhead
<1> QED  BY <1>1, <1>6, <1>7

(* What lies on the disk, of what was parsed. *)
Stored ==
  /\ site \in Sites
  /\ parsed \in Seq(Documents)
  /\ \E m \in 0 .. Len(SavedText(parsed)) :
       /\ disk.text = SubSeq(SavedText(parsed), 1, m)
       /\ whole => m = Len(SavedText(parsed))

(* What has been read and what has not, while the server runs.             *)
Reading ==
  /\ pc \in {"build", "serve"} =>
       /\ lines \in Seq(Seq(Chars))
       /\ \E read \in Seq(Seq(Chars)) :
            /\ Lines(disk.text) = read \o lines
            /\ Served = FlatMap(Took(Chars), read)
  /\ pc = "serve" => lines = <<>>
  /\ pc = "script" => forward = <<>>

(* The documents are those that hold texts without a newline.              *)
LEMMA DocumentsAre ==
  ASSUME NEW docs \in Seq(Documents)
  PROVE  /\ docs \in Seq(OneLine(Chars))
         /\ \A k \in 1 .. Len(docs) : Free(docs[k].url, Sep)
<1>1. Documents \subseteq OneLine(Chars)
  BY DEF Documents
<1>2. docs \in Seq(OneLine(Chars))
  BY <1>1, Widened
<1>3. \A k \in 1 .. Len(docs) : docs[k] \in Documents
  BY ElementOfSeq
<1> QED  BY <1>2, <1>3 DEF Documents

(* What getline reads of what is stored. *)
StoredLines(j, p) ==
  /\ Kept(Chars, parsed, Len(parsed), disk.text, j, p)
  /\ whole => j = Len(parsed) /\ p = <<>>
  /\ Lines(disk.text) = IF p = <<>> THEN Mapped(LineOf(Chars), SubSeq(parsed, 1, j))
                        ELSE Append(Mapped(LineOf(Chars), SubSeq(parsed, 1, j)), p)
  /\ SubSeq(parsed, 1, j) \in Seq(OneLine(Chars))
  /\ Mapped(LineOf(Chars), SubSeq(parsed, 1, j)) \in Seq(Seq(Chars))
LEMMA LinesStored ==
  ASSUME Stored
  PROVE  \E j, p : StoredLines(j, p)
<1>1. PICK docs, text : docs = parsed /\ text = disk.text
  OBVIOUS
<1>2. docs \in Seq(OneLine(Chars)) /\ Marks(Chars)
  BY <1>1, DocumentsAre, CharsMarks DEF Stored
<1>3. PICK saved : saved = FlatMap(RecordOf(Chars), docs)
  OBVIOUS
<1>4. PICK m \in 0 .. Len(saved) : text = SubSeq(saved, 1, m) /\ (whole => m = Len(saved))
  <2>1. saved = SavedText(docs)
    BY <1>2, <1>3, SavedAsRecords
  <2> QED  BY <1>1, <2>1 DEF Stored
<1>5. PICK j, p : /\ Kept(Chars, docs, Len(docs), text, j, p)
                  /\ m = Len(saved) => j = Len(docs) /\ p = <<>>
  <2>1. m \in 0 .. Len(FlatMap(RecordOf(Chars), docs))
    BY <1>3, <1>4
  <2>2. \E j, p : /\ Kept(Chars, docs, Len(docs), SubSeq(FlatMap(RecordOf(Chars), docs), 1, m), j, p)
                  /\ m = Len(FlatMap(RecordOf(Chars), docs)) => j = Len(docs) /\ p = <<>>
    BY <1>2, <2>1, FirstPartKept
  <2> QED  BY <1>3, <1>4, <2>2
<1>6. /\ j \in 0 .. Len(docs) /\ p \in Seq(Chars) /\ Free(p, Newline)
      /\ text = FlatMap(RecordOf(Chars), SubSeq(docs, 1, j)) \o p
  BY <1>5 DEF Kept
<1>7. Lines(text) = IF p = <<>> THEN Mapped(LineOf(Chars), SubSeq(docs, 1, j))
                    ELSE Append(Mapped(LineOf(Chars), SubSeq(docs, 1, j)), p)
  BY <1>2, <1>6, LinesRead
<1>8. SubSeq(docs, 1, j) \in Seq(OneLine(Chars))
  BY <1>2, <1>6, CutOff
<1>9. Mapped(LineOf(Chars), SubSeq(docs, 1, j)) \in Seq(Seq(Chars))
  <2>1. LineOf(Chars) \in [OneLine(Chars) -> Seq(Chars)]
    BY <1>2, RecordIsLine DEF LineOf
  <2> QED  BY <1>8, <2>1, MappedAppended
<1> QED  BY <1>1, <1>4, <1>5, <1>7, <1>8, <1>9 DEF StoredLines

(* They are texts. *)
LEMMA LinesTyped == Stored => Lines(disk.text) \in Seq(Seq(Chars))
<1> SUFFICES ASSUME Stored PROVE Lines(disk.text) \in Seq(Seq(Chars))
  OBVIOUS
<1>1. PICK j, p : StoredLines(j, p)
  BY LinesStored
<1>2. PICK ls : ls = Mapped(LineOf(Chars), SubSeq(parsed, 1, j))
  OBVIOUS
<1>3. ls \in Seq(Seq(Chars)) /\ p \in Seq(Chars)
      /\ Lines(disk.text) = IF p = <<>> THEN ls ELSE Append(ls, p)
  BY <1>1, <1>2 DEF StoredLines, Kept
<1>4. Append(ls, p) \in Seq(Seq(Chars))
  BY <1>3, AppendProperties
<1> QED  BY <1>3, <1>4

-----------------------------------------------------------------------------
(* The steps *)

(* Nothing is parsed yet, and nothing read. *)
LEMMA InitStored == Init => Stored /\ Reading
<1> SUFFICES ASSUME Init PROVE Stored /\ Reading
  OBVIOUS
<1>1. /\ site \in Sites /\ parsed = <<>> /\ disk = NoFile /\ whole = FALSE
      /\ pc = "script" /\ forward = <<>>
  BY DEF Init
<1>2. parsed \in Seq(Documents)
  BY <1>1, EmptySeq
<1>3. PICK e : e = SavedText(parsed)
  OBVIOUS
<1>4. e = <<>>
  <2>1. RecordOf(Chars) \in [OneLine(Chars) -> Seq(Chars)]
    BY CharsMarks, RecordIsLine DEF RecordOf
  <2>2. FlatMap(RecordOf(Chars), <<>>) = <<>>
    <3>1. <<>> \in Seq(OneLine(Chars))
      BY EmptySeq
    <3> QED  BY <2>1, <3>1, FlatMapped
  <2>3. parsed \in Seq(OneLine(Chars))
    BY <1>1, EmptySeq
  <2> QED  BY <1>1, <1>3, <2>2, <2>3, SavedAsRecords
<1>5. 0 \in 0 .. Len(e) /\ SubSeq(e, 1, 0) = <<>> /\ disk.text = <<>>
  BY <1>1, <1>4, EmptyList, SubSeqEmpty DEF NoFile
<1>6. Stored
  BY <1>1, <1>2, <1>3, <1>5 DEF Stored
<1>7. Reading
  BY <1>1 DEF Reading
<1> QED  BY <1>6, <1>7

(* The parser. *)
LEMMA ParserStores ==
  ASSUME Stored, NEW files \in FilesLists, NEW n,
         n \in 0 .. Len(SavedText(ParseHtml(files))), Parse(files, n)
  PROVE  Stored'
<1>1. PICK docs : docs = ParseHtml(files)
  OBVIOUS
<1>2. /\ site # NoSite /\ site' = site /\ parsed' = docs
      /\ disk' = [there |-> TRUE, text |-> SubSeq(SavedText(docs), 1, n)]
      /\ whole' = (n = Len(SavedText(docs)))
  BY <1>1 DEF Parse
<1>3. site \in Sites
  BY DEF Stored
<1>4. docs \in Seq(Documents)
  <2>1. files \in Seq(site)
    BY <1>2, <1>3, FilesListed
  <2> QED  BY <1>1, <1>2, <1>3, <2>1, HtmlParsed
<1>5. SavedText(parsed)' = SavedText(docs)
  BY <1>2 DEF SavedText, Record
<1>6. disk'.text = SubSeq(SavedText(docs), 1, n)
  BY <1>2
<1> QED  BY <1>1, <1>2, <1>3, <1>4, <1>5, <1>6 DEF Stored

(* A line is taken: it goes from the unread to the read.                   *)
LEMMA LineRead ==
  ASSUME Stored, Reading, IInv, IndexLine
  PROVE  Reading'
<1>1. /\ pc = "build" /\ lines # <<>> /\ pc' = pc /\ disk' = disk
      /\ lines' = Tail(lines)
  BY DEF IndexLine
<1>2. PICK all, rest, line, now : /\ all = Lines(disk.text) /\ rest = Tail(lines)
                                  /\ line = Head(lines) /\ now = lines
  OBVIOUS
<1>3. lines \in Seq(Seq(Chars))
  BY <1>1 DEF Reading
<1>4. PICK read \in Seq(Seq(Chars)) :
        /\ all = read \o now
        /\ Served = FlatMap(Took(Chars), read)
  BY <1>1, <1>2 DEF Reading
<1>5. rest \in Seq(Seq(Chars)) /\ line \in Seq(Chars)
  BY <1>1, <1>2, <1>3, Popped
<1>6. now = <<line>> \o rest
  BY <1>1, <1>2, <1>3, HeadTailProperties
<1>7. <<line>> \in Seq(Seq(Chars))
  BY <1>5
<1>8. PICK more : more = read \o <<line>>
  OBVIOUS
<1>9. more \in Seq(Seq(Chars)) /\ more = Append(read, line)
  BY <1>5, <1>7, <1>8, ConcatProperties, AppendIsConcat
<1>10. all = more \o rest
  <2>1. Grouped(read, <<line>>, rest)
    BY <1>5, <1>7, Grouping
  <2> QED  BY <1>4, <1>6, <1>8, <2>1 DEF Grouped
<1>11. PICK F : F = Took(Chars)
  OBVIOUS
<1>12. F \in [Seq(Chars) -> Seq(Docs(Chars))]
  BY <1>11, TookTyped
<1>13. FlatMap(F, read) \in Seq(Docs(Chars)) /\ FlatMap(F, more) = FlatMap(F, read) \o F[line]
  <2>1. FlatMaps(F, read, line) /\ FlatMap(F, read) \in Seq(Docs(Chars))
    BY <1>5, <1>12, FlatMapped
  <2> QED  BY <1>9, <2>1 DEF FlatMaps
<1>14. Served' = FlatMap(F, read) \o F[line]
  <2>1. PICK fields : fields = Split(line)
    OBVIOUS
  <2>2. TakenFrom(Chars, line, fields)
    BY <1>5, <2>1, Taking
  <2>3. CASE Len(fields) # 3
    <3>1. F[line] = <<>>
      BY <1>11, <2>2, <2>3 DEF TakenFrom
    <3>2. forward' = forward
      BY <1>2, <2>1, <2>3 DEF IndexLine
    <3>3. Served' = Served
      BY <3>2 DEF Served, Bare
    <3> QED  BY <1>4, <1>11, <1>13, <3>1, <3>3, ConcatEmptySeq
  <2>4. CASE Len(fields) = 3
    <3>1. PICK doc, bare :
            /\ doc = [title |-> fields[1], content |-> fields[2], url |-> fields[3],
                      doc_id |-> NextId]
            /\ bare = [title |-> fields[1], content |-> fields[2], url |-> fields[3]]
      OBVIOUS
    <3>2. F[line] = <<bare>>
      BY <1>11, <2>2, <2>4, <3>1 DEF TakenFrom
    <3>3. forward' = Append(forward, doc)
      BY <1>2, <2>1, <2>4, <3>1 DEF IndexLine
    <3>4. PICK n : n = Len(forward)
      OBVIOUS
    <3>5. /\ n \in Nat /\ DOMAIN forward = 1 .. n /\ DOMAIN forward' = 1 .. n + 1
          /\ \A i \in 1 .. n : forward'[i] = forward[i]
          /\ forward'[n + 1] = doc
      BY <3>3, <3>4, PushedBack DEF IInv, Vectors
    <3>6. PICK a, b : a = FlatMap(F, read) /\ b = Append(a, bare)
      OBVIOUS
    <3>7. a \in Seq(Docs(Chars)) /\ a = [i \in 1 .. n |-> Bare(forward[i])]
      BY <1>4, <1>11, <1>13, <3>5, <3>6 DEF Served
    <3>8. Len(a) = n
      BY <3>5, <3>7, LenProperties
    <3>9. /\ DOMAIN b = 1 .. n + 1 /\ b[n + 1] = bare
          /\ \A i \in 1 .. n : b[i] = a[i]
          /\ b \in Seq(Range(b))
      <4>1. /\ DOMAIN Append(a, bare) = 1 .. Len(a) + 1
            /\ Append(a, bare)[Len(a) + 1] = bare
            /\ \A i \in 1 .. Len(a) : Append(a, bare)[i] = a[i]
            /\ Append(a, bare) \in Seq(Range(Append(a, bare)))
        <5>1. PICK T : a \in Seq(T)
          BY <3>7
        <5> QED  BY <5>1, PushedBack
      <4> QED  BY <3>6, <3>8, <4>1, Zenon
    <3>10. Bare(doc) = bare
      BY <3>1 DEF Bare
    <3>11. \A i \in 1 .. n + 1 : b[i] = Bare(forward'[i])
      <4> SUFFICES ASSUME NEW i \in 1 .. n + 1 PROVE b[i] = Bare(forward'[i])
        OBVIOUS
      <4>1. CASE i = n + 1
        BY <3>5, <3>9, <3>10, <4>1
      <4>2. CASE i \in 1 .. n
        <5>1. b[i] = Bare(forward[i])
          BY <3>7, <3>9, <4>2
        <5> QED  BY <3>5, <4>2, <5>1
      <4> QED  BY <3>5, <4>1, <4>2
    <3>12. b = [i \in 1 .. n + 1 |-> Bare(forward'[i])]
      <4>1. b = [i \in DOMAIN b |-> b[i]]
        BY <3>9, LenProperties
      <4> QED  BY <3>9, <3>11, <4>1, Zenon
    <3>13. Served' = [i \in DOMAIN forward' |-> Bare(forward'[i])]
      BY DEF Served, Bare
    <3>14. Served' = b
      BY <3>5, <3>12, <3>13, Zenon
    <3>15. bare \in Docs(Chars)
      <4>1. F[line] \in Seq(Docs(Chars))
        BY <1>5, <1>12
      <4> QED  BY <3>2, <4>1
    <3>16. b = a \o <<bare>>
      BY <3>6, <3>7, <3>15, AppendIsConcat
    <3> QED  BY <3>2, <3>6, <3>14, <3>16
  <2> QED  BY <2>3, <2>4
<1>15. Lines(disk.text)' = all
  BY <1>1, <1>2
<1> QED  BY <1>1, <1>2, <1>5, <1>9, <1>10, <1>11, <1>13, <1>14, <1>15 DEF Reading

(* Whatever the script, the parser, the server and its users do. *)
LEMMA StoredStep ==
  ASSUME Stored, [Next]_vars
  PROVE  Stored'
<1>1. ASSUME UNCHANGED <<site, parsed, disk, whole>> PROVE Stored'
  BY <1>1 DEF Stored, SavedText, Record
<1>2. CASE ParserCompletes \/ ParserCutShort
  <2>1. PICK files, n :
          /\ files \in FilesLists /\ Parse(files, n)
          /\ n \in 0 .. Len(SavedText(ParseHtml(files)))
    <3>1. CASE ParserCompletes
      <4>1. PICK files \in FilesLists : Parse(files, Len(SavedText(ParseHtml(files))))
        BY <3>1 DEF ParserCompletes
      <4>2. PICK saved, docs : saved = SavedText(docs) /\ docs = ParseHtml(files)
        OBVIOUS
      <4>3. saved \in Seq(Chars)
        <5>1. site # NoSite /\ site \in Sites
          BY <4>1 DEF Parse, Stored
        <5>2. docs \in Seq(OneLine(Chars))
          BY <4>2, <5>1, FilesListed, HtmlParsed, DocumentsAre
        <5>3. RecordOf(Chars) \in [OneLine(Chars) -> Seq(Chars)]
          BY CharsMarks, RecordIsLine DEF RecordOf
        <5>4. FlatMap(RecordOf(Chars), docs) \in Seq(Chars)
          BY <5>2, <5>3, FlatMapped
        <5> QED  BY <4>2, <5>2, <5>4, SavedAsRecords
      <4>4. Len(saved) \in 0 .. Len(saved)
        <5>1. PICK k : k = Len(saved) /\ k \in Nat
          BY <4>3, LenProperties
        <5> QED  BY <5>1
      <4> QED  BY <4>1, <4>2, <4>4
    <3>2. CASE ParserCutShort
      <4>1. PICK files \in FilesLists :
              \E n \in 0 .. Len(SavedText(ParseHtml(files))) - 1 : Parse(files, n)
        BY <3>2 DEF ParserCutShort
      <4>2. PICK saved : saved = SavedText(ParseHtml(files))
        OBVIOUS
      <4>3. PICK n \in 0 .. Len(saved) - 1 : Parse(files, n)
        BY <4>1, <4>2
      <4>4. saved \in Seq(Chars)
        <5>1. site # NoSite /\ site \in Sites
          BY <4>3 DEF Parse, Stored
        <5>2. PICK docs : docs = ParseHtml(files)
          OBVIOUS
        <5>3. docs \in Seq(OneLine(Chars))
          BY <5>1, <5>2, FilesListed, HtmlParsed, DocumentsAre
        <5>4. RecordOf(Chars) \in [OneLine(Chars) -> Seq(Chars)]
          BY CharsMarks, RecordIsLine DEF RecordOf
        <5>5. FlatMap(RecordOf(Chars), docs) \in Seq(Chars)
          BY <5>3, <5>4, FlatMapped
        <5> QED  BY <4>2, <5>2, <5>3, <5>5, SavedAsRecords
      <4>5. n \in 0 .. Len(saved)
        <5>1. PICK k : k = Len(saved) /\ k \in Nat
          BY <4>4, LenProperties
        <5> QED  BY <4>3, <5>1
      <4> QED  BY <4>2, <4>3, <4>5
    <3> QED  BY <1>2, <3>1, <3>2
  <2> QED  BY <2>1, ParserStores
<1>3. CASE StartServer \/ IndexLine \/ Listen \/ StopServer \/ Respond \/ UNCHANGED vars
  BY <1>1, <1>3 DEF StartServer, IndexLine, Listen, StopServer, Respond, vars
<1>4. CASE \E query \in Queries : Search(query)
  BY <1>1, <1>4 DEF Search
<1> QED  BY <1>2, <1>3, <1>4 DEF Next

(* The same of what is read. *)
LEMMA ReadingStep ==
  ASSUME Stored, Reading, IInv, [Next]_vars
  PROVE  Reading'
<1>1. ASSUME UNCHANGED <<pc, disk, lines, forward>> PROVE Reading'
  <2>1. Served' = Served /\ Lines(disk.text)' = Lines(disk.text)
    BY <1>1 DEF Served, Bare
  <2>2. pc' = pc /\ lines' = lines /\ forward' = forward
    BY <1>1
  <2> QED  BY <2>1, <2>2 DEF Reading
<1>2. CASE ParserCompletes \/ ParserCutShort
  <2>1. PICK files, n : Parse(files, n)
    BY <1>2 DEF ParserCompletes, ParserCutShort
  <2> QED  BY <2>1 DEF Parse, serverVars, Reading
<1>3. CASE StartServer
  <2>1. /\ pc = "script" /\ pc' = "build" /\ lines' = Lines(disk.text)
        /\ disk' = disk /\ forward' = forward
    BY <1>3 DEF StartServer
  <2>2. PICK all : all = Lines(disk.text)
    OBVIOUS
  <2>3. all \in Seq(Seq(Chars))
    BY <2>2, LinesTyped
  <2>4. <<>> \in Seq(Seq(Chars)) /\ <<>> \o all = all
    BY <2>3, EmptySeq, ConcatEmptySeq
  <2>5. Served' = <<>>
    <3>1. forward' = <<>>
      BY <2>1 DEF Reading
    <3>2. PICK f : f = Served'
      OBVIOUS
    <3>3. DOMAIN forward' = {}
      BY <3>1, EmptyList, LenProperties
    <3>4. DOMAIN f = {} /\ f = [x \in DOMAIN f |-> f[x]]
      BY <3>2, <3>3 DEF Served
    <3> QED  BY <3>2, <3>4, EmptyFunction
  <2>6. FlatMap(Took(Chars), <<>>) = <<>>
    BY <2>4, TookTyped, FlatMapped
  <2>7. Lines(disk.text)' = all
    BY <2>1, <2>2
  <2> QED  BY <2>1, <2>2, <2>3, <2>4, <2>5, <2>6, <2>7 DEF Reading
<1>4. CASE IndexLine
  BY <1>4, LineRead
<1>5. CASE Listen
  <2>1. /\ pc = "build" /\ pc' = "serve" /\ lines = <<>>
        /\ UNCHANGED <<disk, lines, forward>>
    BY <1>5 DEF Listen
  <2>2. Served' = Served /\ Lines(disk.text)' = Lines(disk.text)
    BY <2>1 DEF Served, Bare
  <2> QED  BY <2>1, <2>2 DEF Reading
<1>6. CASE StopServer
  BY <1>6 DEF StopServer, Reading
<1>7. CASE \E query \in Queries : Search(query)
  BY <1>1, <1>7 DEF Search
<1>8. CASE Respond \/ UNCHANGED vars
  BY <1>1, <1>8 DEF Respond, vars
<1> QED  BY <1>2, <1>3, <1>4, <1>5, <1>6, <1>7, <1>8 DEF Next

(* Both hold always. *)
LEMMA ReadingAlways == Spec => [](Stored /\ Reading)
<1>1. Init => Stored /\ Reading
  BY InitStored
<1>2. Stored /\ Reading /\ IInv /\ [Next]_vars => (Stored /\ Reading)'
  BY StoredStep, ReadingStep
<1> QED  BY <1>1, <1>2, Invariance, PTL DEF Spec

(* What is served is texts. *)
LEMMA TextsRead ==
  ASSUME IInv, Reading
  PROVE  TextsServed
<1> SUFFICES ASSUME NEW i \in DOMAIN forward PROVE AreTexts(forward[i])
  BY DEF TextsServed
<1>1. PICK n : n = Len(forward) /\ n \in Nat /\ i \in 1 .. n /\ DOMAIN forward = 1 .. n
  BY LenProperties DEF IInv, Vectors
<1>2. pc \in {"build", "serve"}
  <2>1. DOMAIN <<>> = {}
    BY EmptyList, LenProperties
  <2> QED  BY <2>1 DEF IInv
<1>3. PICK read \in Seq(Seq(Chars)) : Served = FlatMap(Took(Chars), read)
  BY <1>2 DEF Reading
<1>4. PICK q, B : q = Served /\ B = Docs(Chars)
  OBVIOUS
<1>5. q \in Seq(B)
  <2>1. PICK F : F = Took(Chars)
    OBVIOUS
  <2>2. F \in [Seq(Chars) -> Seq(B)]
    BY <1>4, <2>1, TookTyped
  <2>3. FlatMap(F, read) \in Seq(B)
    BY <2>2, FlatMapped
  <2> QED  BY <1>3, <1>4, <2>1, <2>3
<1>6. DOMAIN q = 1 .. n /\ q[i] = Bare(forward[i])
  BY <1>1, <1>4 DEF Served
<1>7. q[i] \in B
  <2>1. i \in 1 .. Len(q)
    BY <1>1, <1>5, <1>6, LenProperties
  <2> QED  BY <1>5, <2>1, ElementOfSeq
<1>8. forward[i].title \in Seq(Chars) /\ forward[i].content \in Seq(Chars)
  <2>1. PICK d : d = q[i]
    OBVIOUS
  <2>2. d.title \in Seq(Chars) /\ d.content \in Seq(Chars)
    BY <1>4, <1>7, <2>1 DEF Docs
  <2>3. d.title = forward[i].title /\ d.content = forward[i].content
    BY <1>6, <2>1 DEF Bare
  <2> QED  BY <2>2, <2>3
<1> QED  BY <1>8, Widened DEF AreTexts, IsText

(* It always is: StartServer reads characters, and takes lines apart.      *)
LEMMA TextsAlways == Spec => []TextsServed
<1>1. IInv /\ Reading => TextsServed
  BY TextsRead
<1> QED  BY <1>1, Invariance, ReadingAlways, PTL

(* The types of the variables: every posting's number is a document's, and *)
(* its weight is positive.                                                 *)
THEOREM TypingAlways == CutsIntoWords => (Spec => []TypeOK)
<1> SUFFICES ASSUME CutsIntoWords PROVE Spec => []TypeOK
  OBVIOUS
<1>1. IInv /\ Records /\ TextsServed => TypeOK
  <2> SUFFICES ASSUME IInv, Records, TextsServed PROVE TypeOK
    OBVIOUS
  <2>1. ASSUME NEW w \in DOMAIN inverted, NEW k \in DOMAIN inverted[w]
        PROVE  /\ inverted[w][k].doc_id \in 0 .. Len(forward) - 1
               /\ inverted[w][k].weight \in Nat \ {0}
    <3>1. PICK list : list = inverted[w]
      OBVIOUS
    <3>2. ListExact(list, w, forward) /\ k \in DOMAIN list
      BY <3>1 DEF IInv, IndexExact
    <3>3. PICK doc : doc = forward[list[k].doc_id + 1]
      OBVIOUS
    <3>4. /\ list[k].doc_id \in 0 .. Len(forward) - 1
          /\ Holds(doc, w) /\ list[k].weight = WeightIn(doc, w)
      BY <3>2, <3>3 DEF ListExact
    <3>5. AreTexts(doc)
      BY <3>3, <3>4, ServedAt
    <3> QED  BY <3>1, <3>4, <3>5, WeightPositive
  <2> QED  BY <2>1 DEF IInv, Records, TypeOK
<1> QED  BY <1>1, Invariance, RecordsAlways, TextsAlways, PTL

(* A search through the index answers what reading every document from end *)
(* to end would: the hits, each once, their ranks, their titles and urls.  *)
THEOREM SearchIsScan == CutsIntoWords => (Spec => ImplementsScan)
<1> SUFFICES ASSUME CutsIntoWords PROVE Spec => ImplementsScan
  OBVIOUS
<1>1. Init => Scan!Init
  <2> SUFFICES ASSUME Init PROVE Scan!Init
    OBVIOUS
  <2>1. Published = <<>> /\ Found = <<>> /\ asked = <<>>
    BY NothingFound DEF Init, Published
  <2> QED  BY <2>1 DEF Scan!Init, Found, Published
<1>2. IInv /\ TextsServed /\ Quiet /\ [Next]_vars => [Scan!Next]_(Scan!vars)
  BY StepScans
<1> QED  BY <1>1, <1>2, Invariance, TextsAlways, AskedWhenServing, PTL
         DEF Spec, ImplementsScan, Scan!Spec

-----------------------------------------------------------------------------
(* The whole way *)

(* Fit is the documents that have a content. *)
LEMMA FitUnits ==
  ASSUME parsed \in Seq(OneLine(Chars))
  PROVE  Fit = FlatMap(UnitOf(Chars), parsed)
<1>1. \A k \in DOMAIN parsed : parsed[k] \in OneLine(Chars)
  BY LenProperties, ElementOfSeq
<1>2. \A k \in DOMAIN parsed :
        UnitOf(Chars)[parsed[k]] = IF parsed[k].content = <<>> THEN <<>> ELSE <<parsed[k]>>
  BY <1>1, Zenon DEF UnitOf
<1>3. Mapped(UnitOf(Chars), parsed) =
        [k \in DOMAIN parsed |-> IF parsed[k].content = <<>> THEN <<>> ELSE <<parsed[k]>>]
  BY <1>2, Zenon DEF Mapped
<1> QED  BY <1>3, Zenon DEF Fit, FlatMap

(* Documents that have no separators anywhere. *)
LEMMA CleanDocuments ==
  ASSUME parsed \in Seq(Documents), NoSeparators
  PROVE  Clean(parsed)
<1>1. /\ parsed \in Seq(OneLine(Chars)) /\ DOMAIN parsed = 1 .. Len(parsed)
      /\ \A k \in 1 .. Len(parsed) : Free(parsed[k].url, Sep)
  BY DocumentsAre, LenProperties
<1>2. ASSUME NEW k \in 1 .. Len(parsed)
      PROVE  Free(parsed[k].title, Sep) /\ Free(parsed[k].content, Sep)
  <2>1. PICK t, c, r : t = parsed[k].title /\ c = parsed[k].content /\ r = t \o c
    OBVIOUS
  <2>2. t \in Seq(Chars) /\ c \in Seq(Chars)
    <3>1. parsed[k] \in OneLine(Chars)
      BY <1>1, ElementOfSeq
    <3> QED  BY <2>1, <3>1 DEF OneLine, Docs
  <2>3. /\ r \in Seq(Chars) /\ Len(r) = Len(t) + Len(c) /\ Len(t) \in Nat /\ Len(c) \in Nat
        /\ \A i \in 1 .. Len(t) + Len(c) : r[i] = IF i <= Len(t) THEN t[i] ELSE c[i - Len(t)]
    BY <2>1, <2>2, ConcatProperties, LenProperties
  <2>4. DOMAIN r = 1 .. Len(t) + Len(c)
    BY <2>3, LenProperties
  <2>5. PICK m, n : m = Len(t) /\ n = Len(c) /\ m \in Nat /\ n \in Nat
    BY <2>3
  <2>6. \A i \in 1 .. m + n : r[i] # Sep
    BY <1>1, <2>1, <2>4, <2>5 DEF NoSeparators, Range
  <2>7. ASSUME NEW i \in 1 .. m PROVE t[i] # Sep
    <3>1. i \in 1 .. m + n /\ i <= m
      BY <2>5
    <3> QED  BY <2>3, <2>5, <2>6, <3>1
  <2>8. ASSUME NEW i \in 1 .. n PROVE c[i] # Sep
    <3>1. m + i \in 1 .. m + n /\ ~(m + i <= m) /\ (m + i) - m = i
      BY <2>5
    <3>2. r[m + i] = c[i]
      BY <2>3, <2>5, <3>1
    <3> QED  BY <2>6, <3>1, <3>2
  <2> QED  BY <2>1, <2>5, <2>7, <2>8 DEF Free
<1> QED  BY <1>1, <1>2 DEF Clean

(* A list that is ahead in Fit is served. *)
LEMMA ServedAhead ==
  ASSUME IInv, NEW T, NEW a \in Seq(T), Served = a, Ahead(a, Fit), whole => a = Fit
  PROVE  ServesTheParsed
<1>1. Len(forward) = Len(a) /\ Len(a) \in Nat
  <2>1. /\ DOMAIN Served = DOMAIN forward /\ DOMAIN forward = 1 .. Len(forward)
        /\ Len(forward) \in Nat
    BY LenProperties DEF Served, IInv, Vectors
  <2>2. DOMAIN a = 1 .. Len(a) /\ Len(a) \in Nat
    BY LenProperties
  <2> QED  BY <2>1, <2>2
<1>2. Len(a) <= Len(Fit) /\ (whole => Len(a) = Len(Fit))
      /\ \A i \in 1 .. Len(a) : Served[i] = Fit[i]
  BY DEF Ahead
<1> QED  BY <1>1, <1>2, Zenon DEF ServesTheParsed

(* The last document served may have lost the end of its url.              *)
LEMMA ServedShortened ==
  ASSUME IInv, ~whole, NEW T, NEW a \in Seq(T), NEW doc, NEW s,
         Served = Append(a, [doc EXCEPT !.url = s]),
         doc = [title |-> doc.title, content |-> doc.content, url |-> doc.url],
         IsPrefix(s, doc.url), Ahead(Append(a, doc), Fit)
  PROVE  ServesTheParsed
<1>1. PICK n, d, b, c : /\ n = Len(a) /\ d = [doc EXCEPT !.url = s]
                        /\ b = Append(a, d) /\ c = Append(a, doc)
  OBVIOUS
<1>2. /\ n \in Nat /\ DOMAIN b = 1 .. n + 1 /\ b[n + 1] = d
      /\ \A i \in 1 .. n : b[i] = a[i]
  BY <1>1, PushedBack
<1>3. /\ Len(c) = n + 1 /\ c[n + 1] = doc /\ \A i \in 1 .. n : c[i] = a[i]
  BY <1>1, PushedBack
<1>4. Len(forward) = n + 1
  <2>1. /\ DOMAIN Served = DOMAIN forward /\ DOMAIN forward = 1 .. Len(forward)
        /\ Len(forward) \in Nat
    BY LenProperties DEF Served, IInv, Vectors
  <2>2. PICK m : m = Len(forward) /\ m \in Nat
    BY <2>1
  <2>3. 1 .. m = 1 .. n + 1
    BY <1>1, <1>2, <2>1, <2>2
  <2>4. n + 1 \in 1 .. m
    <3>1. n + 1 \in 1 .. n + 1
      BY <1>2
    <3> QED  BY <2>3, <3>1, Zenon
  <2>5. m \in 1 .. n + 1
    BY <2>2, <2>3, <2>4
  <2> QED  BY <1>2, <2>2, <2>4, <2>5
<1>5. n + 1 <= Len(Fit) /\ \A i \in 1 .. n + 1 : Fit[i] = c[i]
  BY <1>1, <1>3 DEF Ahead
<1>6. d.url = s /\ [d EXCEPT !.url = doc.url] = doc
  BY <1>1
<1>7. ASSUME NEW i \in 1 .. n + 1
      PROVE  \/ Served[i] = Fit[i]
             \/ /\ ~whole /\ i = n + 1
                /\ [Served[i] EXCEPT !.url = Fit[i].url] = Fit[i]
                /\ IsPrefix(Served[i].url, Fit[i].url)
  <2>1. CASE i \in 1 .. n
    BY <1>1, <1>2, <1>3, <1>5, <2>1
  <2>2. CASE i = n + 1
    <3>1. Served[i] = d /\ Fit[i] = doc
      BY <1>1, <1>2, <1>3, <1>5, <2>2
    <3>2. IsPrefix(d.url, doc.url)
      BY <1>6
    <3>3. PICK x, y : x = Served[i] /\ y = Fit[i]
      OBVIOUS
    <3>4. [x EXCEPT !.url = y.url] = y /\ IsPrefix(x.url, y.url)
      BY <1>6, <3>1, <3>2, <3>3
    <3>5. [Served[i] EXCEPT !.url = Fit[i].url] = Fit[i]
      BY <3>3, <3>4, Zenon
    <3>6. IsPrefix(Served[i].url, Fit[i].url)
      BY <3>3, <3>4, Zenon
    <3> QED  BY <2>2, <3>5, <3>6, Zenon
  <2>3. i \in 1 .. n \/ i = n + 1
    BY <1>2
  <2> QED  BY <2>1, <2>2, <2>3, Zenon
<1> QED  BY <1>4, <1>5, <1>7, Zenon DEF ServesTheParsed

(* A server that has read its file. *)
LEMMA ServedWell ==
  ASSUME Stored, Reading, IInv, pc = "serve", NoSeparators
  PROVE  ServesTheParsed
<1>1. PICK j, p : StoredLines(j, p)
  BY LinesStored
<1>2. PICK docs, first, ls, F, U, v, T :
        /\ docs = parsed /\ first = SubSeq(docs, 1, j) /\ ls = Mapped(LineOf(Chars), first)
        /\ F = Took(Chars) /\ U = UnitOf(Chars) /\ v = Len(docs) /\ T = Docs(Chars)
  OBVIOUS
<1>3. /\ docs \in Seq(OneLine(Chars)) /\ Clean(docs) /\ Fit = FlatMap(U, docs)
      /\ Marks(Chars) /\ v \in Nat
  BY <1>2, DocumentsAre, CleanDocuments, FitUnits, CharsMarks, LenProperties DEF Stored
<1>4. /\ j \in 0 .. v /\ p \in Seq(Chars)
      /\ p # <<>> => /\ j < v
                     /\ \E r \in 0 .. Len(Line(docs[j + 1])) : p = SubSeq(Line(docs[j + 1]), 1, r)
      /\ whole => j = v /\ p = <<>>
      /\ first \in Seq(OneLine(Chars)) /\ ls \in Seq(Seq(Chars))
      /\ Lines(disk.text) = IF p = <<>> THEN ls ELSE Append(ls, p)
  BY <1>1, <1>2 DEF StoredLines, Kept
<1>5. F \in [Seq(Chars) -> Seq(T)] /\ U \in [OneLine(Chars) -> Seq(T)]
  BY <1>2, TookTyped
<1>6. Served = FlatMap(F, Lines(disk.text))
  <2>1. lines = <<>>
    BY DEF Reading
  <2>2. PICK read \in Seq(Seq(Chars)) :
          Lines(disk.text) = read \o <<>> /\ Served = FlatMap(F, read)
    BY <1>2, <2>1 DEF Reading
  <2> QED  BY <2>2, ConcatEmptySeq
<1>7. PICK a : a = FlatMap(U, first)
  OBVIOUS
<1>8. FlatMap(F, ls) = a
  <2>1. Clean(first)
    <3>1. Len(first) = j /\ \A i \in 1 .. j : first[i] = docs[i] /\ i \in 1 .. v
      <4>1. \A i \in 1 .. j : i \in 1 .. v
        BY <1>3, <1>4
      <4>2. \A i \in 1 .. j : docs[i] \in OneLine(Chars)
        BY <1>2, <1>3, <4>1, ElementOfSeq
      <4>3. j \in Int /\ 1 \in Int /\ j \in 0 .. Len(docs) /\ j - 1 + 1 = j
        BY <1>2, <1>3, <1>4
      <4>4. Len(first) = j
        BY <1>2, <1>3, <4>3, CutOff
      <4>5. \A i \in 1 .. j - 1 + 1 : SubSeq(docs, 1, j)[i] = docs[1 + i - 1]
        BY <4>2, <4>3, SubSeqProperties
      <4>6. \A i \in 1 .. j : 1 + i - 1 = i
        BY <4>3
      <4> QED  BY <1>2, <4>1, <4>3, <4>4, <4>5, <4>6
    <3> QED  BY <1>2, <1>3, <3>1 DEF Clean
  <2> QED  BY <1>2, <1>3, <1>4, <1>7, <2>1, LinesTaken
<1>9. a \in Seq(T) /\ Ahead(a, Fit)
  <2>1. j \in 0 .. Len(docs)
    BY <1>2, <1>4
  <2> QED  BY <1>2, <1>3, <1>7, <2>1, UnitsAhead
<1>10. ASSUME Served = a PROVE ServesTheParsed
  <2>1. whole => a = Fit
    <3>1. SubSeq(docs, 1, v) = docs
      BY <1>2, <1>3, SubSeqFull
    <3> QED  BY <1>2, <1>3, <1>4, <1>7, <3>1
  <2> QED  BY <1>9, <1>10, <2>1, ServedAhead
<1>11. CASE p = <<>>
  BY <1>4, <1>6, <1>8, <1>10, <1>11
<1>12. CASE p # <<>>
  <2>1. ~whole /\ j \in 0 .. v - 1 /\ j + 1 \in 1 .. v
    BY <1>3, <1>4, <1>12
  <2>2. PICK doc : doc = docs[j + 1]
    OBVIOUS
  <2>3. PICK r \in 0 .. Len(Line(doc)) : p = SubSeq(Line(doc), 1, r)
    BY <1>4, <1>12, <2>2
  <2>4. doc \in OneLine(Chars)
    BY <1>2, <1>3, <2>1, <2>2, ElementOfSeq
  <2>5. TookPart(Chars, doc, p)
    <3>1. Free(doc.title, Sep) /\ Free(doc.content, Sep) /\ Free(doc.url, Sep)
      BY <1>2, <1>3, <2>1, <2>2 DEF Clean
    <3> QED  BY <1>3, <2>3, <2>4, <3>1, LineTaken
  <2>6. Served = a \o F[p]
    <3>1. FlatMaps(F, ls, p)
      BY <1>4, <1>5, FlatMapped
    <3> QED  BY <1>4, <1>6, <1>8, <1>12, <3>1 DEF FlatMaps
  <2>7. CASE F[p] = <<>>
    BY <1>9, <1>10, <2>6, <2>7, ConcatEmptySeq
  <2>8. ASSUME NEW s \in Seq(Chars), doc.content # <<>>, IsPrefix(s, doc.url),
               F[p] = <<[doc EXCEPT !.url = s]>>
        PROVE  ServesTheParsed
    <3>1. doc = [title |-> doc.title, content |-> doc.content, url |-> doc.url]
          /\ doc \in T
      BY <1>2, <2>4 DEF OneLine, Docs
    <3>2. PICK d : d = [doc EXCEPT !.url = s]
      OBVIOUS
    <3>3. d \in T
      BY <1>2, <3>1, <3>2 DEF Docs
    <3>4. Served = Append(a, d)
      BY <1>9, <2>6, <2>8, <3>2, <3>3, AppendIsConcat
    <3>5. Ahead(Append(a, doc), Fit)
      <4>1. j \in 0 .. Len(docs) - 1 /\ docs[j + 1].content # <<>>
        BY <1>2, <2>1, <2>2, <2>8
      <4> QED  BY <1>2, <1>3, <1>7, <2>2, <4>1, UnitNext
    <3> QED  BY <1>9, <2>1, <2>8, <3>1, <3>2, <3>4, <3>5, ServedShortened
  <2> QED  BY <1>2, <2>5, <2>7, <2>8 DEF TookPart
<1> QED  BY <1>11, <1>12

(* What the server has in its index, once it listens, is what the parser   *)
(* made of the files, through SaveHtml, the disk, getline, Split and       *)
(* BuildForwardIndex: every document with a content, in their order, when  *)
(* raw.txt was written to its end; otherwise a first part of them, of      *)
(* which only the last may have lost the end of its url. It holds for any  *)
(* site, wherever the writing stopped and however often both are run.      *)
THEOREM ServedAsParsed == Spec => []ServesTheParsed
<1>1. Stored /\ Reading /\ IInv => ServesTheParsed
  <2> SUFFICES ASSUME Stored, Reading, IInv PROVE ServesTheParsed
    OBVIOUS
  <2>1. CASE pc = "serve" /\ NoSeparators
    BY <2>1, ServedWell
  <2>2. CASE ~(pc = "serve" /\ NoSeparators)
    BY <2>2, Zenon DEF ServesTheParsed
  <2> QED  BY <2>1, <2>2
<1> QED  BY <1>1, ReadingAlways, Invariance, PTL

-----------------------------------------------------------------------------
(* Excerpts *)

(* What lies between two places of a text. *)
Within(q, i, j, p) ==
  /\ Len(p) = j - i + 1
  /\ \A k \in 1 .. j - i + 1 : p[k] = q[i + k - 1]
LEMMA Between ==
  ASSUME NEW S, NEW q \in Seq(S), NEW i \in 1 .. Len(q), NEW j \in i .. Len(q)
  PROVE  SubSeq(q, i, j) \in Seq(S) /\ Within(q, i, j, SubSeq(q, i, j))
<1>1. PICK n : n = Len(q) /\ n \in Nat
  BY LenProperties
<1>2. i \in Int /\ j \in Int /\ i <= j /\ \A k \in i .. j : k \in 1 .. n
  BY <1>1
<1>3. \A k \in i .. j : q[k] \in S
  BY <1>1, <1>2, ElementOfSeq
<1>4. /\ SubSeq(q, i, j) \in Seq(S)
      /\ Len(SubSeq(q, i, j)) = IF i <= j THEN j - i + 1 ELSE 0
      /\ \A k \in 1 .. j - i + 1 : SubSeq(q, i, j)[k] = q[i + k - 1]
  BY <1>2, <1>3, SubSeqProperties
<1> QED  BY <1>2, <1>4, Zenon DEF Within

(* A part of a text that stands in another is a part of that one.          *)
LEMMA PartHeld ==
  ASSUME NEW S, NEW p \in Seq(S), NEW q \in Seq(S), NEW m, HeldAt(p, q, m),
         NEW i \in 1 .. Len(p), NEW j \in i .. Len(p)
  PROVE  /\ m + i \in 1 .. Len(q) /\ m + j \in m + i .. Len(q)
         /\ SubSeq(q, m + i, m + j) = SubSeq(p, i, j)
<1>1. PICK a, b : a = Len(p) /\ b = Len(q) /\ a \in Nat /\ b \in Nat
  BY LenProperties
<1>2. m \in Nat /\ m + a <= b /\ \A k \in 1 .. a : q[m + k] = p[k]
  BY <1>1 DEF HeldAt
<1>3. /\ m \in Nat /\ m + a <= b /\ a \in Nat /\ b \in Nat
      /\ i \in Nat /\ j \in Nat /\ 1 <= i /\ i <= j /\ j <= a
  <2>1. a \in Nat /\ b \in Nat /\ m \in Nat /\ m + a <= b /\ i \in 1 .. a /\ j \in i .. a
    BY <1>1, <1>2
  <2> QED  BY <2>1
<1>4. m + i \in 1 .. b /\ m + j \in m + i .. b
  BY <1>3
<1>5. PICK x, y : x = SubSeq(q, m + i, m + j) /\ y = SubSeq(p, i, j)
  OBVIOUS
<1>6. x \in Seq(S) /\ Within(q, m + i, m + j, x)
  BY <1>1, <1>4, <1>5, Between
<1>7. y \in Seq(S) /\ Within(p, i, j, y)
  BY <1>5, Between
<1>8. PICK l : l = j - i + 1 /\ (m + j) - (m + i) + 1 = l
               /\ \A k \in 1 .. l : m + i + k - 1 = m + (i + k - 1) /\ i + k - 1 \in 1 .. a
  BY <1>3
<1>9. Len(x) = l /\ Len(y) = l
  BY <1>6, <1>7, <1>8 DEF Within
<1>10. ASSUME NEW k \in 1 .. l PROVE x[k] = y[k]
  <2>1. x[k] = q[m + (i + k - 1)]
    BY <1>6, <1>8 DEF Within
  <2>2. y[k] = p[i + k - 1]
    BY <1>7, <1>8 DEF Within
  <2> QED  BY <1>2, <1>8, <2>1, <2>2
<1>11. x = y
  BY <1>6, <1>7, <1>9, <1>10, SeqEqual
<1> QED  BY <1>1, <1>4, <1>5, <1>11

(* The lower case of a text is as long, and has no other lower case.       *)
LEMMA Lowered ==
  ASSUME NEW S, NEW w \in Seq(S)
  PROVE  Len(Lower(w)) = Len(w) /\ Lower(Lower(w)) = Lower(w)
<1>1. PICK n : n = Len(w) /\ n \in Nat /\ DOMAIN w = 1 .. n
  BY LenProperties
<1>2. PICK v : v = Lower(w)
  OBVIOUS
<1>3. DOMAIN v = 1 .. n
      /\ \A i \in 1 .. n : v[i] = IF w[i] \in DOMAIN LowerCase THEN LowerCase[w[i]] ELSE w[i]
  BY <1>1, <1>2 DEF Lower
<1>4. Len(v) = n
  <2>1. v = [i \in 1 .. n |-> v[i]]
    BY <1>1, <1>2 DEF Lower
  <2>2. v \in [1 .. n -> Range(v)]
    BY <1>3, <2>1 DEF Range
  <2>3. v \in Seq(Range(v))
    BY <1>1, <2>2, SeqDef
  <2>4. PICK m : m = Len(v) /\ m \in Nat /\ 1 .. m = 1 .. n
    BY <1>3, <2>3, LenProperties
  <2>5. n \in Nat /\ \A x : x \in 1 .. m <=> x \in 1 .. n
    <3>1. 1 .. m = 1 .. n
      BY <2>4
    <3>2. \A x : x \in 1 .. m <=> x \in 1 .. n
      BY <3>1, Zenon
    <3> QED  BY <1>1, <3>2, Zenon
  <2>6. m = n
    <3>1. m \in Nat
      BY <2>4
    <3>2. n >= 1 => n \in 1 .. m
      <4>1. n >= 1 => n \in 1 .. n
        BY <2>5
      <4> QED  BY <2>5, <4>1, Zenon
    <3>3. m >= 1 => m \in 1 .. n
      <4>1. m >= 1 => m \in 1 .. m
        BY <3>1
      <4> QED  BY <2>5, <4>1, Zenon
    <3> QED  BY <2>5, <3>1, <3>2, <3>3
  <2> QED  BY <2>4, <2>6
<1>5. \A i \in 1 .. n : v[i] \notin DOMAIN LowerCase
  BY <1>3, LowerAssumption
<1>6. Lower(v) = [i \in 1 .. n |-> v[i]]
  <2>1. \A i \in 1 .. n : (IF v[i] \in DOMAIN LowerCase THEN LowerCase[v[i]] ELSE v[i]) = v[i]
    BY <1>5
  <2>2. Lower(v) = [i \in 1 .. n |-> IF v[i] \in DOMAIN LowerCase THEN LowerCase[v[i]] ELSE v[i]]
    BY <1>3, Zenon DEF Lower
  <2> QED  BY <2>1, <2>2, Zenon
<1>7. v = [i \in 1 .. n |-> v[i]]
  BY <1>1, <1>2 DEF Lower
<1> QED  BY <1>1, <1>2, <1>4, <1>6, <1>7

(* GetDesc finds the place of a word that is cut out of a part of the      *)
(* content, whatever the case.                                             *)
LEMMA WordPlaced ==
  ASSUME NEW S, NEW p \in Seq(S), NEW q \in Seq(S), HeldIn(p, q),
         NEW i \in 1 .. Len(p), NEW j \in i .. Len(p), NEW w, w = Lower(SubSeq(p, i, j))
  PROVE  Places(q, w) # {} /\ Len(w) \in Nat \ {0}
<1>1. PICK m : HeldAt(p, q, m)
  BY DEF HeldIn
<1>2. PICK x, y, a, b : x = m + i /\ y = m + j /\ a = Len(p) /\ b = Len(q)
  OBVIOUS
<1>3. /\ a \in Nat /\ b \in Nat /\ m \in Nat
      /\ i \in 1 .. a /\ j \in i .. a /\ x \in 1 .. b /\ y \in x .. b
      /\ SubSeq(q, x, y) = SubSeq(p, i, j)
  BY <1>1, <1>2, LenProperties, PartHeld DEF HeldAt
<1>4. PICK u : u = SubSeq(q, x, y) /\ u \in Seq(S) /\ Within(q, x, y, u)
  BY <1>2, <1>3, Between
<1>5. Len(w) = Len(u) /\ Lower(w) = w /\ w = Lower(u)
  BY <1>3, <1>4, Lowered
<1>6. Len(w) = y - x + 1
  BY <1>4, <1>5 DEF Within
<1>7. PICK l : l = y - x + 1 /\ l \in Nat \ {0} /\ x + l - 1 = y /\ x \in 1 .. b - l + 1
  <2>1. x \in Nat /\ y \in Nat /\ b \in Nat /\ 1 <= x /\ x <= y /\ y <= b
    BY <1>3
  <2> QED  BY <2>1
<1>8. Lower(SubSeq(q, x, x + l - 1)) = Lower(w)
  BY <1>4, <1>5, <1>7
<1>9. x \in Places(q, w)
  BY <1>2, <1>6, <1>7, <1>8, Zenon DEF Places
<1> QED  BY <1>6, <1>7, <1>9

(* An excerpt is a part of the content that is not empty.                  *)
ExcerptIn(content, desc) ==
  \/ desc = None2 /\ Len(content) = 1
  \/ \E i, j \in DOMAIN content : i <= j /\ desc = SubSeq(content, i, j)
LEMMA ExcerptPlaced ==
  ASSUME NEW S, NEW q \in Seq(S), NEW w, Len(w) \in Nat \ {0}, Places(q, w) # {}
  PROVE  ExcerptIn(q, GetDesc(q, w))
<1>1. PICK n, l, P : /\ n = Len(q) /\ n \in Nat /\ DOMAIN q = 1 .. n
                     /\ l = Len(w) /\ l \in Nat \ {0} /\ P = Places(q, w)
  BY LenProperties
<1>2. P \subseteq 1 .. n - l + 1
  BY <1>1, Zenon DEF Places
<1>3. PICK x : x = Min(P) /\ x \in P
  <2>1. P \subseteq Nat /\ P # {}
    <3>1. \A k \in 1 .. n - l + 1 : k \in Nat
      BY <1>1
    <3> QED  BY <1>1, <1>2, <3>1
  <2>2. PICK k \in P : \A y \in P : k <= y
    BY <2>1, LeastNumber
  <2> QED  BY <2>2, Zenon DEF Min
<1>4. PICK pos : pos = x - 1 /\ pos \in 0 .. n - 1 /\ n \in Nat \ {0}
  <2>1. x \in 1 .. n - l + 1
    BY <1>2, <1>3
  <2>2. n \in Nat /\ l \in Nat \ {0}
    BY <1>1
  <2>3. x - 1 \in 0 .. n - 1 /\ n \in Nat \ {0}
    BY <2>1, <2>2
  <2> QED  BY <2>3, Zenon
<1>5. GetDesc(q, w) = IF NoExcerpt(n, pos) THEN None2
                      ELSE SubSeq(q, ExcerptStart(pos) + 1, ExcerptEnd(n, pos))
  BY <1>1, <1>3, <1>4, Zenon DEF GetDesc
<1>6. PICK s, e : s = ExcerptStart(pos) /\ e = ExcerptEnd(n, pos)
  OBVIOUS
<1>7. /\ s \in 0 .. pos /\ (s = pos => pos = 0)
      /\ e \in pos .. n - 1 /\ (e = pos => pos = n - 1)
  <2>1. PrevStep \in Nat \ {0} /\ NextStep \in Nat \ {0}
    BY StepsAssumption
  <2>2. pos \in 0 .. n - 1 /\ n \in Nat \ {0}
    BY <1>4
  <2>3. s \in 0 .. pos /\ (s = pos => pos = 0)
    BY <1>6, <2>1, <2>2 DEF ExcerptStart
  <2>4. e \in pos .. n - 1 /\ (e = pos => pos = n - 1)
    BY <1>6, <2>1, <2>2 DEF ExcerptEnd
  <2> QED  BY <2>3, <2>4
<1>8. CASE s >= e
  <2>1. n = 1
    BY <1>4, <1>7, <1>8
  <2>2. GetDesc(q, w) = None2
    BY <1>5, <1>6, <1>8 DEF NoExcerpt
  <2> QED  BY <1>1, <2>1, <2>2 DEF ExcerptIn
<1>9. CASE ~(s >= e)
  <2>1. GetDesc(q, w) = SubSeq(q, s + 1, e)
    BY <1>5, <1>6, <1>9 DEF NoExcerpt
  <2>2. s + 1 \in 1 .. n /\ e \in 1 .. n /\ s + 1 <= e
    BY <1>4, <1>7, <1>9
  <2> QED  BY <1>1, <2>1, <2>2 DEF ExcerptIn
<1> QED  BY <1>8, <1>9

(* Every word that Cut makes of a text is a piece of it and not empty.     *)
CutsIntoPieces ==
  \A C : \A text \in Seq(C) : \A w \in Range(Cut(text)) :
    \E i, j \in 1 .. Len(text) : i <= j /\ w = SubSeq(text, i, j)

(* The documents the parser made and the server can have are such.         *)
LEMMA FitTyped ==
  ASSUME parsed \in Seq(Documents)
  PROVE  Fit \in Seq(Documents)
<1>1. PICK F : F = [doc \in Documents |-> IF doc.content = <<>> THEN <<>> ELSE <<doc>>]
  OBVIOUS
<1>2. F \in [Documents -> Seq(Documents)]
  <2>1. ASSUME NEW doc \in Documents PROVE F[doc] \in Seq(Documents)
    <3>1. <<>> \in Seq(Documents) /\ <<doc>> \in Seq(Documents)
      BY EmptySeq
    <3>2. F[doc] = <<>> \/ F[doc] = <<doc>>
      BY <1>1
    <3> QED  BY <3>1, <3>2
  <2>2. F = [doc \in Documents |-> F[doc]]
    BY <1>1, Zenon
  <2> QED  BY <2>1, <2>2, Zenon
<1>3. Fit = FlatMap(F, parsed)
  <2>1. \A k \in DOMAIN parsed : parsed[k] \in Documents
    BY LenProperties, ElementOfSeq
  <2>2. \A k \in DOMAIN parsed :
          F[parsed[k]] = IF parsed[k].content = <<>> THEN <<>> ELSE <<parsed[k]>>
    BY <1>1, <2>1, Zenon
  <2>3. Mapped(F, parsed) =
          [k \in DOMAIN parsed |-> IF parsed[k].content = <<>> THEN <<>> ELSE <<parsed[k]>>]
    BY <2>2, Zenon DEF Mapped
  <2> QED  BY <2>3, Zenon DEF Fit, FlatMap
<1>4. FlatMap(F, parsed) \in Seq(Documents)
  BY <1>2, FlatMapped
<1> QED  BY <1>3, <1>4

(* So are those it serves, whose title and content are what was parsed.    *)
TextsOf(doc) ==
  doc.title \in Seq(Chars) /\ doc.content \in Seq(Chars) /\ TitleRead(doc.title, doc.content)
LEMMA ServedTexts ==
  ASSUME Stored, IInv, ServesTheParsed, pc = "serve", NoSeparators,
         NEW i \in DOMAIN forward
  PROVE  TextsOf(forward[i])
<1>1. PICK n : n = Len(forward) /\ n \in Nat /\ i \in 1 .. n
  BY LenProperties DEF IInv, Vectors
<1>2. PICK d, f : d = Served[i] /\ f = Fit[i]
  OBVIOUS
<1>3. n <= Len(Fit) /\ (d = f \/ [d EXCEPT !.url = f.url] = f)
  BY <1>1, <1>2, Zenon DEF ServesTheParsed
<1>4. Fit \in Seq(Documents)
  BY FitTyped DEF Stored
<1>5. f \in Documents
  <2>1. PICK v : v = Len(Fit) /\ v \in Nat
    BY <1>4, LenProperties
  <2>2. i \in 1 .. v
    BY <1>1, <1>3, <2>1
  <2> QED  BY <1>2, <1>4, <2>1, <2>2, ElementOfSeq
<1>6. TextsOf(f)
  <2>1. f \in OneLine(Chars) /\ TitleRead(f.title, f.content)
    BY <1>5 DEF Documents
  <2> QED  BY <2>1 DEF OneLine, Docs, TextsOf
<1>7. /\ d = [title |-> forward[i].title, content |-> forward[i].content, url |-> forward[i].url]
  BY <1>2 DEF Served, Bare
<1>8. d.title = f.title /\ d.content = f.content
  BY <1>3, <1>7
<1>9. forward[i].title = f.title /\ forward[i].content = f.content
  BY <1>7, <1>8
<1> QED  BY <1>6, <1>9 DEF TextsOf

(* The word in tokens_map is one the document holds. *)
LEMMA WordHits ==
  ASSUME CutsIntoWords, IInv, TextsServed, NEW query, IsText(query),
         NEW id \in DOMAIN TokensMap(query)
  PROVE  id \in 0 .. Len(forward) - 1 /\ Holds(forward[id + 1], TokensMap(query)[id].word)
<1>1. PICK ws, D, t : ws = Words(query) /\ D = DOMAIN ws /\ t = TokensMap(query)
  OBVIOUS
<1>2. PICK n \in Nat : D = 1 .. n
  BY <1>1, WordPlaces
<1>3. t = Tokens(ws, D)
  BY <1>1, TokensAre
<1>4. PICK k \in D : id \in Hitting(ws[k])
  BY <1>1, <1>3 DEF Tokens, HitBySome
<1>5. PICK H : H = {l \in D : id \in Hitting(ws[l])}
  OBVIOUS
<1>6. PICK l \in H : \A j \in H : l <= j
  <2>1. H # {} /\ H \subseteq Nat
    BY <1>2, <1>4, <1>5
  <2> QED  BY <2>1, LeastNumber
<1>7. FirstWord(ws, id, D) \in D /\ id \in Hitting(ws[FirstWord(ws, id, D)])
  <2>1. l \in D /\ id \in Hitting(ws[l]) /\ \A j \in D : id \in Hitting(ws[j]) => l <= j
    BY <1>5, <1>6
  <2> QED  BY <2>1, Zenon DEF FirstWord
<1>8. t[id].word = ws[FirstWord(ws, id, D)]
  <2>1. id \in HitBySome(ws, D)
    BY <1>1, <1>3 DEF Tokens
  <2>2. t[id] = [weight |-> Cardinality(Units(Weights(ws, id), D)),
                 word   |-> ws[FirstWord(ws, id, D)]]
    BY <1>3, <2>1, Zenon DEF Tokens
  <2> QED  BY <2>2
<1> QED  BY <1>1, <1>7, <1>8 DEF Hitting

(* Each hit of an answer shows a document that holds a word that was found. *)
ShownOf(hit, doc, w) ==
  /\ hit.title = doc.title /\ hit.url = doc.url
  /\ hit.desc = GetDesc(doc.content, w) /\ Holds(doc, w)
Answered ==
  \A k \in DOMAIN answer : \E i \in DOMAIN forward : \E w :
    ShownOf(answer[k], forward[i], w)
LEMMA SearchAnswers ==
  ASSUME CutsIntoWords, IInv, TextsServed, NEW query \in Queries, Search(query)
  PROVE  Answered'
<1>1. PICK t, p : /\ t = TokensMap(query) /\ p \in Sorted(t)
                  /\ answer' = [k \in DOMAIN p |-> Elem(p[k], t[p[k]].word)]
  BY DEF Search
<1>2. forward' = forward /\ DOMAIN forward = 1 .. Len(forward) /\ Len(forward) \in Nat
  BY LenProperties DEF Search, IInv, Vectors
<1>3. ASSUME NEW k \in DOMAIN p
      PROVE  \E i \in DOMAIN forward : \E w : ShownOf(answer'[k], forward[i], w)
  <2>1. PICK id, w, hit : id = p[k] /\ w = t[id].word /\ hit = answer'[k]
    OBVIOUS
  <2>2. id \in DOMAIN t
    <3>1. p \in [1 .. Cardinality(DOMAIN t) -> DOMAIN t]
      BY <1>1, Zenon DEF Sorted, SetToSeqs
    <3> QED  BY <2>1, <3>1
  <2>3. id \in 0 .. Len(forward) - 1 /\ Holds(forward[id + 1], w)
    BY <1>1, <2>1, <2>2, WordHits, QueriesAssumption DEF IsText
  <2>4. PICK i : i = id + 1 /\ i \in DOMAIN forward
    BY <1>2, <2>3
  <2>5. hit = Elem(id, w)
    BY <1>1, <2>1
  <2>6. ShownOf(hit, forward[i], w)
    BY <2>3, <2>4, <2>5 DEF Elem, ShownOf
  <2> QED  BY <2>1, <2>4, <2>6
<1>4. DOMAIN answer' = DOMAIN p
  BY <1>1
<1> QED  BY <1>2, <1>3, <1>4 DEF Answered, ShownOf

(* It stays so while the answer is sent. *)
LEMMA AnsweredStep ==
  ASSUME CutsIntoWords, IInv, TextsServed, Quiet, Answered, [Next]_vars
  PROVE  Answered'
<1>1. DOMAIN <<>> = {}
  BY EmptyList, LenProperties
<1>2. CASE answer' = <<>>
  BY <1>1, <1>2 DEF Answered
<1>3. CASE answer' = answer /\ forward' = forward
  BY <1>3 DEF Answered, ShownOf
<1>4. CASE ParserCompletes \/ ParserCutShort
  <2>1. PICK files, n : Parse(files, n)
    BY <1>4 DEF ParserCompletes, ParserCutShort
  <2> QED  BY <1>3, <2>1 DEF Parse, serverVars
<1>5. CASE StartServer \/ IndexLine \/ Listen
  <2>1. pc # "serve" /\ answer' = answer
    BY <1>5 DEF StartServer, IndexLine, Listen
  <2> QED  BY <1>2, <2>1 DEF Quiet
<1>6. CASE StopServer \/ Respond
  BY <1>2, <1>6 DEF StopServer, Respond
<1>7. CASE \E query \in Queries : Search(query)
  BY <1>7, SearchAnswers
<1>8. CASE UNCHANGED vars
  BY <1>3, <1>8 DEF vars
<1> QED  BY <1>4, <1>5, <1>6, <1>7, <1>8 DEF Next

(* A word of a document whose title has no tag is found in its content.    *)
LEMMA WordFound ==
  ASSUME CutsIntoPieces, NEW doc, TextsOf(doc), NEW w, Holds(doc, w)
  PROVE  \/ {OpenTag, OpenTitle} \cap Range(doc.title) # {} /\ Places(doc.content, w) = {}
         \/ ExcerptIn(doc.content, GetDesc(doc.content, w))
<1>1. PICK t, c : /\ t = doc.title /\ c = doc.content
                  /\ t \in Seq(Chars) /\ c \in Seq(Chars) /\ TitleRead(t, c)
  BY DEF TextsOf
<1>2. PICK text \in {t, c} : w \in Range(Words(text))
  BY <1>1 DEF Holds
<1>3. text \in Seq(Chars)
  BY <1>1
<1>4. PICK v \in Range(Cut(text)) : w = Lower(v)
  BY <1>2 DEF Words, Range
<1>5. PICK i, j : /\ i \in 1 .. Len(text) /\ j \in 1 .. Len(text) /\ i <= j
                  /\ v = SubSeq(text, i, j)
  <2>1. PICK i \in 1 .. Len(text), j \in 1 .. Len(text) : i <= j /\ v = SubSeq(text, i, j)
    BY <1>3, <1>4, Zenon DEF CutsIntoPieces
  <2> QED  BY <2>1, Zenon
<1>6. j \in i .. Len(text)
  <2>1. PICK n : n = Len(text) /\ n \in Nat
    BY <1>3, LenProperties
  <2>2. i \in 1 .. n /\ j \in 1 .. n /\ i <= j /\ n \in Nat
    BY <1>5, <2>1
  <2>3. j \in i .. n
    BY <2>2
  <2> QED  BY <2>1, <2>3
<1>7. HeldIn(c, c)
  <2>1. PICK n : n = Len(c) /\ n \in Nat
    BY <1>1, LenProperties
  <2>2. 0 + n <= n /\ \A k \in 1 .. n : 0 + k = k
    BY <2>1
  <2>3. HeldAt(c, c, 0)
    BY <2>1, <2>2 DEF HeldAt
  <2> QED  BY <2>3 DEF HeldIn
<1>8. Len(w) \in Nat \ {0}
  <2>1. HeldIn(text, text)
    <3>1. PICK n : n = Len(text) /\ n \in Nat
      BY <1>3, LenProperties
    <3>2. 0 + n <= n /\ \A k \in 1 .. n : 0 + k = k
      BY <3>1
    <3>3. HeldAt(text, text, 0)
      BY <3>1, <3>2 DEF HeldAt
    <3> QED  BY <3>3 DEF HeldIn
  <2> QED  BY <1>3, <1>4, <1>5, <1>6, <2>1, WordPlaced
<1>9. HeldIn(text, c) => Places(c, w) # {}
  BY <1>1, <1>3, <1>4, <1>5, <1>6, WordPlaced
<1>10. Places(c, w) # {} => ExcerptIn(c, GetDesc(c, w))
  BY <1>1, <1>8, ExcerptPlaced
<1>11. {OpenTag, OpenTitle} \cap Range(t) # {} \/ HeldIn(text, c)
  BY <1>1, <1>2, <1>7, Zenon DEF TitleRead
<1> QED  BY <1>1, <1>9, <1>10, <1>11

(* Every hit of an answer shows a document that is served, with a part of  *)
(* its content that is not empty; “None1” only when its title has a tag,   *)
(* and “None2” only when its content is a single character. It is proved   *)
(* for any dictionary and any query, whatever the case.                    *)
THEOREM HitsAlwaysHaveExcerpts ==
  CutsIntoWords /\ CutsIntoPieces => (Spec => []HitsHaveExcerpts)
<1> SUFFICES ASSUME CutsIntoWords, CutsIntoPieces PROVE Spec => []HitsHaveExcerpts
  OBVIOUS
<1>1. Init => Answered
  <2>1. DOMAIN <<>> = {}
    BY EmptyList, LenProperties
  <2> QED  BY <2>1 DEF Init, Answered
<1>2. IInv /\ TextsServed /\ Quiet /\ Answered /\ [Next]_vars => Answered'
  BY AnsweredStep
<1>3. Stored /\ IInv /\ Quiet /\ Answered /\ ServesTheParsed => HitsHaveExcerpts
  <2> SUFFICES ASSUME Stored, IInv, Quiet, Answered, ServesTheParsed, NoSeparators,
                      NEW k \in DOMAIN answer
               PROVE  \E doc \in Range(forward) :
                        /\ answer[k].title = doc.title /\ answer[k].url = doc.url
                        /\ \/ /\ answer[k].desc = None1
                              /\ {OpenTag, OpenTitle} \cap Range(doc.title) # {}
                           \/ answer[k].desc = None2 /\ Len(doc.content) = 1
                           \/ \E i, j \in DOMAIN doc.content :
                                i <= j /\ answer[k].desc = SubSeq(doc.content, i, j)
    BY Zenon DEF HitsHaveExcerpts
  <2>1. DOMAIN <<>> = {}
    BY EmptyList, LenProperties
  <2>2. pc = "serve"
    BY <2>1 DEF Quiet
  <2>3. PICK i \in DOMAIN forward :
          \E hit, w : hit = answer[k] /\ ShownOf(hit, forward[i], w)
    BY DEF Answered
  <2>8. PICK hit, w : hit = answer[k] /\ ShownOf(hit, forward[i], w)
    BY <2>3
  <2>4. PICK doc : doc = forward[i] /\ doc \in Range(forward) /\ TextsOf(doc)
    BY <2>2, ServedTexts DEF Range
  <2>5. hit.title = doc.title /\ hit.url = doc.url
        /\ hit.desc = GetDesc(doc.content, w) /\ Holds(doc, w)
    BY <2>8, <2>4 DEF ShownOf
  <2>6. CASE /\ {OpenTag, OpenTitle} \cap Range(doc.title) # {}
             /\ Places(doc.content, w) = {}
    <3>1. hit.desc = None1
      BY <2>5, <2>6 DEF GetDesc
    <3> QED  BY <2>8, <2>4, <2>5, <2>6, <3>1
  <2>7. CASE ExcerptIn(doc.content, hit.desc)
    BY <2>8, <2>4, <2>5, <2>7 DEF ExcerptIn
  <2> QED  BY <2>4, <2>5, <2>6, <2>7, WordFound
<1> QED  BY <1>1, <1>2, <1>3, Invariance, ReadingAlways, AskedWhenServing,
            TextsAlways, ServedAsParsed, PTL DEF Spec
=============================================================================
