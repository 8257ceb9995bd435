----------------------------- MODULE SearchEngine -----------------------------
(* Boost_Searcher from the HTML files to an answer: parser writes raw.txt,  *)
(* http_server builds its index from it and answers queries; start_linux.sh *)
(* runs the one and then the other. The disk may fill while raw.txt is      *)
(* written, the parser may be killed, and both may be run again.            *)
EXTENDS Excerpt, Integers, Sequences, SequencesExt, FiniteSetsExt

CONSTANTS
  Sites,                \* possible contents of data/input: sets of files
  Queries,              \* what users ask
  Cut(_),               \* JiebaUtil::CutString: the words of a text, uncased
  LowerCase,            \* boost::to_lower of the runes it changes
  OpenTag, CloseTag,    \* '<' and '>'
  OpenTitle, CloseTitle,\* "<title>" and "</title>"
  Newline, Blank,
  Sep,                  \* '\3'
  UrlHead,              \* the url's part before the file's path
  NoSite                \* data/input does not exist

(* Characters, and names that are longer than one. *)
ASSUME MarksAssumption ==
  Sep # Newline /\ Blank # Newline /\ UrlHead \notin {Sep, Newline}
    /\ OpenTag # OpenTitle

(* A lower case has none itself. *)
ASSUME LowerAssumption ==
  \A r \in DOMAIN LowerCase : LowerCase[r] \notin DOMAIN LowerCase

(* A site is files, whose contents are texts. *)
ASSUME SitesAssumption ==
  \A s \in Sites : s # NoSite =>
    /\ IsFiniteSet(s)
    /\ \A f \in s : /\ f.page \in Seq(Range(f.page))
                    /\ f.path \notin {Sep, Newline}

(* A query is a text. *)
ASSUME QueriesAssumption == \A q \in Queries : q \in Seq(Range(q))

VARIABLES
  site,      \* the files under src_path; fixed
  parsed,    \* parser: the results ParseHtml has made; kept for the properties
  disk,      \* data/raw_html/raw.txt, or no such file
  whole,     \* whether raw.txt was written to its end; kept for the properties
  pc,        \* "script", "build", "serve": which program runs
  lines,     \* http_server: the lines getline has not read yet
  forward,   \* forward_index
  inverted,  \* inverted_index: word -> its list
  asked,     \* the last query
  answer     \* what it was answered; "null" in JSON when empty

vars == <<site, parsed, disk, whole, pc, lines, forward, inverted, asked,
          answer>>
serverVars == <<lines, forward, inverted, asked, answer>>

NoFile == [there |-> FALSE, text |-> <<>>]

-----------------------------------------------------------------------------
(* parser.cpp *)

(* EnumFile's choice, in the order the directory happens to be listed.      *)
FilesLists == SetToSeqs({f \in site : f.regular /\ f.html})

(* ReadFile joins the lines: nothing stands where a newline was.            *)
ReadFile(file) ==
  FlattenSeq([k \in DOMAIN file.page |->
                IF file.page[k] = Newline THEN <<>> ELSE <<file.page[k]>>])

(* ParseTitle: between the first of either mark, if in this order.          *)
HasTitle(text) ==
  /\ {OpenTitle, CloseTitle} \subseteq Range(text)
  /\ SelectInSeq(text, LAMBDA c : c = OpenTitle)
       < SelectInSeq(text, LAMBDA c : c = CloseTitle)
ParseTitle(text) ==
  SubSeq(text, SelectInSeq(text, LAMBDA c : c = OpenTitle) + 1,
               SelectInSeq(text, LAMBDA c : c = CloseTitle) - 1)

(* ParseContent: LABLE until a '>', CONTENT until a '<'. The marks of the   *)
(* title are tags like any other, so its text is content too.               *)
ContentStep(s, c) ==
  IF s.lable THEN [s EXCEPT !.lable = c \notin {CloseTag, OpenTitle, CloseTitle}]
  ELSE IF c = OpenTag THEN [s EXCEPT !.lable = TRUE]
  ELSE IF c \in {OpenTitle, CloseTitle} THEN s
  ELSE [s EXCEPT !.out = Append(@, IF c = Newline THEN Blank ELSE c)]
ParseContent(text) ==
  FoldLeft(ContentStep, [lable |-> TRUE, out |-> <<>>], text).out

ParseUrl(file) == <<UrlHead, file.path>>

Doc(file) == [title   |-> ParseTitle(ReadFile(file)),
              content |-> ParseContent(ReadFile(file)),
              url     |-> ParseUrl(file)]

(* ParseHtml passes over a file it cannot open or that has no title.        *)
ParseHtml(files) ==
  FlattenSeq([k \in DOMAIN files |->
                IF files[k].readable /\ HasTitle(ReadFile(files[k]))
                THEN <<Doc(files[k])>> ELSE <<>>])

Record(doc) == doc.title \o <<Sep>> \o doc.content \o <<Sep>> \o doc.url
                 \o <<Newline>>
SavedText(docs) == FlattenSeq([k \in DOMAIN docs |-> Record(docs[k])])

(* start_linux.sh runs the parser when there is no raw.txt and the user     *)
(* agrees. Without data/input, or when raw.txt cannot be opened, the parser *)
(* returns an error before it has changed anything.                         *)
Parse(files, n) ==
  /\ pc = "script"
  /\ ~disk.there
  /\ site # NoSite
  /\ parsed' = ParseHtml(files)
  /\ disk' = [there |-> TRUE, text |-> SubSeq(SavedText(parsed'), 1, n)]
  /\ whole' = (n = Len(SavedText(parsed')))
  /\ UNCHANGED <<site, pc, serverVars>>

ParserCompletes ==
  \E files \in FilesLists : Parse(files, Len(SavedText(ParseHtml(files))))

(* No write is checked: a full disk leaves a first part of the text and the *)
(* parser returns 0 all the same; a parser that is killed leaves one too.   *)
ParserCutShort ==
  \E files \in FilesLists :
    \E n \in 0 .. Len(SavedText(ParseHtml(files))) - 1 : Parse(files, n)

-----------------------------------------------------------------------------
(* index.hpp *)

Lower(w) == [i \in DOMAIN w |->
               IF w[i] \in DOMAIN LowerCase THEN LowerCase[w[i]] ELSE w[i]]
Words(text) == LET ws == Cut(text) IN [k \in DOMAIN ws |-> Lower(ws[k])]

(* The tokens between the marks: boost::split with token_compress_on, where *)
(* marks that stand together count as one; std::getline, where they do not  *)
(* and nothing follows the last one.                                        *)
SplitStep(acc, c, mark, compress) ==
  IF c # mark
  THEN [tokens |-> Append(Front(acc.tokens), Append(Last(acc.tokens), c)),
        marked |-> FALSE]
  ELSE IF compress /\ acc.marked THEN acc
  ELSE [tokens |-> Append(acc.tokens, <<>>), marked |-> TRUE]
SplitText(text, mark, compress) ==
  FoldLeft(LAMBDA acc, c : SplitStep(acc, c, mark, compress),
           [tokens |-> << <<>> >>, marked |-> FALSE], text).tokens

\* Wrong form: marks that stand together are not taken for one.
SplitEach(line) == SplitText(line, Sep, FALSE)

Split(line) == SplitText(line, Sep, TRUE)
Lines(text) == LET ls == SplitText(text, Newline, FALSE)
               IN IF Last(ls) = <<>> THEN Front(ls) ELSE ls

Times(w, ws) == Cardinality({k \in DOMAIN ws : ws[k] = w})

\* Wrong form: a word of the title is not counted in the content.
WeightOfOne(w, title_words, content_words) ==
  IF w \in Range(title_words) THEN 10 * Times(w, title_words)
                               ELSE Times(w, content_words)

(* X and Y of BuildInvertedIndex. *)
Weight(w, title_words, content_words) ==
  10 * Times(w, title_words) + Times(w, content_words)

InvertedList(w) == IF w \in DOMAIN inverted THEN inverted[w] ELSE <<>>

\* Wrong form: the number is read after the document is pushed.
NextIdAfter == Len(forward) + 1
NextId == Len(forward)

(* BuildForwardIndex drops a line that is not three tokens; otherwise its   *)
(* number is its place. BuildInvertedIndex adds the document to the list of *)
(* each word of its title and content.                                      *)
StartServer ==
  /\ pc = "script"
  /\ pc' = "build"
  /\ lines' = Lines(disk.text)
  /\ UNCHANGED <<site, parsed, disk, whole, forward, inverted, asked, answer>>

IndexLine ==
  LET fields == Split(Head(lines))
      id == NextId
      title_words == Words(fields[1])
      content_words == Words(fields[2])
      words == Range(title_words) \cup Range(content_words)
      Posting(w) == [doc_id |-> id,
                     weight |-> Weight(w, title_words, content_words)]
  IN /\ pc = "build"
     /\ lines # <<>>
     /\ lines' = Tail(lines)
     /\ IF Len(fields) # 3 THEN UNCHANGED <<forward, inverted>>
        ELSE /\ forward' = Append(forward, [title   |-> fields[1],
                                            content |-> fields[2],
                                            url     |-> fields[3],
                                            doc_id  |-> id])
             /\ inverted' = [w \in DOMAIN inverted \cup words |->
                   IF w \in words THEN Append(InvertedList(w), Posting(w))
                                  ELSE inverted[w]]
     /\ UNCHANGED <<site, parsed, disk, whole, pc, asked, answer>>

(* InitSearcher does not ask whether BuildIndex found its file; the server  *)
(* listens once it is back.                                                 *)
Listen ==
  /\ pc = "build"
  /\ lines = <<>>
  /\ pc' = "serve"
  /\ UNCHANGED <<site, parsed, disk, whole, lines, forward, inverted, asked,
                 answer>>

StopServer ==
  /\ pc \in {"build", "serve"}
  /\ pc' = "script"
  /\ lines' = <<>> /\ forward' = <<>> /\ inverted' = <<>>
  /\ asked' = <<>> /\ answer' = <<>>
  /\ UNCHANGED <<site, parsed, disk, whole>>

-----------------------------------------------------------------------------
(* searcher.hpp *)

\* Wrong form: the weight of a second word takes the place of the first's.
HitOfLast(token, elem, w) ==
  [id \in DOMAIN token \cup {elem.doc_id} |->
     IF id # elem.doc_id THEN token[id]
     ELSE [weight |-> elem.weight, word |-> w]]

(* tokens_map: for each document hit, the sum of the weights and the first  *)
(* word that hit it.                                                        *)
HitOf(token, elem, w) ==
  [id \in DOMAIN token \cup {elem.doc_id} |->
     IF id # elem.doc_id THEN token[id]
     ELSE IF id \in DOMAIN token
          THEN [token[id] EXCEPT !.weight = @ + elem.weight]
          ELSE [weight |-> elem.weight, word |-> w]]

\* Wrong form: the words of the query keep their case.
TokensMapCased(query) ==
  FoldLeft(LAMBDA token, w :
             FoldLeft(LAMBDA t, elem : HitOf(t, elem, w), token,
                      InvertedList(w)),
           <<>>, Cut(query))

TokensMap(query) ==
  FoldLeft(LAMBDA token, w :
             FoldLeft(LAMBDA t, elem : HitOf(t, elem, w), token,
                      InvertedList(w)),
           <<>>, Words(query))

\* Wrong form: the word is looked for in lower case only.
PlacesCased(content, w) ==
  {i \in 1 .. Len(content) - Len(w) + 1 :
     SubSeq(content, i, i + Len(w) - 1) = w}

(* GetDesc, with the place of the word found first in either case. *)
Places(content, w) ==
  {i \in 1 .. Len(content) - Len(w) + 1 :
     Lower(SubSeq(content, i, i + Len(w) - 1)) = Lower(w)}
None1 == <<"None1">>
None2 == <<"None2">>
GetDesc(content, w) ==
  IF Places(content, w) = {} THEN None1
  ELSE LET pos == Min(Places(content, w)) - 1
       IN IF NoExcerpt(Len(content), pos) THEN None2
          ELSE SubSeq(content, ExcerptStart(pos) + 1,
                      ExcerptEnd(Len(content), pos))

Elem(id, w) ==
  LET doc == forward[id + 1]
  IN [title |-> doc.title, desc |-> GetDesc(doc.content, w), url |-> doc.url]

(* std::sort leaves documents of one weight in any order. *)
Sorted(tokens) ==
  {p \in SetToSeqs(DOMAIN tokens) :
     \A j, k \in DOMAIN p : j < k => tokens[p[j]].weight >= tokens[p[k]].weight}

Search(query) ==
  /\ pc = "serve"
  /\ asked = <<>>
  /\ asked' = query
  /\ LET tokens == TokensMap(query)
     IN \E p \in Sorted(tokens) :
          answer' = [k \in DOMAIN p |-> Elem(p[k], tokens[p[k]].word)]
  /\ UNCHANGED <<site, parsed, disk, whole, pc, lines, forward, inverted>>

(* The answer is sent. *)
Respond ==
  /\ asked # <<>>
  /\ asked' = <<>> /\ answer' = <<>>
  /\ UNCHANGED <<site, parsed, disk, whole, pc, lines, forward, inverted>>

-----------------------------------------------------------------------------
Init ==
  /\ site \in Sites
  /\ parsed = <<>>
  /\ disk = NoFile
  /\ whole = FALSE
  /\ pc = "script"
  /\ lines = <<>> /\ forward = <<>> /\ inverted = <<>>
  /\ asked = <<>> /\ answer = <<>>

Next ==
  \/ ParserCompletes \/ ParserCutShort
  \/ StartServer \/ IndexLine \/ Listen \/ StopServer
  \/ \E query \in Queries : Search(query)
  \/ Respond

Spec == Init /\ [][Next]_vars

-----------------------------------------------------------------------------
(* Properties *)

Bare(doc) == [title |-> doc.title, content |-> doc.content, url |-> doc.url]
Served == [i \in DOMAIN forward |-> Bare(forward[i])]

(* The types of the variables, as far as the data have one.                 *)
TypeOK ==
  /\ pc \in {"script", "build", "serve"}
  /\ whole \in BOOLEAN
  /\ DOMAIN disk = {"there", "text"}
  /\ \A w \in DOMAIN inverted : \A k \in DOMAIN inverted[w] :
       /\ inverted[w][k].doc_id \in 0 .. Len(forward) - 1
       /\ inverted[w][k].weight \in Nat \ {0}
  /\ \A k \in DOMAIN answer : DOMAIN answer[k] = {"title", "desc", "url"}
  /\ pc = "script" => forward = <<>> /\ asked = <<>>

(* The index says of each word exactly what reading all documents again     *)
(* would: those that hold it, each once, in their order, with their weight  *)
(* (BuildForwardIndex's doc_id is the place GetForwardIndex looks at).      *)
Holds(doc, w) == w \in Range(Words(doc.title)) \cup Range(Words(doc.content))
WeightIn(doc, w) ==
  10 * Times(w, Words(doc.title)) + Times(w, Words(doc.content))
ListExact(list, w, docs) ==
  /\ \A i \in DOMAIN docs : Holds(docs[i], w) =>
       \E k \in DOMAIN list : list[k].doc_id = i - 1
  /\ \A k \in DOMAIN list :
       LET id == list[k].doc_id
       IN  /\ id \in 0 .. Len(docs) - 1
           /\ Holds(docs[id + 1], w)
           /\ list[k].weight = WeightIn(docs[id + 1], w)
  /\ \A j, k \in DOMAIN list : j < k => list[j].doc_id < list[k].doc_id
IndexExact ==
  /\ \A i \in DOMAIN forward : /\ forward[i].doc_id = i - 1
                               /\ \A w \in Range(Words(forward[i].title))
                                           \cup Range(Words(forward[i].content)) :
                                    w \in DOMAIN inverted
  /\ \A w \in DOMAIN inverted :
       inverted[w] # <<>> /\ ListExact(inverted[w], w, forward)

(* What is served is what was parsed, in its order: every document that has *)
(* content, when raw.txt is whole; otherwise a first part of these, of      *)
(* which only the url of the last may have lost its end (ReadFile, SaveHtml,*)
(* getline, Split and BuildForwardIndex together).                          *)
Fit == FlattenSeq([k \in DOMAIN parsed |->
                     IF parsed[k].content = <<>> THEN <<>> ELSE <<parsed[k]>>])
NoSeparators ==
  \A k \in DOMAIN parsed : Sep \notin Range(parsed[k].title \o parsed[k].content)
ServesTheParsed ==
  LET n == Len(forward)
  IN (pc = "serve" /\ NoSeparators)
       => /\ n <= Len(Fit)
          /\ whole => n = Len(Fit)
          /\ \A i \in 1 .. n :
               \/ Served[i] = Fit[i]
               \/ /\ ~whole /\ i = n
                  /\ [Served[i] EXCEPT !.url = Fit[i].url] = Fit[i]
                  /\ IsPrefix(Served[i].url, Fit[i].url)

(* The excerpt of a hit is a part of its document's content. “None1”, the   *)
(* word is not in the content, is only seen when the title has a tag in it, *)
(* and “None2” when the content is one character.                           *)
HitsHaveExcerpts ==
  NoSeparators =>
    \A k \in DOMAIN answer :
      \E doc \in Range(forward) :
        /\ answer[k].title = doc.title /\ answer[k].url = doc.url
        /\ \/ /\ answer[k].desc = None1
              /\ {OpenTag, OpenTitle} \cap Range(doc.title) # {}
           \/ answer[k].desc = None2 /\ Len(doc.content) = 1
           \/ \E i, j \in DOMAIN doc.content :
                i <= j /\ answer[k].desc = SubSeq(doc.content, i, j)

(* A search through the index answers what reading every document would.    *)
Scan == INSTANCE ScanSearch WITH
          docs <- IF pc = "serve" THEN Served ELSE <<>>,
          answer <- [k \in DOMAIN answer |->
                       [title |-> answer[k].title, url |-> answer[k].url]]
ImplementsScan == Scan!Spec
=============================================================================
