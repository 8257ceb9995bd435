------------------------------ MODULE ScanSearch ------------------------------
(* What a search promises, with no index in it: the documents that hold a   *)
(* word of the query, each once, the weightiest first, where the weight is  *)
(* counted by reading every document from end to end.                       *)
EXTENDS Integers, Sequences, SequencesExt, FiniteSetsExt

CONSTANTS Queries,        \* what may be asked
          Words(_)        \* the words of a text, as they are compared

VARIABLES docs,    \* the documents that can be found: a title, a content, a url
          asked,   \* the last query
          answer   \* the title and url of each hit

vars == <<docs, asked, answer>>

Times(w, text) == LET ws == Words(text)
                  IN Cardinality({i \in DOMAIN ws : ws[i] = w})

(* A word of the title counts ten times as much; the title is also content. *)
Weight(doc, query) ==
  LET ws == Words(query)
  IN MapThenSumSet(LAMBDA k : 10 * Times(ws[k], doc.title)
                                + Times(ws[k], doc.content), DOMAIN ws)

Shown(doc) == [title |-> doc.title, url |-> doc.url]

Rankings(query) ==
  LET hits == {i \in DOMAIN docs : Weight(docs[i], query) > 0}
      ranked == {p \in SetToSeqs(hits) :
                   \A j, k \in DOMAIN p : j < k =>
                     Weight(docs[p[j]], query) >= Weight(docs[p[k]], query)}
  IN {[k \in DOMAIN p |-> Shown(docs[p[k]])] : p \in ranked}

Init == docs = <<>> /\ asked = <<>> /\ answer = <<>>

(* Other documents are published, whichever, or none. *)
Publish == asked' = <<>> /\ answer' = <<>>

Ask == /\ asked' \in Queries
       /\ answer' \in Rankings(asked')
       /\ docs' = docs

Next == Publish \/ Ask
Spec == Init /\ [][Next]_vars
=============================================================================
