---------------------------- MODULE MCSearchEngine ----------------------------
(* SearchEngine with the words Tokenizer cuts, small instances of it for    *)
(* TLC, and what only the two together can promise.                         *)
EXTENDS SearchEngine, Tokenizer, TokenizerData

Page(title, body) ==
  <<"<title>">> \o title \o <<"</title>", "<", ".", ">">> \o body
File(path, page) == [path |-> path, page |-> page, regular |-> TRUE,
                     html |-> TRUE, readable |-> TRUE]

One == File("/1", Page(<<"a">>, <<" ", "B", "nl", "a", " ", "yun", "ji">>))
Two == File("/2", Page(<<"b", " ", "a", ".">>, <<" ", "B">>))
(* A title with a tag in it, and a document without content.                *)
Tagged == File("/3", Page(<<"b", "<", "a">>, <<"1">>))
Empty == File("/4", Page(<<>>, <<>>))
Others == {[One EXCEPT !.path = "/5", !.readable = FALSE],
           [One EXCEPT !.path = "/6", !.html = FALSE],
           [One EXCEPT !.path = "/7", !.regular = FALSE],
           File("/8", <<"a">>), File("/9", <<"</title>", "<title>", "a">>)}
WithSep == File("/s", Page(<<"a">>, <<"b", "sep", "b">>))

MCSites == {{}, {One, Two}, {Two, Tagged, Empty}, {One, WithSep} \cup Others}
OneSite == {{One}}

MCQueries ==
  {<<"bad">>, <<"b">>, <<"B">>, <<"yun">>, <<"ji">>, <<"yun", "ji">>, <<"a">>,
   <<"a", ".">>, <<"b", " ">>, <<"b", " ", "a", ".">>, <<"B", "yun">>,
   <<"b", "a">>, <<"b", "b">>, <<"a", " ", "b">>, <<"1">>, <<" ", ".">>,
   <<"b", " ", "b">>}
LineQueries == {<<"a">>, <<"B">>, <<"yun">>, <<"ji">>}

-----------------------------------------------------------------------------
HoldsApart(content, text) ==
  \E i \in 1 .. Len(content) - Len(text) + 1 :
    /\ SubSeq(content, i, i + Len(text) - 1) = text
    /\ i = 1 \/ content[i - 1] \in Separators
    /\ \/ i + Len(text) - 1 = Len(content)
       \/ content[i + Len(text)] \in Separators
Finds(doc) == \E k \in DOMAIN answer : /\ answer[k].title = doc.title
                                       /\ answer[k].url = doc.url

(* A document that holds the query between separators is found by it,      *)
(* whatever is written around it (CutString and to_lower, of documents in  *)
(* BuildInvertedIndex and of queries in Search).                           *)
FindsWhatIsThere ==
  (asked # <<>> /\ Decodes(asked)) =>
    \A i \in DOMAIN forward :
      (Decodes(forward[i].content) /\ HoldsApart(forward[i].content, asked))
        => Finds(forward[i])

(* parser.cpp says of newlines that they are not kept because newlines end  *)
(* the records, and turns them into blanks: words on two lines are found    *)
(* apart.                                                                   *)
LinesKeepWordsApart ==
  (pc = "serve" /\ whole /\ asked # <<>> /\ Decodes(asked)) =>
    \A f \in site :
      (/\ f.regular /\ f.html /\ f.readable /\ HasTitle(f.page)
       /\ HoldsApart(ParseContent(f.page), asked))
      => \E k \in DOMAIN answer : answer[k].url = ParseUrl(f)
=============================================================================
