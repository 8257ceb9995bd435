--------------------------- MODULE TokenizerProofs ---------------------------
(***************************************************************************)
(* What cppjieba makes of a text, proved for texts of any length over any  *)
(* runes, for any dictionary and any hidden Markov model, and with it that *)
(* the search finds what is written in a document.                         *)
(*                                                                         *)
(* Each of the cutters goes through its text by steps, and what each step  *)
(* passes it cuts: the walks of ListLemmas say of all of them at once that *)
(* their words make the text. The best path and the best states are those  *)
(* that the tables of CalcDP and Viterbi say, place by place.              *)
(***************************************************************************)
EXTENDS MCTokenizer, MCSearchEngine, SearchEngineProofs

(* A cut of r: words that are not empty, and make r behind each other.     *)
WordsOf(R) == Seq(R) \ {<<>>}
CutOf(R, q, r) == q \in Seq(WordsOf(R)) /\ FlattenSeq(q) = r

-----------------------------------------------------------------------------
(* Places *)

(* Places have a first one. *)
LEMMA FirstPlace ==
  ASSUME NEW T, T \subseteq Nat, T # {}
  PROVE  Min(T) \in T /\ \A x \in T : Min(T) <= x
<1>1. \E x \in T : \A y \in T : x <= y
  BY LeastNumber
<1> QED  BY <1>1, Zenon DEF Min

(* What LastOfRun says. *)
LEMMA RunEnd ==
  ASSUME NEW R, NEW r \in Seq(R), NEW i \in 1 .. Len(r), NEW T
  PROVE  LET e == LastOfRun(r, i, T)
         IN  /\ e \in i .. Len(r)
             /\ \A k \in i + 1 .. e : r[k] \in T
             /\ e = Len(r) \/ r[e + 1] \notin T
<1>1. PICK n : n = Len(r) /\ n \in Nat
  BY LenProperties
<1> DEFINE J == {j \in i .. n : \A k \in i + 1 .. j : r[k] \in T}
<1>2. J \in SUBSET (1 .. n) /\ i \in J
  BY <1>1
<1>3. PICK e : e = Max(J)
  OBVIOUS
<1>4. e \in J /\ \A x \in J : x <= e
  <2> HIDE DEF J
  <2> QED  BY <1>1, <1>2, <1>3, LastPlace
<1>5. e = n \/ r[e + 1] \notin T
  <2> SUFFICES ASSUME e # n, r[e + 1] \in T PROVE FALSE
    OBVIOUS
  <2>1. e + 1 \in i .. n /\ \A k \in i + 1 .. e + 1 : k \in i + 1 .. e \/ k = e + 1
    BY <1>1, <1>4
  <2>2. e + 1 \in J
    BY <1>4, <2>1
  <2>3. e \in Nat /\ e + 1 <= e
    BY <1>4, <2>2
  <2> QED  BY <2>3
<1>6. LastOfRun(r, i, T) = e
  BY <1>1, <1>3 DEF LastOfRun
<1> QED  BY <1>1, <1>4, <1>5, <1>6

(* A part between two places, and what follows it. *)
LEMMA CutInTwo ==
  ASSUME NEW R, NEW r \in Seq(R), NEW i \in 1 .. Len(r), NEW j \in i .. Len(r)
  PROVE  /\ SubSeq(r, i, j) \in WordsOf(R)
         /\ Len(SubSeq(r, i, j)) = j - i + 1
         /\ \A k \in 1 .. j - i + 1 : SubSeq(r, i, j)[k] = r[i + k - 1]
         /\ SubSeq(r, i, Len(r)) = SubSeq(r, i, j) \o SubSeq(r, j + 1, Len(r))
<1>1. PICK n : n = Len(r) /\ n \in Nat
  BY LenProperties
<1>2. \A k \in i .. j : r[k] \in R
  BY <1>1, ElementOfSeq
<1>3. i \in Int /\ j \in Int /\ i <= j
  BY <1>1
<1>4. /\ SubSeq(r, i, j) \in Seq(R) /\ Len(SubSeq(r, i, j)) = j - i + 1
      /\ \A k \in 1 .. j - i + 1 : SubSeq(r, i, j)[k] = r[i + k - 1]
  BY <1>2, <1>3, SubSeqProperties
<1>5. SubSeq(r, i, j) # <<>>
  <2>1. j - i + 1 # 0
    BY <1>3
  <2>2. Len(SubSeq(r, i, j)) # 0
    BY <1>4, <2>1
  <2> QED  BY <2>2, EmptySeq, Zenon
<1>6. SubSeq(r, i, j) \o SubSeq(r, j + 1, n) = SubSeq(r, i, n)
  <2>1. i \in 1 .. n + 1 /\ j \in i - 1 .. n /\ n \in j .. n
    BY <1>1
  <2> QED  BY <1>1, <2>1, ConcatAdjacentSubSeq
<1> QED  BY <1>1, <1>4, <1>5, <1>6 DEF WordsOf

(* One word is a cut of itself. *)
LEMMA CutWhole ==
  ASSUME NEW R, NEW w \in WordsOf(R)
  PROVE  CutOf(R, <<w>>, w)
<1>1. <<w>> \in Seq(WordsOf(R)) /\ w \in Seq(R)
  BY DEF WordsOf
<1> QED  BY <1>1, FlatOne DEF CutOf

(* The steps of a walk through r that cut what they pass. *)
Passes(R, r, word, end) ==
  /\ end \in [1 .. Len(r) -> 1 .. Len(r)]
  /\ word = [i \in 1 .. Len(r) |-> word[i]]
  /\ \A i \in 1 .. Len(r) : /\ i <= end[i]
                            /\ CutOf(R, word[i], SubSeq(r, i, end[i]))

(* The equations of such a walk have a solution. *)
LEMMA Passable ==
  ASSUME NEW R, NEW r \in Seq(R), NEW word, NEW end, Passes(R, r, word, end)
  PROVE  /\ Walkable(WordsOf(R), Len(r), word, end)
         /\ \E g : g = WalkTurn(Len(r), word, end, g)
<1>1. PICK n : n = Len(r) /\ n \in Nat
  BY LenProperties
<1>2. word \in [1 .. n -> Seq(WordsOf(R))]
  BY <1>1 DEF Passes, CutOf
<1>3. Walkable(WordsOf(R), n, word, end)
  BY <1>1, <1>2 DEF Walkable, Passes
<1> QED  BY <1>1, <1>3, WalkExists

(* A walk whose steps cut what they pass cuts the whole. *)
LEMMA WalkCuts ==
  ASSUME NEW R, NEW r \in Seq(R), NEW word, NEW end, Passes(R, r, word, end),
         NEW f, f = WalkTurn(Len(r), word, end, f)
  PROVE  /\ CutOf(R, f[1], r)
         /\ Walk(WordsOf(R), Len(r), word, end, f)
<1>1. PICK n : n = Len(r) /\ n \in Nat
  BY LenProperties
<1>2. Walkable(WordsOf(R), n, word, end)
  BY <1>1, Passable
<1>3. f = WalkTurn(n, word, end, f)
  BY <1>1
<1>4. Walk(WordsOf(R), n, word, end, f)
  BY <1>2, <1>3, WalkTyped
<1>5. Seq(WordsOf(R)) \subseteq Seq(Seq(R))
  BY SeqMonotonic DEF WordsOf
<1>6. Walkable(Seq(R), n, word, end) /\ Walk(Seq(R), n, word, end, f)
  BY <1>2, <1>4, <1>5 DEF Walkable, Walk
<1>7. PICK rest : rest = [i \in 1 .. n + 1 |-> SubSeq(r, i, n)]
  OBVIOUS
<1>8. FlatFrom(n, f, rest)
  <2>0. n + 1 \in 1 .. n + 1
    BY <1>1
  <2>1. rest[n + 1] = <<>>
    <3>1. rest[n + 1] = SubSeq(r, n + 1, n)
      BY <1>7, <2>0
    <3> QED  BY <1>1, <3>1, SubSeqEmpty
  <2>2. ASSUME NEW i \in 1 .. n PROVE rest[i] = FlattenSeq(word[i]) \o rest[end[i] + 1]
    <3>1. PICK j : j = end[i]
      OBVIOUS
    <3>2. j \in i .. n /\ FlattenSeq(word[i]) = SubSeq(r, i, j)
      <4>1. FlattenSeq(word[i]) = SubSeq(r, i, j)
        BY <1>1, <3>1, Zenon DEF Passes, CutOf
      <4>2. i <= j /\ j \in 1 .. n
        BY <1>1, <3>1 DEF Passes
      <4> QED  BY <1>1, <4>1, <4>2
    <3>3. SubSeq(r, i, n) = SubSeq(r, i, j) \o SubSeq(r, j + 1, n)
      BY <1>1, <3>2, CutInTwo
    <3>4. i \in 1 .. n + 1 /\ j + 1 \in 1 .. n + 1
      BY <1>1, <3>2
    <3>5. rest[i] = SubSeq(r, i, n) /\ rest[j + 1] = SubSeq(r, j + 1, n)
      BY <1>7, <3>4
    <3> QED  BY <3>1, <3>2, <3>3, <3>5
  <2>3. Continues(n, word, end, rest)
    BY <2>1, <2>2 DEF Continues
  <2> QED  BY <1>6, <2>3, WalkFlat
<1>9. 1 \in 1 .. n + 1
  BY <1>1
<1>10. FlattenSeq(f[1]) = r
  <2>1. FlattenSeq(f[1]) = SubSeq(r, 1, n)
    BY <1>7, <1>8, <1>9 DEF FlatFrom
  <2> QED  BY <1>1, <2>1, SubSeqFull
<1>11. f[1] \in Seq(WordsOf(R))
  BY <1>4, <1>9 DEF Walk
<1> QED  BY <1>1, <1>4, <1>10, <1>11 DEF CutOf

-----------------------------------------------------------------------------
(* PreFilter *)

PieceEnds(text) == [i \in 1 .. Len(text) |-> PieceEnd(text, i)]
PieceWords(text) == [i \in 1 .. Len(text) |-> <<SubSeq(text, i, PieceEnd(text, i))>>]

(* A piece ends where it starts or behind. *)
LEMMA PieceEnding ==
  ASSUME NEW R, NEW text \in Seq(R)
  PROVE  Passes(R, text, PieceWords(text), PieceEnds(text))
<1>1. PICK n : n = Len(text) /\ n \in Nat
  BY LenProperties
<1>2. ASSUME NEW i \in 1 .. n PROVE PieceEnd(text, i) \in i .. n
  <2>1. LastOfRun(text, i, Range(text) \ Separators) \in i .. n
    BY <1>1, RunEnd
  <2> QED  BY <1>1, <2>1 DEF PieceEnd
<1>3. ASSUME NEW i \in 1 .. n
      PROVE  CutOf(R, <<SubSeq(text, i, PieceEnd(text, i))>>, SubSeq(text, i, PieceEnd(text, i)))
  <2>1. PICK e : e = PieceEnd(text, i) /\ e \in i .. n
    BY <1>2
  <2>2. SubSeq(text, i, e) \in WordsOf(R)
    BY <1>1, <2>1, CutInTwo
  <2> QED  BY <2>1, <2>2, CutWhole
<1>4. \A i \in 1 .. n : /\ PieceEnds(text)[i] = PieceEnd(text, i)
                        /\ PieceWords(text)[i] = <<SubSeq(text, i, PieceEnd(text, i))>>
  BY <1>1 DEF PieceEnds, PieceWords
<1>5. PieceEnds(text) \in [1 .. n -> 1 .. n]
  BY <1>1, <1>2 DEF PieceEnds
<1>6. PieceWords(text) = [i \in 1 .. Len(text) |-> PieceWords(text)[i]]
  BY Zenon DEF PieceWords
<1>7. \A i \in 1 .. n : /\ i <= PieceEnds(text)[i]
                        /\ CutOf(R, PieceWords(text)[i], SubSeq(text, i, PieceEnds(text)[i]))
  <2> SUFFICES ASSUME NEW i \in 1 .. n
               PROVE  /\ i <= PieceEnds(text)[i]
                      /\ CutOf(R, PieceWords(text)[i], SubSeq(text, i, PieceEnds(text)[i]))
    OBVIOUS
  <2>1. i <= PieceEnd(text, i)
    BY <1>2
  <2> QED  BY <1>3, <1>4, <2>1
<1> QED  BY <1>1, <1>5, <1>6, <1>7, Zenon DEF Passes

(* The pieces of a text are what lies between separators, and these.       *)
LEMMA PiecesWalk ==
  ASSUME NEW R, NEW text \in Seq(R)
  PROVE  \E f : /\ Pieces(text) = f[1]
                /\ CutOf(R, Pieces(text), text)
                /\ Walk(WordsOf(R), Len(text), PieceWords(text), PieceEnds(text), f)
<1> DEFINE n == Len(text)
           word == PieceWords(text)
           end == PieceEnds(text)
           Turn(g) == [i \in 1 .. n + 1 |->
                         IF i > n THEN <<>>
                         ELSE <<SubSeq(text, i, PieceEnd(text, i))>> \o g[PieceEnd(text, i) + 1]]
<1>1. PICK f : Pieces(text) = f[1] /\ f = CHOOSE g : g = Turn(g)
  BY Zenon DEF Pieces
<1>2. n \in Nat
  BY LenProperties
<1>3. ASSUME NEW g PROVE Turn(g) = WalkTurn(n, word, end, g)
  <2>1. ASSUME NEW i \in 1 .. n + 1, ~(i > n)
        PROVE  word[i] = <<SubSeq(text, i, PieceEnd(text, i))>> /\ end[i] = PieceEnd(text, i)
    <3>1. i \in 1 .. n
      BY <1>2, <2>1
    <3> QED  BY <3>1 DEF PieceWords, PieceEnds
  <2> HIDE DEF word, end
  <2>2. \A i \in 1 .. n + 1 :
          (IF i > n THEN <<>>
           ELSE <<SubSeq(text, i, PieceEnd(text, i))>> \o g[PieceEnd(text, i) + 1])
            = (IF i > n THEN <<>> ELSE word[i] \o g[end[i] + 1])
    BY <2>1, Zenon
  <2> QED  BY <2>2, Zenon DEF WalkTurn
<1>4. Passes(R, text, word, end)
  BY PieceEnding
<1>5. f = WalkTurn(n, word, end, f)
  <2>1. PICK g : g = WalkTurn(n, word, end, g)
    BY <1>4, Passable
  <2> HIDE DEF word, end, Turn, n
  <2>2. g = Turn(g)
    BY <1>3, <2>1, Zenon
  <2>3. f = Turn(f)
    BY <1>1, <2>2, Zenon
  <2> QED  BY <1>3, <2>3, Zenon
<1>6. CutOf(R, f[1], text) /\ Walk(WordsOf(R), n, word, end, f)
  <2> HIDE DEF word, end
  <2> QED  BY <1>4, <1>5, WalkCuts
<1> QED  BY <1>1, <1>6

-----------------------------------------------------------------------------
(* Best places *)

(* Of places with weights one is the heaviest; the first of the heaviest   *)
(* is what CalcDP and Viterbi take.                                        *)
FirstBest(T, v, top, first) ==
  /\ top \in Int /\ \A x \in T : v[x] \in Int /\ v[x] <= top
  /\ first \in T /\ v[first] = top

(* Max and Min of the weights find them. *)
LEMMA BestPlace ==
  ASSUME NEW k \in Nat, NEW T \in SUBSET (0 .. k), T # {}, NEW v \in [T -> Int]
  PROVE  LET top == Max({v[x] : x \in T})
         IN FirstBest(T, v, top, Min({x \in T : v[x] = top}))
<1> DEFINE Upto(m) == {x \in T : x <= m}
           G == {m \in 0 .. k : Upto(m) = {} \/ \E x \in Upto(m) : \A y \in Upto(m) : v[y] <= v[x]}
<1>0. \A x \in T : x \in 0 .. k /\ v[x] \in Int
  OBVIOUS
<1>1. 0 \in G
  <2>1. \A x \in Upto(0) : x = 0
    BY <1>0
  <2>2. CASE 0 \in T
    <3>1. 0 \in Upto(0) /\ \A y \in Upto(0) : v[y] <= v[0]
      BY <1>0, <2>1, <2>2
    <3> QED  BY <3>1
  <2>3. CASE 0 \notin T
    <3>1. Upto(0) = {}
      BY <2>1, <2>3
    <3> QED  BY <3>1
  <2> QED  BY <2>2, <2>3
<1>2. ASSUME NEW m \in 0 .. k - 1, m \in G PROVE m + 1 \in G
  <2>0. Upto(m + 1) \subseteq Upto(m) \cup {m + 1} /\ m + 1 \in 0 .. k /\ Upto(m) \subseteq Upto(m + 1)
    <3>1. m \in Nat /\ m < k
      OBVIOUS
    <3>2. ASSUME NEW x \in Upto(m + 1) PROVE x \in Upto(m) \cup {m + 1}
      <4>1. x \in T /\ x \in Nat /\ x <= m + 1
        BY <1>0
      <4> QED  BY <3>1, <4>1
    <3>3. ASSUME NEW x \in Upto(m) PROVE x \in Upto(m + 1)
      <4>1. x \in T /\ x \in Nat /\ x <= m
        BY <1>0
      <4> QED  BY <3>1, <4>1
    <3>4. m + 1 \in 0 .. k
      BY <3>1
    <3> HIDE DEF Upto
    <3> QED  BY <3>2, <3>3, <3>4
  <2>1. CASE m + 1 \notin T
    <3>1. Upto(m + 1) = Upto(m)
      BY <2>0, <2>1
    <3> QED  BY <1>2, <2>0, <3>1
  <2>2. CASE m + 1 \in T /\ Upto(m) = {}
    <3>1. m + 1 \in Upto(m + 1) /\ \A y \in Upto(m + 1) : y = m + 1
      BY <2>0, <2>2
    <3>2. v[m + 1] \in Int
      BY <2>2
    <3>3. \A y \in Upto(m + 1) : v[y] <= v[m + 1]
      BY <3>1, <3>2
    <3> QED  BY <2>0, <3>1, <3>3
  <2>3. CASE m + 1 \in T /\ Upto(m) # {}
    <3>1. PICK x \in Upto(m) : \A y \in Upto(m) : v[y] <= v[x]
      BY <1>2, <2>3
    <3>2. v[x] \in Int /\ v[m + 1] \in Int /\ \A y \in Upto(m + 1) : v[y] \in Int
      BY <2>3
    <3>3. CASE v[m + 1] <= v[x]
      <4>1. \A y \in Upto(m + 1) : v[y] <= v[x]
        BY <2>0, <3>1, <3>3
      <4> QED  BY <2>0, <4>1
    <3>4. CASE v[x] < v[m + 1]
      <4>1. ASSUME NEW y \in Upto(m + 1) PROVE v[y] <= v[m + 1]
        <5>1. CASE y = m + 1
          BY <3>2, <5>1
        <5>2. CASE y \in Upto(m)
          <6>1. v[y] <= v[x] /\ v[y] \in Int
            BY <3>1, <3>2, <5>2
          <6> QED  BY <3>2, <3>4, <6>1
        <5> QED  BY <2>0, <5>1, <5>2
      <4>2. m + 1 \in Upto(m + 1)
        BY <2>3
      <4> QED  BY <2>0, <4>1, <4>2
    <3> QED  BY <3>2, <3>3, <3>4
  <2> QED  BY <2>1, <2>2, <2>3
<1>3. k \in G
  <2> HIDE DEF G
  <2>1. 0 .. k \subseteq G
    BY <1>1, <1>2, Counting
  <2> QED  BY <2>1
<1>4. Upto(k) = T
  <2>1. \A x \in T : x <= k
    BY <1>0
  <2> QED  BY <2>1
<1>5. PICK b \in T : \A y \in T : v[y] <= v[b]
  BY <1>3, <1>4
<1> DEFINE V == {v[x] : x \in T}
<1>6. \A x \in T : v[x] \in Int
  OBVIOUS
<1>7. v[b] \in V /\ \A y \in V : v[b] >= y
  BY <1>5, <1>6
<1>8. PICK top : top = Max(V)
  OBVIOUS
<1>9. top \in V /\ \A y \in V : top >= y
  <2> HIDE DEF V
  <2> QED  BY <1>7, <1>8, Zenon DEF Max
<1>10. top \in Int /\ \A x \in T : v[x] <= top
  BY <1>6, <1>9
<1>11. PICK first : first = Min({x \in T : v[x] = top})
  OBVIOUS
<1>12. first \in T /\ v[first] = top
  <2>1. {x \in T : v[x] = top} # {} /\ {x \in T : v[x] = top} \subseteq Nat
    <3>1. {x \in T : v[x] = top} # {}
      BY <1>9
    <3>2. \A x \in T : x \in Nat
      BY <1>0
    <3> QED  BY <3>1, <3>2
  <2>2. first \in {x \in T : v[x] = top}
    BY <1>11, <2>1, FirstPlace
  <2> QED  BY <2>2
<1> QED  BY <1>6, <1>8, <1>10, <1>11, <1>12 DEF FirstBest

-----------------------------------------------------------------------------
(* Viterbi *)

(* What Absorb keeps: the order, and whether a weight is above MIN_DOUBLE. *)
LEMMA Absorbed ==
  /\ \A v \in Int : Absorb(v) \in Int
  /\ \A v, w \in Int : v <= w => Absorb(v) <= Absorb(w)
  /\ Absorb(MinDouble) = MinDouble
<1>1. ASSUME NEW v \in Int
      PROVE  Absorb(v) = IF v > -5000 THEN v ELSE (-10000) * ((5000 - v) \div 10000)
  <2>1. PICK m \in Int : m = MinDouble /\ m = -10000
    BY DEF MinDouble
  <2>2. m \div 2 = -5000
    BY <2>1
  <2>3. -(m \div 2) = 5000 /\ -m = 10000
    <3>1. PICK d \in Int : d = m \div 2 /\ d = -5000
      BY <2>2
    <3>2. -d = 5000
      BY <3>1
    <3>3. m = -10000
      BY <2>1
    <3>4. -m = 10000
      <4>1. \A x \in Int : -x = 0 - x
        OBVIOUS
      <4>2. -m = 0 - m
        BY <4>1
      <4>3. 0 - m = 10000
        BY <3>3
      <4> QED  BY <4>2, <4>3
    <3> QED  BY <3>1, <3>2, <3>4
  <2>4. Absorb(v) = IF v > MinDouble \div 2 THEN v
                    ELSE MinDouble * (((-MinDouble \div 2) - v) \div (-MinDouble))
    BY Zenon DEF Absorb
  <2> QED  BY <2>1, <2>2, <2>3, <2>4
<1>2. ASSUME NEW v \in Int
      PROVE  \E q \in Int : /\ q = (5000 - v) \div 10000
                            /\ 10000 * q <= 5000 - v /\ 5000 - v < 10000 * q + 10000
  OBVIOUS
<1>3. ASSUME NEW v \in Int PROVE Absorb(v) \in Int
  BY <1>1, <1>2
<1>4. ASSUME NEW v \in Int, NEW w \in Int, v <= w PROVE Absorb(v) <= Absorb(w)
  <2>1. PICK q \in Int : /\ q = (5000 - v) \div 10000
                         /\ 10000 * q <= 5000 - v /\ 5000 - v < 10000 * q + 10000
    BY <1>2
  <2>2. PICK p \in Int : /\ p = (5000 - w) \div 10000
                         /\ 10000 * p <= 5000 - w /\ 5000 - w < 10000 * p + 10000
    BY <1>2
  <2>3. Absorb(v) = (IF v > -5000 THEN v ELSE (-10000) * q)
    BY <1>1, <2>1
  <2>4. Absorb(w) = (IF w > -5000 THEN w ELSE (-10000) * p)
    BY <1>1, <2>2
  <2>5. p <= q
    BY <1>4, <2>1, <2>2
  <2>6. v <= -5000 => q >= 1
    BY <2>1
  <2> QED  BY <1>4, <2>3, <2>4, <2>5, <2>6
<1>5. Absorb(MinDouble) = MinDouble
  BY <1>1 DEF MinDouble
<1> QED  BY <1>3, <1>4, <1>5

(* A column: for each state a weight, and states that end in it.           *)
Entries == [weight : Int, path : Seq(States)]
Columns == [States -> Entries]
Onward(column, y, rune, p) ==
  Absorb(column[p].weight + TransProb[p][y] + GetEmitProb(y, rune))
StepTo(column, rune, y, entry) ==
  /\ entry \in Entries
  /\ \E from \in States :
       /\ entry.path = Append(column[from].path, y)
       /\ \/ /\ entry.weight > MinDouble
             /\ entry.weight = Onward(column, y, rune, from)
             /\ \A p \in States : Onward(column, y, rune, p) <= entry.weight
          \/ /\ entry.weight = MinDouble
             /\ \A p \in States : Onward(column, y, rune, p) <= MinDouble

(* No rune is likelier than certain. *)
LEMMA Emitted ==
  ASSUME NEW y \in States, NEW c
  PROVE  GetEmitProb(y, c) \in Int /\ GetEmitProb(y, c) <= 0
<1>1. CASE c \in DOMAIN EmitProb[y]
  <2>1. EmitProb[y][c] \in Int /\ EmitProb[y][c] <= 0
    BY <1>1, ModelAssumption
  <2> QED  BY <1>1, <2>1 DEF GetEmitProb
<1>2. CASE c \notin DOMAIN EmitProb[y]
  BY <1>2 DEF GetEmitProb, MinDouble
<1> QED  BY <1>1, <1>2

(* What a predecessor leads to has a weight. *)
LEMMA ThroughTyped ==
  ASSUME NEW column \in Columns, NEW y \in States, NEW c, NEW p \in States
  PROVE  Onward(column, y, c, p) \in Int
<1>1. column[p].weight \in Int
  BY DEF Columns, Entries
<1>2. TransProb[p][y] \in Int
  BY ModelAssumption
<1>3. GetEmitProb(y, c) \in Int
  BY Emitted
<1>4. column[p].weight + TransProb[p][y] + GetEmitProb(y, c) \in Int
  BY <1>1, <1>2, <1>3
<1> QED  BY <1>4, Absorbed DEF Onward

(* One column from the one before. *)
LEMMA ColumnStep ==
  ASSUME NEW column \in Columns, NEW c
  PROVE  /\ ViterbiStep(column, c) \in Columns
         /\ \A y \in States : StepTo(column, c, y, ViterbiStep(column, c)[y])
<1>1. PICK next : next = ViterbiStep(column, c)
  OBVIOUS
<1>2. MinDouble \in Int /\ E \in States /\ States = 0 .. 3
  BY DEF MinDouble, E, States
<1>3. ASSUME NEW y \in States
      PROVE  StepTo(column, c, y, next[y])
  <2> DEFINE Via(p) == Absorb(column[p].weight + TransProb[p][y] + GetEmitProb(y, c))
  <2>1. PICK v : v = [p \in States |-> Via(p)]
    OBVIOUS
  <2>2. \A p \in States : v[p] = Via(p) /\ v[p] = Onward(column, y, c, p)
    BY <2>1 DEF Onward
  <2>3. v \in [States -> Int]
    <3>1. \A p \in States : v[p] \in Int
      BY <2>2, ThroughTyped
    <3> QED  BY <2>1, <3>1
  <2>4. PICK top : top = Max({v[p] : p \in States})
    OBVIOUS
  <2>5. PICK first : first = Min({p \in States : v[p] = top})
    OBVIOUS
  <2>6. FirstBest(States, v, top, first)
    <3>1. States # {} /\ States \in SUBSET (0 .. 3) /\ 3 \in Nat
      BY <1>2
    <3> QED  BY <2>3, <2>4, <2>5, <3>1, BestPlace
  <2>7. PICK from : from = IF top > MinDouble THEN first ELSE E
    OBVIOUS
  <2>8. next[y] = [weight |-> IF top > MinDouble THEN top ELSE MinDouble,
                   path |-> Append(column[from].path, y)]
    <3>1. {Via(p) : p \in States} = {v[p] : p \in States}
      BY <2>2
    <3>2. {p \in States : Via(p) = top} = {p \in States : v[p] = top}
      BY <2>2
    <3>3. top = Max({Via(p) : p \in States})
      BY <2>4, <3>1
    <3>4. first = Min({p \in States : Via(p) = top})
      BY <2>5, <3>2
    <3> QED  BY <1>1, <2>7, <3>3, <3>4, Zenon DEF ViterbiStep
  <2>9. from \in States
    BY <1>2, <2>6, <2>7 DEF FirstBest
  <2>10. PICK path : path = Append(column[from].path, y) /\ path \in Seq(States)
    <3>1. column[from].path \in Seq(States)
      BY <2>9 DEF Columns, Entries
    <3> QED  BY <3>1, AppendProperties
  <2>11. CASE top > MinDouble
    <3>1. next[y] = [weight |-> top, path |-> path]
      BY <2>8, <2>10, <2>11
    <3>2. top \in Int /\ from = first /\ v[from] = top /\ \A p \in States : v[p] <= top
      BY <2>6, <2>7, <2>11 DEF FirstBest
    <3>3. next[y] \in Entries /\ next[y].weight = top /\ next[y].path = path
      BY <2>10, <3>1, <3>2 DEF Entries
    <3>4. Onward(column, y, c, from) = top
      BY <2>2, <2>9, <3>2
    <3>5. \A p \in States : Onward(column, y, c, p) <= top
      BY <2>2, <3>2
    <3> QED  BY <2>9, <2>10, <2>11, <3>3, <3>4, <3>5 DEF StepTo
  <2>12. CASE ~(top > MinDouble)
    <3>1. next[y] = [weight |-> MinDouble, path |-> path]
      BY <2>8, <2>10, <2>12
    <3>2. top \in Int /\ \A p \in States : v[p] \in Int /\ v[p] <= top
      BY <2>6 DEF FirstBest
    <3>3. next[y] \in Entries /\ next[y].weight = MinDouble /\ next[y].path = path
      BY <1>2, <2>10, <3>1 DEF Entries
    <3>4. \A p \in States : v[p] <= MinDouble
      BY <1>2, <2>12, <3>2
    <3>5. \A p \in States : Onward(column, y, c, p) <= MinDouble
      BY <2>2, <3>4
    <3> QED  BY <2>9, <2>10, <3>3, <3>5 DEF StepTo
  <2> QED  BY <2>11, <2>12
<1>4. next = [y \in States |-> next[y]]
  BY <1>1, Zenon DEF ViterbiStep
<1>5. \A y \in States : next[y] \in Entries
  BY <1>3 DEF StepTo
<1>6. next \in Columns
  BY <1>4, <1>5 DEF Columns
<1> QED  BY <1>1, <1>3, <1>6

(* Viterbi as a run over the runes behind the first.                       *)
FirstColumn(r) ==
  [y \in States |-> [weight |-> Absorb(StartProb[y] + GetEmitProb(y, r[1])),
                     path |-> <<y>>]]
ViterbiRun(r, h) ==
  /\ h \in [1 .. Len(r) -> Columns]
  /\ h[1] = FirstColumn(r)
  /\ \A i \in 2 .. Len(r) : h[i] = ViterbiStep(h[i - 1], r[i])
  /\ Viterbi(r) = IF h[Len(r)][E].weight >= h[Len(r)][S].weight
                  THEN h[Len(r)][E] ELSE h[Len(r)][S]

(* The first column is one. *)
LEMMA FirstTyped ==
  ASSUME NEW r
  PROVE  FirstColumn(r) \in Columns
<1>1. ASSUME NEW y \in States
      PROVE  [weight |-> Absorb(StartProb[y] + GetEmitProb(y, r[1])), path |-> <<y>>] \in Entries
  <2>1. StartProb[y] \in Int
    BY ModelAssumption
  <2>2. GetEmitProb(y, r[1]) \in Int
    BY Emitted
  <2>3. StartProb[y] + GetEmitProb(y, r[1]) \in Int
    BY <2>1, <2>2
  <2>4. PICK w : w = Absorb(StartProb[y] + GetEmitProb(y, r[1]))
    OBVIOUS
  <2>5. w \in Int
    BY <2>3, <2>4, Absorbed
  <2>6. <<y>> \in Seq(States)
    OBVIOUS
  <2> QED  BY <2>4, <2>5, <2>6 DEF Entries
<1> QED  BY <1>1 DEF FirstColumn, Columns

(* Viterbi goes through columns, and takes E or S of the last. *)
LEMMA ViterbiRuns ==
  ASSUME NEW R, NEW r \in WordsOf(R)
  PROVE  \E h : ViterbiRun(r, h)
<1>1. PICK X, step, a, n, q :
        /\ X = Columns
        /\ step = [x \in X \X R |-> ViterbiStep(x[1], x[2])]
        /\ a = FirstColumn(r) /\ n = Len(r) /\ q = Tail(r)
  OBVIOUS
<1>2. /\ r \in Seq(R) /\ r # <<>> /\ n \in Nat \ {0}
      /\ q \in Seq(R) /\ Len(q) = n - 1 /\ DOMAIN q = 1 .. n - 1
      /\ \A i \in 1 .. n - 1 : q[i] = r[i + 1]
  <2>1. r \in Seq(R) /\ r # <<>>
    BY DEF WordsOf
  <2>2. n \in Nat \ {0}
    BY <1>1, <2>1, EmptySeq
  <2>3. q \in Seq(R) /\ Len(q) = n - 1 /\ \A i \in 1 .. Len(q) : q[i] = r[i + 1]
    BY <1>1, <2>1, HeadTailProperties
  <2> QED  BY <2>1, <2>2, <2>3, LenProperties
<1>3. a \in X
  BY <1>1, FirstTyped
<1>4. ASSUME NEW s \in X, NEW c \in R
      PROVE  ViterbiStep(s, c) \in X /\ step[<<s, c>>] = ViterbiStep(s, c)
  <2>1. PICK x : x = <<s, c>>
    OBVIOUS
  <2>2. x \in X \X R /\ x[1] = s /\ x[2] = c
    BY <2>1
  <2>3. step[x] = ViterbiStep(s, c)
    BY <1>1, <2>2, Zenon
  <2> QED  BY <1>1, <2>1, <2>3, ColumnStep
<1>5. Steps(X, R, step)
  <2>1. \A x \in X \X R : ViterbiStep(x[1], x[2]) \in X
    BY <1>4
  <2> QED  BY <1>1, <2>1 DEF Steps
<1>6. PICK g : FoldOf(X, step, a, q, g)
  BY <1>2, <1>3, <1>5, FoldExists
<1> DEFINE D == DOMAIN q
           Turn(f) == [s \in SUBSET D |->
                         IF s = {} THEN a ELSE ViterbiStep(f[s \ {Max(s)}], q[Max(s)])]
           Better(last) == IF last[E].weight >= last[S].weight THEN last[E] ELSE last[S]
<1>7. PICK f : /\ Viterbi(r) = Better(f[D])
               /\ f = CHOOSE h : h = Turn(h)
  <2>1. PICK last : last = FoldLeft(ViterbiStep, a, q)
    OBVIOUS
  <2>2. PICK v : v = Viterbi(r)
    OBVIOUS
  <2>3. v = Better(last)
    BY <1>1, <2>1, <2>2, Zenon DEF Viterbi, FirstColumn
  <2>4. PICK f : last = f[D] /\ f = CHOOSE h : h = Turn(h)
    BY <2>1, Zenon DEF FoldLeft, MapThenFoldSet
  <2> QED  BY <2>2, <2>3, <2>4, Zenon
<1>8. ASSUME NEW s \in SUBSET D, s # {}
      PROVE  g[s] = ViterbiStep(g[s \ {Max(s)}], q[Max(s)])
  <2>0. n - 1 \in Nat
    BY <1>2
  <2>1. Max(s) \in s
    BY <1>2, <1>8, <2>0, LastPlace
  <2>2. g[s \ {Max(s)}] \in X
    BY <1>1, <1>2, <1>6 DEF FoldOf
  <2>3. q[Max(s)] \in R
    BY <1>1, <1>2, <2>1, ElementOfSeq
  <2>4. g[s] = step[<<g[s \ {Max(s)}], q[Max(s)]>>]
    BY <1>1, <1>2, <1>6, <1>8 DEF FoldOf
  <2> QED  BY <1>4, <2>2, <2>3, <2>4
<1>9. g[{}] = a /\ g = [s \in SUBSET D |-> g[s]]
  BY <1>1, <1>2, <1>6 DEF FoldOf
<1>10. g = Turn(g)
  <2> HIDE DEF D
  <2> QED  BY <1>8, <1>9, Zenon
<1>11. f = Turn(f)
  <2> HIDE DEF Turn, D
  <2> QED  BY <1>7, <1>10, Zenon
<1>12. f[{}] = g[{}]
  BY <1>9, <1>11, {} \in SUBSET D, Zenon
<1>13. ASSUME NEW s \in SUBSET D, s # {}, f[s \ {Max(s)}] = g[s \ {Max(s)}]
       PROVE  f[s] = g[s]
  <2>1. f[s] = ViterbiStep(f[s \ {Max(s)}], q[Max(s)])
    BY <1>11, <1>13, Zenon
  <2> QED  BY <1>8, <1>13, <2>1, Zenon
<1>14. f[D] = g[D]
  <2>0. n - 1 \in Nat
    BY <1>2
  <2> HIDE DEF Turn
  <2> QED  BY <1>2, <1>12, <1>13, <2>0, FoldsAgree
<1>15. PICK k : RunOf(X, step, a, q, k) /\ k[Len(q)] = g[D]
  <2>1. EndsIn(X, step, a, q, g[1 .. Len(q)])
    BY <1>2, <1>3, <1>5, <1>6, FoldRuns
  <2> QED  BY <1>2, <2>1 DEF EndsIn
<1>16. /\ k \in [0 .. n - 1 -> X] /\ k[0] = a /\ k[n - 1] = g[D]
       /\ \A i \in 1 .. n - 1 : k[i] = step[<<k[i - 1], q[i]>>]
  BY <1>2, <1>15 DEF RunOf
<1>17. PICK h : h = [i \in 1 .. n |-> k[i - 1]]
  OBVIOUS
<1>18. h \in [1 .. n -> X] /\ h[1] = a /\ h[n] = g[D]
  <2>1. \A i \in 1 .. n : i - 1 \in 0 .. n - 1
    BY <1>2
  <2>2. 1 \in 1 .. n /\ n \in 1 .. n
    BY <1>2
  <2> QED  BY <1>16, <1>17, <2>1, <2>2
<1>19. ASSUME NEW i \in 2 .. n PROVE h[i] = ViterbiStep(h[i - 1], r[i])
  <2>1. PICK j : j = i - 1
    OBVIOUS
  <2>2. j \in 1 .. n - 1 /\ i \in 1 .. n /\ j \in 1 .. n /\ j - 1 \in 0 .. n - 1 /\ j + 1 = i
    BY <1>2, <2>1
  <2>3. h[i] = k[j] /\ h[j] = k[j - 1]
    BY <1>17, <2>1, <2>2
  <2>4. k[j] = step[<<k[j - 1], q[j]>>] /\ k[j - 1] \in X /\ q[j] = r[i]
    BY <1>2, <1>16, <2>2
  <2>5. q[j] \in R
    BY <1>2, <2>2, ElementOfSeq
  <2> QED  BY <1>4, <2>1, <2>3, <2>4, <2>5
<1>20. Viterbi(r) = Better(h[n])
  BY <1>7, <1>14, <1>18
<1> QED  BY <1>1, <1>18, <1>19, <1>20 DEF ViterbiRun

(* The path of an entry has a state for each rune so far, the last its own. *)
PathTo(entry, i, y) ==
  /\ entry.path \in [1 .. i -> States] /\ entry.path \in Seq(States)
  /\ Len(entry.path) = i /\ entry.path[i] = y

(* So it is in every column. *)
LEMMA PathsGrow ==
  ASSUME NEW R, NEW r \in WordsOf(R), NEW h, ViterbiRun(r, h)
  PROVE  \A i \in 1 .. Len(r) : \A y \in States : PathTo(h[i][y], i, y)
<1>1. PICK n : n = Len(r) /\ n \in Nat \ {0}
  <2>1. r \in Seq(R) /\ r # <<>>
    BY DEF WordsOf
  <2> QED  BY <2>1, EmptySeq
<1>2. h \in [1 .. n -> Columns] /\ h[1] = FirstColumn(r)
      /\ \A i \in 2 .. n : h[i] = ViterbiStep(h[i - 1], r[i])
  BY <1>1 DEF ViterbiRun
<1> DEFINE G == {i \in 0 .. n : i = 0 \/ \A y \in States : PathTo(h[i][y], i, y)}
<1>3. ASSUME NEW e, NEW i \in Nat, NEW y \in States,
             e.path \in Seq(States), Len(e.path) = i, e.path[i] = y
      PROVE  PathTo(e, i, y)
  <2>1. e.path \in [1 .. i -> States]
    <3>1. PICK p : p = e.path
      OBVIOUS
    <3>2. p \in [1 .. Len(p) -> States]
      BY <1>3, <3>1, LenProperties
    <3> QED  BY <1>3, <3>1, <3>2
  <2> QED  BY <1>3, <2>1 DEF PathTo
<1>4. ASSUME NEW v \in 0 .. n - 1, v \in G PROVE v + 1 \in G
  <2>1. v + 1 \in 1 .. n /\ v + 1 \in Nat
    BY <1>1
  <2>2. ASSUME NEW y \in States PROVE PathTo(h[v + 1][y], v + 1, y)
    <3>1. CASE v = 0
      <4>1. h[v + 1][y].path = <<y>>
        BY <1>2, <3>1 DEF FirstColumn
      <4>2. <<y>> \in Seq(States) /\ Len(<<y>>) = v + 1 /\ <<y>>[v + 1] = y
        BY <3>1
      <4> QED  BY <1>3, <2>1, <4>1, <4>2
    <3>2. CASE v # 0
      <4>1. v \in 1 .. n /\ v + 1 \in 2 .. n /\ (v + 1) - 1 = v
        BY <1>1, <3>2
      <4>2. h[v] \in Columns /\ h[v + 1] = ViterbiStep(h[v], r[v + 1])
        BY <1>2, <4>1
      <4>3. StepTo(h[v], r[v + 1], y, h[v + 1][y])
        BY <4>2, ColumnStep
      <4>4. PICK from \in States : h[v + 1][y].path = Append(h[v][from].path, y)
        BY <4>3 DEF StepTo
      <4>5. PICK p : p = h[v][from].path
        OBVIOUS
      <4>6. p \in Seq(States) /\ Len(p) = v
        BY <1>4, <3>2, <4>5 DEF PathTo
      <4>7. /\ Append(p, y) \in Seq(States) /\ Len(Append(p, y)) = v + 1
            /\ Append(p, y)[v + 1] = y
        BY <4>6, AppendProperties
      <4> QED  BY <1>3, <2>1, <4>4, <4>5, <4>7
    <3> QED  BY <3>1, <3>2
  <2> QED  BY <2>1, <2>2
<1>5. 0 .. n \subseteq G
  <2>1. 0 \in G /\ n \in Nat
    BY <1>1
  <2> HIDE DEF G
  <2> QED  BY <1>4, <2>1, Counting
<1> QED  BY <1>1, <1>5

(* Viterbi gives each rune a state, and ends in E or S. *)
LEMMA ViterbiPath ==
  ASSUME NEW R, NEW r \in WordsOf(R)
  PROVE  /\ Viterbi(r).path \in [1 .. Len(r) -> States]
         /\ Viterbi(r).path[Len(r)] \in {E, S}
<1>1. PICK h : ViterbiRun(r, h)
  BY ViterbiRuns
<1>2. PICK n : n = Len(r) /\ n \in Nat \ {0} /\ n \in 1 .. n
  <2>1. r \in Seq(R) /\ r # <<>>
    BY DEF WordsOf
  <2> QED  BY <2>1, EmptySeq
<1>3. PICK y \in {E, S} : Viterbi(r) = h[n][y]
  BY <1>1, <1>2, Zenon DEF ViterbiRun
<1>4. y \in States
  BY DEF E, S, States
<1>5. PathTo(h[n][y], n, y)
  BY <1>1, <1>2, <1>4, PathsGrow
<1> QED  BY <1>2, <1>3, <1>5 DEF PathTo

(* CutBehind leaves nothing when the last place is among those it is given. *)
LEMMA BehindCut ==
  ASSUME NEW R, NEW r \in WordsOf(R), NEW ends \in SUBSET (1 .. Len(r)), Len(r) \in ends
  PROVE  CutOf(R, CutBehind(r, ends), r)
<1> DEFINE n == Len(r)
           first(i) == Min(ends \cap i .. n)
           end == [i \in 1 .. n |-> first(i)]
           word == [i \in 1 .. n |-> <<SubSeq(r, i, first(i))>>]
           Turn(g) == [i \in 1 .. n + 1 |->
                         IF ends \cap i .. n = {} THEN <<>>
                         ELSE <<SubSeq(r, i, first(i))>> \o g[first(i) + 1]]
<1>1. r \in Seq(R) /\ n \in Nat
  BY LenProperties DEF WordsOf
<1>2. PICK f : CutBehind(r, ends) = f[1] /\ f = CHOOSE g : g = Turn(g)
  BY Zenon DEF CutBehind
<1>3. ASSUME NEW i \in 1 .. n PROVE first(i) \in i .. n /\ ends \cap i .. n # {}
  <2>1. n \in ends \cap i .. n
    BY <1>1
  <2>2. ends \cap i .. n \subseteq Nat
    BY <1>1
  <2>3. first(i) \in ends \cap i .. n
    <3>1. PICK T : T = ends \cap i .. n
      OBVIOUS
    <3> QED  BY <2>1, <2>2, <3>1, FirstPlace
  <2> QED  BY <2>1, <2>3
<1>4. ends \cap (n + 1) .. n = {}
  BY <1>1
<1>5. Passes(R, r, word, end)
  <2>1. \A i \in 1 .. n : end[i] = first(i) /\ word[i] = <<SubSeq(r, i, first(i))>>
    OBVIOUS
  <2>2. ASSUME NEW i \in 1 .. n
        PROVE  i <= end[i] /\ end[i] \in 1 .. n /\ CutOf(R, word[i], SubSeq(r, i, end[i]))
    <3>1. PICK e : e = first(i) /\ e \in i .. n
      BY <1>3
    <3>2. SubSeq(r, i, e) \in WordsOf(R)
      BY <1>1, <3>1, CutInTwo
    <3>3. CutOf(R, <<SubSeq(r, i, e)>>, SubSeq(r, i, e))
      BY <3>2, CutWhole
    <3>4. i <= e /\ e \in 1 .. n
      BY <1>1, <3>1
    <3> HIDE DEF first
    <3> QED  BY <2>1, <3>1, <3>3, <3>4
  <2>3. end \in [1 .. n -> 1 .. n]
    <3>1. \A i \in 1 .. n : first(i) \in 1 .. n
      BY <1>1, <1>3
    <3> HIDE DEF first
    <3> QED  BY <3>1
  <2>4. word = [i \in 1 .. n |-> word[i]]
    BY Zenon
  <2>5. \A i \in 1 .. n : i <= end[i] /\ CutOf(R, word[i], SubSeq(r, i, end[i]))
    BY <2>2
  <2> HIDE DEF word, end
  <2> QED  BY <2>3, <2>4, <2>5, Zenon DEF Passes
<1>6. ASSUME NEW g PROVE Turn(g) = WalkTurn(n, word, end, g)
  <2>1. \A i \in 1 .. n : end[i] = first(i) /\ word[i] = <<SubSeq(r, i, first(i))>>
    OBVIOUS
  <2> HIDE DEF word, end, first
  <2>2. ASSUME NEW i \in 1 .. n + 1
        PROVE  (IF ends \cap i .. n = {} THEN <<>>
                ELSE <<SubSeq(r, i, first(i))>> \o g[first(i) + 1])
                 = (IF i > n THEN <<>> ELSE word[i] \o g[end[i] + 1])
    <3>0. n \in Nat
      BY <1>1
    <3>1. CASE i = n + 1
      <4>1. i > n /\ ends \cap i .. n = {}
        <5>1. i > n
          BY <3>0, <3>1
        <5> QED  BY <1>4, <3>1, <5>1
      <4> QED  BY <4>1, Zenon
    <3>2. CASE i \in 1 .. n
      <4>1. ends \cap i .. n # {}
        BY <1>3, <3>2, Zenon
      <4>2. ~(i > n)
        BY <3>0, <3>2
      <4> QED  BY <2>1, <3>2, <4>1, <4>2, Zenon
    <3>3. i = n + 1 \/ i \in 1 .. n
      BY <3>0
    <3> QED  BY <3>1, <3>2, <3>3
  <2> QED  BY <2>2, Zenon DEF WalkTurn
<1>7. f = WalkTurn(n, word, end, f)
  <2>1. PICK g : g = WalkTurn(n, word, end, g)
    <3> HIDE DEF word, end
    <3> QED  BY <1>1, <1>5, Passable
  <2> HIDE DEF word, end, Turn, n
  <2>2. g = Turn(g)
    BY <1>6, <2>1, Zenon
  <2>3. f = Turn(f)
    BY <1>2, <2>2, Zenon
  <2> QED  BY <1>6, <2>3, Zenon
<1>8. CutOf(R, f[1], r)
  <2> HIDE DEF word, end
  <2> QED  BY <1>1, <1>5, <1>7, WalkCuts
<1> QED  BY <1>2, <1>8

(* InternalCut loses nothing: Viterbi's last state is an odd one. *)
LEMMA InternalCuts ==
  ASSUME NEW R, NEW r \in WordsOf(R)
  PROVE  CutOf(R, InternalCut(r), r)
<1>1. PICK status, ends : /\ status = Viterbi(r).path
                          /\ ends = {i \in 1 .. Len(r) : status[i] % 2 = 1}
  OBVIOUS
<1>2. Len(r) \in 1 .. Len(r)
  <2>1. r \in Seq(R) /\ r # <<>>
    BY DEF WordsOf
  <2> QED  BY <2>1, EmptySeq
<1>3. status[Len(r)] = 1 \/ status[Len(r)] = 3
  BY <1>1, ViterbiPath DEF E, S
<1>4. Len(r) \in ends
  BY <1>1, <1>2, <1>3
<1>5. ends \in SUBSET (1 .. Len(r))
  BY <1>1
<1>6. InternalCut(r) = CutBehind(r, ends)
  BY <1>1, Zenon DEF InternalCut
<1> QED  BY <1>4, <1>5, <1>6, BehindCut

(* What HMMCut takes at i: a run of letters, of digits, a single rune, or   *)
(* what Viterbi makes of the runes up to the next of ASCII.                *)
HMMEnd(r, i) == IF r[i] \in Ascii THEN AsciiEnd(r, i)
                                  ELSE LastOfRun(r, i, Range(r) \ Ascii)
HMMWord(r, i) == IF r[i] \in Ascii THEN <<SubSeq(r, i, HMMEnd(r, i))>>
                                   ELSE InternalCut(SubSeq(r, i, HMMEnd(r, i)))

(* HMMCut cuts its runes into words, and loses none. *)
LEMMA HMMCuts ==
  ASSUME NEW R, NEW r \in Seq(R)
  PROVE  CutOf(R, HMMCut(r), r)
<1> DEFINE n == Len(r)
           end == [i \in 1 .. n |-> HMMEnd(r, i)]
           word == [i \in 1 .. n |-> HMMWord(r, i)]
           At(i, g) == IF r[i] \in Ascii
                       THEN <<SubSeq(r, i, AsciiEnd(r, i))>> \o g[AsciiEnd(r, i) + 1]
                       ELSE LET j == LastOfRun(r, i, Range(r) \ Ascii)
                            IN InternalCut(SubSeq(r, i, j)) \o g[j + 1]
           Turn(g) == [i \in 1 .. n + 1 |-> IF i > n THEN <<>> ELSE At(i, g)]
<1>1. n \in Nat
  BY LenProperties
<1>2. PICK f : HMMCut(r) = f[1] /\ f = CHOOSE g : g = Turn(g)
  BY Zenon DEF HMMCut
<1>3. ASSUME NEW i \in 1 .. n PROVE HMMEnd(r, i) \in i .. n
  <2>1. \A T : LastOfRun(r, i, T) \in i .. n
    BY RunEnd
  <2>2. i \in i .. n
    BY <1>1
  <2>3. AsciiEnd(r, i) \in i .. n
    <3>1. CASE r[i] \in Letters
      <4>1. AsciiEnd(r, i) = LastOfRun(r, i, Letters \cup Digits) \/ AsciiEnd(r, i) = LastOfRun(r, i, Digits \cup {Dot})
        BY <3>1 DEF AsciiEnd
      <4> QED  BY <2>1, <4>1, Zenon
    <3>2. CASE r[i] \notin Letters /\ r[i] \in Digits
      <4>1. AsciiEnd(r, i) = LastOfRun(r, i, Digits \cup {Dot})
        BY <3>2 DEF AsciiEnd
      <4> QED  BY <2>1, <4>1, Zenon
    <3>3. CASE r[i] \notin Letters /\ r[i] \notin Digits
      <4>1. AsciiEnd(r, i) = i
        BY <3>3 DEF AsciiEnd
      <4> QED  BY <2>2, <4>1, Zenon
    <3> QED  BY <3>1, <3>2, <3>3
  <2> QED  BY <2>1, <2>3, Zenon DEF HMMEnd
<1>4. Passes(R, r, word, end)
  <2>1. \A i \in 1 .. n : end[i] = HMMEnd(r, i) /\ word[i] = HMMWord(r, i)
    OBVIOUS
  <2>2. ASSUME NEW i \in 1 .. n
        PROVE  i <= end[i] /\ end[i] \in 1 .. n /\ CutOf(R, word[i], SubSeq(r, i, end[i]))
    <3>1. PICK e : e = HMMEnd(r, i) /\ e \in i .. n
      BY <1>3
    <3>2. SubSeq(r, i, e) \in WordsOf(R)
      BY <3>1, CutInTwo
    <3>3. CutOf(R, HMMWord(r, i), SubSeq(r, i, e))
      <4>1. CASE r[i] \in Ascii
        BY <3>1, <3>2, <4>1, CutWhole DEF HMMWord
      <4>2. CASE r[i] \notin Ascii
        BY <3>1, <3>2, <4>2, InternalCuts DEF HMMWord
      <4> QED  BY <4>1, <4>2
    <3>4. i <= e /\ e \in 1 .. n
      BY <1>1, <3>1
    <3> QED  BY <2>1, <3>1, <3>3, <3>4
  <2>3. end \in [1 .. n -> 1 .. n]
    <3>1. \A i \in 1 .. n : HMMEnd(r, i) \in 1 .. n
      BY <1>1, <1>3
    <3> QED  BY <3>1
  <2>4. word = [i \in 1 .. n |-> word[i]]
    BY Zenon
  <2>5. \A i \in 1 .. n : i <= end[i] /\ CutOf(R, word[i], SubSeq(r, i, end[i]))
    BY <2>2
  <2> HIDE DEF word, end
  <2> QED  BY <2>3, <2>4, <2>5, Zenon DEF Passes
<1>5. ASSUME NEW g PROVE Turn(g) = WalkTurn(n, word, end, g)
  <2>1. \A i \in 1 .. n : end[i] = HMMEnd(r, i) /\ word[i] = HMMWord(r, i)
    OBVIOUS
  <2> HIDE DEF word, end
  <2>2. ASSUME NEW i \in 1 .. n + 1, ~(i > n) PROVE At(i, g) = word[i] \o g[end[i] + 1]
    <3>1. i \in 1 .. n
      BY <1>1, <2>2
    <3>2. At(i, g) = HMMWord(r, i) \o g[HMMEnd(r, i) + 1]
      BY Zenon DEF HMMWord, HMMEnd
    <3> QED  BY <2>1, <3>1, <3>2, Zenon
  <2> HIDE DEF At
  <2>3. \A i \in 1 .. n + 1 : (IF i > n THEN <<>> ELSE At(i, g))
                                = (IF i > n THEN <<>> ELSE word[i] \o g[end[i] + 1])
    BY <2>2, Zenon
  <2> QED  BY <2>3, Zenon DEF WalkTurn
<1>6. f = WalkTurn(n, word, end, f)
  <2>1. PICK g : g = WalkTurn(n, word, end, g)
    <3> HIDE DEF word, end
    <3> QED  BY <1>1, <1>4, Passable
  <2> HIDE DEF word, end, Turn, n
  <2>2. g = Turn(g)
    BY <1>5, <2>1, Zenon
  <2>3. f = Turn(f)
    BY <1>2, <2>2, Zenon
  <2> QED  BY <1>5, <2>3, Zenon
<1>7. CutOf(R, f[1], r)
  <2> HIDE DEF word, end
  <2> QED  BY <1>1, <1>4, <1>6, WalkCuts
<1> QED  BY <1>2, <1>7

-----------------------------------------------------------------------------
(* MPSegment *)

(* Cuts of two texts make one of the two behind each other. *)
LEMMA CutsJoin ==
  ASSUME NEW R, NEW p, NEW q, NEW a, NEW b, CutOf(R, p, a), CutOf(R, q, b)
  PROVE  CutOf(R, p \o q, a \o b)
<1>1. p \in Seq(WordsOf(R)) /\ q \in Seq(WordsOf(R)) /\ FlattenSeq(p) = a /\ FlattenSeq(q) = b
  BY DEF CutOf
<1>2. p \in Seq(Seq(R)) /\ q \in Seq(Seq(R))
  <2>1. Seq(WordsOf(R)) \subseteq Seq(Seq(R))
    BY SeqMonotonic DEF WordsOf
  <2> QED  BY <1>1, <2>1
<1>3. FlattenSeq(p \o q) = a \o b
  BY <1>1, <1>2, FlatJoined
<1>4. p \o q \in Seq(WordsOf(R))
  BY <1>1, ConcatProperties
<1> QED  BY <1>3, <1>4 DEF CutOf

(* The table CalcDP fills from the last rune to the first. *)
Paths(R) == [weight : Int, words : Seq(WordsOf(R))]
Via(r, f, i, j) == f[j + 1].weight + WordWeight(SubSeq(r, i, j))
BestAt(r, f, i) ==
  \E e \in Nexts(r, i) :
    /\ f[i].weight = Via(r, f, i, e)
    /\ \A j \in Nexts(r, i) : Via(r, f, i, j) <= f[i].weight
    /\ f[i].words = <<SubSeq(r, i, e)>> \o f[e + 1].words
BestTable(R, r, f) ==
  /\ f \in [1 .. Len(r) + 1 -> Paths(R)]
  /\ f[Len(r) + 1] = [weight |-> 0, words |-> <<>>]
  /\ \A i \in 1 .. Len(r) : BestAt(r, f, i)
  /\ BestFrom(r) = f[1]

(* A word from i ends at i or behind it; the single rune is one. *)
LEMMA NextsTyped ==
  ASSUME NEW R, NEW r \in Seq(R), NEW i \in 1 .. Len(r)
  PROVE  i \in Nexts(r, i) /\ Nexts(r, i) \in SUBSET (i .. Len(r))
<1>1. Len(r) \in Nat
  BY LenProperties
<1>2. i \in i .. Len(r) /\ \A j \in i + 1 .. Len(r) : j \in i .. Len(r)
  BY <1>1
<1> QED  BY <1>2 DEF Nexts

(* A word has a weight, in the dictionary or not. *)
LEMMA WeightTyped ==
  ASSUME NEW w
  PROVE  WordWeight(w) \in Int
BY DictAssumption DEF WordWeight

(* CalcDP fills the table. *)
LEMMA TableFilled ==
  ASSUME NEW R, NEW r \in Seq(R)
  PROVE  \E f : BestTable(R, r, f)
<1> DEFINE n == Len(r)
           D == 1 .. n + 1
           P == Paths(R)
           none == [weight |-> 0, words |-> <<>>]
           Weigh(i, j, g) == g[j + 1].weight + WordWeight(SubSeq(r, i, j))
           top(i, g) == Max({Weigh(i, j, g) : j \in Nexts(r, i)})
           first(i, g) == Min({j \in Nexts(r, i) : Weigh(i, j, g) = top(i, g)})
           At(i, g) == [weight |-> top(i, g),
                        words |-> <<SubSeq(r, i, first(i, g))>> \o g[first(i, g) + 1].words]
           Turn(g) == [i \in D |-> IF i > n THEN none ELSE At(i, g)]
<1>1. n \in Nat
  BY LenProperties
<1>2. PICK f : BestFrom(r) = f[1] /\ f = CHOOSE g : g = Turn(g)
  BY Zenon DEF BestFrom
<1>3. ASSUME NEW i \in 1 .. n, NEW g \in [D -> P]
      PROVE  /\ At(i, g) \in P
             /\ first(i, g) \in Nexts(r, i)
             /\ At(i, g).weight = Weigh(i, first(i, g), g)
             /\ \A j \in Nexts(r, i) : Weigh(i, j, g) <= At(i, g).weight
             /\ At(i, g).words = <<SubSeq(r, i, first(i, g))>> \o g[first(i, g) + 1].words
  <2>1. PICK T : T = Nexts(r, i)
    OBVIOUS
  <2>2. T \in SUBSET (0 .. n) /\ T \in SUBSET (i .. n) /\ T # {}
    <3>1. i \in T /\ T \in SUBSET (i .. n)
      BY <2>1, NextsTyped
    <3>2. \A x \in i .. n : x \in 0 .. n
      BY <1>1
    <3> QED  BY <3>1, <3>2
  <2>3. ASSUME NEW j \in T
        PROVE  Weigh(i, j, g) \in Int /\ g[j + 1] \in P /\ j \in i .. n
    <3>1. j \in i .. n /\ j + 1 \in D
      BY <1>1, <2>2
    <3>2. g[j + 1] \in P
      BY <3>1
    <3>3. g[j + 1].weight \in Int
      BY <3>2 DEF Paths
    <3>4. WordWeight(SubSeq(r, i, j)) \in Int
      BY WeightTyped
    <3> QED  BY <3>1, <3>2, <3>3, <3>4
  <2>4. PICK v : v = [j \in T |-> Weigh(i, j, g)]
    OBVIOUS
  <2>5. v \in [T -> Int] /\ \A j \in T : v[j] = Weigh(i, j, g)
    BY <2>3, <2>4
  <2>6. PICK m, e : m = Max({v[x] : x \in T}) /\ e = Min({x \in T : v[x] = m})
    OBVIOUS
  <2>7. FirstBest(T, v, m, e)
    BY <1>1, <2>2, <2>5, <2>6, BestPlace
  <2>8. m = top(i, g) /\ e = first(i, g)
    <3>1. {v[x] : x \in T} = {Weigh(i, j, g) : j \in Nexts(r, i)}
      BY <2>1, <2>5
    <3>2. m = top(i, g)
      BY <2>6, <3>1, Zenon
    <3>3. {x \in T : v[x] = m} = {j \in Nexts(r, i) : Weigh(i, j, g) = top(i, g)}
      <4> HIDE DEF top, Weigh
      <4> QED  BY <2>1, <2>5, <3>2
    <3> QED  BY <2>6, <3>2, <3>3, Zenon
  <2>9. m \in Int /\ (\A j \in T : v[j] <= m) /\ e \in T /\ v[e] = m
    BY <2>7 DEF FirstBest
  <2>10. PICK w, q : w = SubSeq(r, i, e) /\ q = g[e + 1].words
    OBVIOUS
  <2>11. <<w>> \o q \in Seq(WordsOf(R))
    <3>1. w \in WordsOf(R)
      BY <2>3, <2>9, <2>10, CutInTwo
    <3>2. q \in Seq(WordsOf(R))
      BY <2>3, <2>9, <2>10 DEF Paths
    <3>3. <<w>> \in Seq(WordsOf(R))
      BY <3>1
    <3> QED  BY <3>2, <3>3, ConcatProperties
  <2>12. PICK x : x = At(i, g)
    OBVIOUS
  <2>13. x = [weight |-> m, words |-> <<w>> \o q]
    BY <2>8, <2>10, <2>12, Zenon
  <2>14. x \in P /\ x.weight = m /\ x.words = <<w>> \o q
    BY <2>9, <2>11, <2>13 DEF Paths
  <2>15. /\ first(i, g) \in Nexts(r, i)
         /\ x.weight = Weigh(i, first(i, g), g)
         /\ x.words = <<SubSeq(r, i, first(i, g))>> \o g[first(i, g) + 1].words
    <3> HIDE DEF first, Weigh
    <3> QED  BY <2>1, <2>5, <2>8, <2>9, <2>10, <2>14
  <2>16. \A j \in Nexts(r, i) : Weigh(i, j, g) <= x.weight
    <3> HIDE DEF Weigh
    <3> QED  BY <2>1, <2>5, <2>9, <2>14
  <2> HIDE DEF At, first, Weigh, P
  <2> QED  BY <2>12, <2>14, <2>15, <2>16
<1>4. none \in P
  BY EmptySeq DEF Paths
<1>5. PICK step : step = [x \in D \X [D -> P] |-> IF x[1] > n THEN none ELSE At(x[1], x[2])]
  OBVIOUS
<1>6. ASSUME NEW i \in D, NEW g \in [D -> P]
      PROVE  /\ step[<<i, g>>] = IF i > n THEN none ELSE At(i, g)
             /\ step[<<i, g>>] \in P
  <2>1. PICK x : x = <<i, g>>
    OBVIOUS
  <2>2. x \in D \X [D -> P] /\ x[1] = i /\ x[2] = g
    BY <2>1
  <2> HIDE DEF At, none, P, D
  <2>3. step[x] = IF i > n THEN none ELSE At(i, g)
    BY <1>5, <2>2, Zenon
  <2>4. ~(i > n) => i \in 1 .. n
    BY <1>1 DEF D
  <2> QED  BY <1>3, <1>4, <2>1, <2>3, <2>4
<1>7. step \in [D \X [D -> P] -> P]
  <2>1. ASSUME NEW x \in D \X [D -> P] PROVE step[x] \in P
    <3>1. x = <<x[1], x[2]>> /\ x[1] \in D /\ x[2] \in [D -> P]
      OBVIOUS
    <3> HIDE DEF D, P
    <3> QED  BY <1>6, <3>1
  <2> HIDE DEF D, P, At, none
  <2> QED  BY <1>5, <2>1
<1>8. PICK m : m = [i \in D |-> n + 1 - i]
  OBVIOUS
<1>9. m \in [D -> 0 .. n] /\ \A i \in D : m[i] = n + 1 - i
  BY <1>1, <1>8
<1>10. ASSUME NEW i \in 1 .. n, NEW g \in [D -> P], NEW h,
              \A j \in i .. n : g[j + 1] = h[j + 1]
       PROVE  At(i, g) = At(i, h)
  <2>1. \A j \in Nexts(r, i) : g[j + 1] = h[j + 1]
    BY <1>10, NextsTyped
  <2>2. \A j \in Nexts(r, i) : Weigh(i, j, g) = Weigh(i, j, h)
    BY <2>1
  <2>3. top(i, g) = top(i, h)
    <3>1. {Weigh(i, j, g) : j \in Nexts(r, i)} = {Weigh(i, j, h) : j \in Nexts(r, i)}
      <4> HIDE DEF Weigh
      <4> QED  BY <2>2
    <3> QED  BY <3>1, Zenon
  <2>4. first(i, g) = first(i, h)
    <3> HIDE DEF top, Weigh
    <3>1. {j \in Nexts(r, i) : Weigh(i, j, g) = top(i, g)}
            = {j \in Nexts(r, i) : Weigh(i, j, h) = top(i, h)}
      BY <2>2, <2>3
    <3> QED  BY <3>1, Zenon
  <2>5. g[first(i, g) + 1] = h[first(i, h) + 1]
    <3> HIDE DEF first
    <3>1. first(i, g) \in Nexts(r, i)
      BY <1>3
    <3> QED  BY <2>1, <2>4, <3>1
  <2> HIDE DEF first, top
  <2> QED  BY <2>3, <2>4, <2>5, Zenon
<1>11. ASSUME NEW i \in D, NEW g \in [D -> P], NEW h \in [D -> P],
              \A j \in D : m[j] < m[i] => g[j] = h[j]
       PROVE  step[<<i, g>>] = step[<<i, h>>]
  <2>1. CASE ~(i > n)
    <3>1. i \in 1 .. n
      BY <1>1, <2>1
    <3>2. ASSUME NEW j \in i .. n PROVE g[j + 1] = h[j + 1]
      <4>1. PICK k : k = j + 1
        OBVIOUS
      <4>2. k \in D /\ n + 1 - k < n + 1 - i
        BY <1>1, <3>1, <4>1
      <4>3. m[k] < m[i]
        BY <1>9, <4>2
      <4> QED  BY <1>11, <4>1, <4>2, <4>3
    <3> HIDE DEF At
    <3>3. At(i, g) = At(i, h)
      BY <1>10, <3>1, <3>2
    <3> QED  BY <1>6, <2>1, <3>3
  <2>2. CASE i > n
    <3> HIDE DEF At
    <3> QED  BY <1>6, <2>2
  <2> QED  BY <2>1, <2>2
<1>12. PICK g : Solution(D, P, step, g)
  <2> HIDE DEF D, P, At, none, Turn
  <2>1. LooksBelow(D, P, m, step)
    BY <1>7, <1>11 DEF LooksBelow
  <2> QED  BY <1>1, <1>4, <1>9, <2>1, Solved
<1>13. g \in [D -> P] /\ \A i \in D : g[i] = IF i > n THEN none ELSE At(i, g)
  <2> HIDE DEF D, P, At, none
  <2>1. g \in [D -> P] /\ \A i \in D : g[i] = step[<<i, g>>]
    BY <1>12 DEF Solution
  <2> QED  BY <1>6, <2>1
<1>14. g = [i \in D |-> g[i]]
  <2> HIDE DEF P, At, none, D
  <2>1. g \in [D -> P]
    BY <1>13
  <2> QED  BY <2>1
<1>15. f = Turn(f)
  <2> HIDE DEF P, At, none, D
  <2>1. g = Turn(g)
    BY <1>13, <1>14, Zenon
  <2> HIDE DEF Turn
  <2> QED  BY <1>2, <2>1, Zenon
<1>16. /\ \A i \in D : f[i] = IF i > n THEN none ELSE At(i, f)
       /\ f = [i \in D |-> f[i]]
  <2> HIDE DEF D, At, none
  <2> QED  BY <1>15, Zenon
<1> DEFINE G == {i \in D : f[i] = g[i]}
<1>17. ASSUME NEW i \in D, \A j \in i + 1 .. n + 1 : j \in G PROVE i \in G
  <2>1. CASE i > n
    <3> HIDE DEF At, none, D, P
    <3> QED  BY <1>13, <1>16, <2>1
  <2>2. CASE ~(i > n)
    <3>1. i \in 1 .. n
      BY <1>1, <2>2
    <3>2. ASSUME NEW j \in i .. n PROVE g[j + 1] = f[j + 1]
      <4>1. j + 1 \in i + 1 .. n + 1
        BY <1>1, <3>1
      <4> QED  BY <1>17, <4>1
    <3> HIDE DEF At, none, D, P
    <3>3. At(i, g) = At(i, f)
      BY <1>10, <1>13, <3>1, <3>2
    <3>4. f[i] = At(i, f) /\ g[i] = At(i, g)
      BY <1>13, <1>16, <2>2
    <3> QED  BY <3>3, <3>4
  <2> QED  BY <2>1, <2>2
<1>18. D \subseteq G
  <2>1. n + 1 \in Nat
    BY <1>1
  <2> HIDE DEF G
  <2> QED  BY <1>17, <2>1, Backwards
<1>19. f = g
  <2>1. \A i \in D : f[i] = g[i]
    BY <1>18
  <2> HIDE DEF D
  <2> QED  BY <1>14, <1>16, <2>1, Zenon
<1>20. f \in [D -> P] /\ f[n + 1] = none
  <2>1. n + 1 \in D /\ n + 1 > n
    BY <1>1
  <2> HIDE DEF At, none, D, P
  <2> QED  BY <1>13, <1>19, <2>1
<1>21. ASSUME NEW i \in 1 .. n PROVE BestAt(r, f, i)
  <2>1. i \in D /\ ~(i > n)
    BY <1>1
  <2>2. f[i] = At(i, f)
    <3> HIDE DEF At, none, D, P
    <3> QED  BY <1>16, <2>1
  <2>3. \A j : Weigh(i, j, f) = Via(r, f, i, j)
    BY DEF Via
  <2>4. PICK e : e = first(i, f)
    OBVIOUS
  <2>5. /\ e \in Nexts(r, i)
        /\ f[i].weight = Weigh(i, e, f)
        /\ \A j \in Nexts(r, i) : Weigh(i, j, f) <= f[i].weight
        /\ f[i].words = <<SubSeq(r, i, e)>> \o f[e + 1].words
    <3> HIDE DEF At, none, D, P, Weigh, first, Turn
    <3>1. f \in [D -> P]
      BY <1>20
    <3> QED  BY <1>3, <2>2, <2>4, <3>1
  <2>6. f[i].weight = Via(r, f, i, e)
    BY <2>3, <2>5
  <2>7. \A j \in Nexts(r, i) : Via(r, f, i, j) <= f[i].weight
    BY <2>3, <2>5
  <2> QED  BY <2>5, <2>6, <2>7, Zenon DEF BestAt
<1> QED  BY <1>2, <1>20, <1>21 DEF BestTable

(* MPSegment's path cuts its runes into words, and loses none. *)
LEMMA MPCuts ==
  ASSUME NEW R, NEW r \in Seq(R)
  PROVE  CutOf(R, MPCut(r), r)
<1>1. PICK n : n = Len(r) /\ n \in Nat
  BY LenProperties
<1>2. PICK f : BestTable(R, r, f)
  BY TableFilled
<1> DEFINE G == {i \in 1 .. n + 1 : CutOf(R, f[i].words, SubSeq(r, i, n))}
<1>3. ASSUME NEW i \in 1 .. n + 1, \A j \in i + 1 .. n + 1 : j \in G PROVE i \in G
  <2>1. CASE i = n + 1
    <3>1. f[i].words = <<>>
      BY <1>1, <1>2, <2>1 DEF BestTable
    <3>2. SubSeq(r, i, n) = <<>>
      BY <1>1, <2>1, SubSeqEmpty
    <3>3. CutOf(R, <<>>, <<>>)
      BY FlatTyped, EmptySeq DEF CutOf
    <3> QED  BY <3>1, <3>2, <3>3
  <2>2. CASE i # n + 1
    <3>1. i \in 1 .. n
      BY <1>1, <2>2
    <3>2. BestAt(r, f, i)
      BY <1>1, <1>2, <3>1 DEF BestTable
    <3>3. PICK e \in Nexts(r, i) : f[i].words = <<SubSeq(r, i, e)>> \o f[e + 1].words
      BY <3>2 DEF BestAt
    <3>4. e \in i .. n
      BY <1>1, <3>1, NextsTyped
    <3>5. e + 1 \in i + 1 .. n + 1
      BY <1>1, <3>1, <3>4
    <3>6. CutOf(R, f[e + 1].words, SubSeq(r, e + 1, n))
      BY <1>3, <3>5
    <3>7. /\ SubSeq(r, i, e) \in WordsOf(R)
          /\ SubSeq(r, i, n) = SubSeq(r, i, e) \o SubSeq(r, e + 1, n)
      BY <1>1, <3>1, <3>4, CutInTwo
    <3>8. CutOf(R, <<SubSeq(r, i, e)>>, SubSeq(r, i, e))
      BY <3>7, CutWhole
    <3>9. CutOf(R, <<SubSeq(r, i, e)>> \o f[e + 1].words, SubSeq(r, i, e) \o SubSeq(r, e + 1, n))
      BY <3>6, <3>8, CutsJoin
    <3> QED  BY <3>3, <3>7, <3>9
  <2> QED  BY <2>1, <2>2
<1>4. 1 .. n + 1 \subseteq G
  <2>1. n + 1 \in Nat
    BY <1>1
  <2> HIDE DEF G
  <2> QED  BY <1>3, <2>1, Backwards
<1>5. CutOf(R, f[1].words, SubSeq(r, 1, n))
  <2>1. 1 \in 1 .. n + 1
    BY <1>1
  <2> QED  BY <1>4, <2>1
<1>6. MPCut(r) = f[1].words
  BY <1>2 DEF BestTable, MPCut
<1> QED  BY <1>1, <1>5, <1>6, SubSeqFull

-----------------------------------------------------------------------------
(* MixSegment *)

(* What MixCut takes of the words ws at k. *)
LooseWords(ws) == {w \in Range(ws) : Loose(w)}
MixEnd(ws, k) == IF ~Loose(ws[k]) THEN k ELSE LastOfRun(ws, k, LooseWords(ws))
MixWord(ws, k) == IF ~Loose(ws[k]) THEN <<ws[k]>>
                  ELSE HMMCut(FlattenSeq(SubSeq(ws, k, MixEnd(ws, k))))

(* MixSegment cuts its runes into words, and loses none. *)
LEMMA MixCuts ==
  ASSUME NEW R, NEW r \in Seq(R)
  PROVE  CutOf(R, MixCut(r), r)
<1>1. PICK ws, n : ws = MPCut(r) /\ n = Len(ws)
  OBVIOUS
<1>2. /\ ws \in Seq(WordsOf(R)) /\ ws \in Seq(Seq(R)) /\ FlattenSeq(ws) = r
      /\ n \in Nat
  <2>1. CutOf(R, ws, r)
    BY <1>1, MPCuts
  <2>2. ws \in Seq(WordsOf(R)) /\ FlattenSeq(ws) = r
    BY <2>1 DEF CutOf
  <2>3. Seq(WordsOf(R)) \subseteq Seq(Seq(R))
    BY SeqMonotonic DEF WordsOf
  <2>4. n \in Nat
    BY <1>1, <2>2, LenProperties
  <2> QED  BY <2>2, <2>3, <2>4
<1> DEFINE end == [k \in 1 .. n |-> MixEnd(ws, k)]
           word == [k \in 1 .. n |-> MixWord(ws, k)]
           At(k, g) == IF ~Loose(ws[k]) THEN <<ws[k]>> \o g[k + 1]
                       ELSE LET j == LastOfRun(ws, k, {w \in Range(ws) : Loose(w)})
                            IN HMMCut(FlattenSeq(SubSeq(ws, k, j))) \o g[j + 1]
           Turn(g) == [k \in 1 .. n + 1 |-> IF k > n THEN <<>> ELSE At(k, g)]
<1>3. PICK f : MixCut(r) = f[1] /\ f = CHOOSE g : g = Turn(g)
  BY <1>1, Zenon DEF MixCut
<1>4. ASSUME NEW k \in 1 .. n PROVE MixEnd(ws, k) \in k .. n
  <2>1. \A T : LastOfRun(ws, k, T) \in k .. n
    BY <1>1, <1>2, RunEnd
  <2>2. k \in k .. n
    BY <1>2
  <2> QED  BY <2>1, <2>2, Zenon DEF MixEnd
<1>5. ASSUME NEW k \in 1 .. n, NEW e, e = MixEnd(ws, k)
      PROVE  CutOf(R, MixWord(ws, k), FlattenSeq(SubSeq(ws, k, e)))
  <2>1. e \in k .. n
    BY <1>4, <1>5
  <2>2. SubSeq(ws, k, e) \in Seq(Seq(R))
    <3>1. SubSeq(ws, k, e) \in WordsOf(Seq(R))
      BY <1>1, <1>2, <2>1, CutInTwo
    <3> QED  BY <3>1 DEF WordsOf
  <2>3. CASE Loose(ws[k])
    <3>1. FlattenSeq(SubSeq(ws, k, e)) \in Seq(R)
      BY <2>2, FlatTyped
    <3>2. MixWord(ws, k) = HMMCut(FlattenSeq(SubSeq(ws, k, e)))
      BY <1>5, <2>3 DEF MixWord
    <3> QED  BY <3>1, <3>2, HMMCuts
  <2>4. CASE ~Loose(ws[k])
    <3>1. e = k /\ MixWord(ws, k) = <<ws[k]>>
      BY <1>5, <2>4 DEF MixWord, MixEnd
    <3>2. ws[k] \in WordsOf(R)
      BY <1>1, <1>2, ElementOfSeq
    <3>3. SubSeq(ws, k, k) = <<ws[k]>>
      <4>1. k \in 1 .. Len(ws) /\ k \in k .. Len(ws) /\ k - 1 < k /\ k \in Int /\ k - 1 \in Int
        BY <1>1, <1>2
      <4>2. SubSeq(ws, k, k) = SubSeq(ws, k, k - 1) \o <<ws[k]>>
        BY <1>2, <4>1, SubSeqRecursiveSecond
      <4>3. SubSeq(ws, k, k - 1) = <<>>
        BY <4>1, SubSeqEmpty
      <4>4. <<ws[k]>> \in Seq(WordsOf(R))
        BY <3>2
      <4> QED  BY <4>2, <4>3, <4>4, ConcatEmptySeq
    <3>4. FlattenSeq(<<ws[k]>>) = ws[k]
      BY <3>2, FlatOne DEF WordsOf
    <3> QED  BY <3>1, <3>2, <3>3, <3>4, CutWhole
  <2> QED  BY <2>3, <2>4
<1>6. \A k \in 1 .. n : end[k] = MixEnd(ws, k) /\ word[k] = MixWord(ws, k)
  OBVIOUS
<1>7. Walkable(WordsOf(R), n, word, end)
  <2>1. word \in [1 .. n -> Seq(WordsOf(R))]
    <3>1. \A k \in 1 .. n : MixWord(ws, k) \in Seq(WordsOf(R))
      BY <1>5 DEF CutOf
    <3> QED  BY <3>1
  <2>2. end \in [1 .. n -> 1 .. n] /\ \A k \in 1 .. n : k <= end[k]
    <3>1. \A k \in 1 .. n : MixEnd(ws, k) \in 1 .. n /\ k <= MixEnd(ws, k)
      BY <1>2, <1>4
    <3> QED  BY <3>1
  <2> HIDE DEF word, end
  <2> QED  BY <1>2, <2>1, <2>2 DEF Walkable
<1>8. ASSUME NEW g PROVE Turn(g) = WalkTurn(n, word, end, g)
  <2> HIDE DEF word, end
  <2>1. ASSUME NEW k \in 1 .. n + 1, ~(k > n) PROVE At(k, g) = word[k] \o g[end[k] + 1]
    <3>1. k \in 1 .. n
      BY <1>2, <2>1
    <3>2. At(k, g) = MixWord(ws, k) \o g[MixEnd(ws, k) + 1]
      BY Zenon DEF MixWord, MixEnd, LooseWords
    <3> QED  BY <1>6, <3>1, <3>2, Zenon
  <2> HIDE DEF At
  <2>2. \A k \in 1 .. n + 1 : (IF k > n THEN <<>> ELSE At(k, g))
                                = (IF k > n THEN <<>> ELSE word[k] \o g[end[k] + 1])
    BY <2>1, Zenon
  <2> QED  BY <2>2, Zenon DEF WalkTurn
<1>9. f = WalkTurn(n, word, end, f)
  <2> HIDE DEF word, end, Turn
  <2>1. PICK g : g = WalkTurn(n, word, end, g)
    BY <1>7, WalkExists
  <2>2. g = Turn(g)
    BY <1>8, <2>1, Zenon
  <2>3. f = Turn(f)
    BY <1>3, <2>2, Zenon
  <2> QED  BY <1>8, <2>3, Zenon
<1>10. Walk(WordsOf(R), n, word, end, f)
  <2> HIDE DEF word, end
  <2> QED  BY <1>7, <1>9, WalkTyped
<1>11. Walkable(Seq(R), n, word, end) /\ Walk(Seq(R), n, word, end, f)
  <2> HIDE DEF word, end
  <2>1. Seq(WordsOf(R)) \subseteq Seq(Seq(R))
    BY SeqMonotonic DEF WordsOf
  <2> QED  BY <1>7, <1>10, <2>1 DEF Walkable, Walk
<1>12. PICK rest : rest = [k \in 1 .. n + 1 |-> FlattenSeq(SubSeq(ws, k, n))]
  OBVIOUS
<1>13. Continues(n, word, end, rest)
  <2>1. rest[n + 1] = <<>>
    <3>1. n + 1 \in 1 .. n + 1 /\ n \in Int /\ n + 1 \in Int /\ n < n + 1
      BY <1>2
    <3>2. SubSeq(ws, n + 1, n) = <<>>
      BY <3>1, SubSeqEmpty
    <3> QED  BY <1>12, <3>1, <3>2, FlatTyped
  <2>2. ASSUME NEW k \in 1 .. n PROVE rest[k] = FlattenSeq(word[k]) \o rest[end[k] + 1]
    <3>1. PICK e : e = MixEnd(ws, k) /\ e \in k .. n
      BY <1>4
    <3>2. FlattenSeq(word[k]) = FlattenSeq(SubSeq(ws, k, e))
      BY <1>5, <3>1 DEF CutOf
    <3>3. PICK p, q : p = SubSeq(ws, k, e) /\ q = SubSeq(ws, e + 1, n)
      OBVIOUS
    <3>4. p \in WordsOf(Seq(R)) /\ SubSeq(ws, k, n) = p \o q
      <4>1. ws \in Seq(Seq(R)) /\ Len(ws) = n
        BY <1>1, <1>2
      <4>2. k \in 1 .. Len(ws) /\ e \in k .. Len(ws)
        BY <3>1, <4>1
      <4>3. /\ SubSeq(ws, k, e) \in WordsOf(Seq(R))
            /\ SubSeq(ws, k, Len(ws)) = SubSeq(ws, k, e) \o SubSeq(ws, e + 1, Len(ws))
        BY <4>1, <4>2, CutInTwo
      <4> QED  BY <3>3, <4>1, <4>3
    <3>5. q \in Seq(Seq(R))
      <4>1. e \in 0 .. Len(ws)
        BY <1>1, <1>2, <3>1
      <4> QED  BY <1>1, <1>2, <3>3, <4>1, CutOff
    <3>6. FlattenSeq(p \o q) = FlattenSeq(p) \o FlattenSeq(q)
      BY <3>4, <3>5, FlatJoined DEF WordsOf
    <3>7. k \in 1 .. n + 1 /\ e + 1 \in 1 .. n + 1
      BY <1>2, <3>1
    <3>8. rest[k] = FlattenSeq(p \o q) /\ rest[e + 1] = FlattenSeq(q)
      BY <1>12, <3>3, <3>4, <3>7
    <3>9. end[k] = e
      BY <1>6, <3>1
    <3> HIDE DEF word, end
    <3> QED  BY <3>2, <3>3, <3>6, <3>8, <3>9
  <2> HIDE DEF word, end
  <2> QED  BY <2>1, <2>2 DEF Continues
<1>14. FlattenSeq(f[1]) = r
  <2>1. 1 \in 1 .. n + 1
    BY <1>2
  <2>2. FlatFrom(n, f, rest)
    <3> HIDE DEF word, end
    <3> QED  BY <1>11, <1>13, WalkFlat
  <2>3. FlattenSeq(f[1]) = rest[1] /\ rest[1] = FlattenSeq(SubSeq(ws, 1, n))
    BY <1>12, <2>1, <2>2 DEF FlatFrom
  <2>4. SubSeq(ws, 1, n) = ws
    BY <1>1, <1>2, SubSeqFull
  <2> QED  BY <1>2, <2>3, <2>4
<1>15. f[1] \in Seq(WordsOf(R))
  <2>1. 1 \in 1 .. n + 1
    BY <1>2
  <2> HIDE DEF word, end
  <2> QED  BY <1>10, <2>1 DEF Walk
<1> QED  BY <1>3, <1>14, <1>15 DEF CutOf

(* What holds of the empty list and outlives a push holds of every list. *)
LEMMA Pushing ==
  ASSUME NEW A, NEW G, <<>> \in G,
         \A q \in Seq(A) : q \in G => \A x \in A : Append(q, x) \in G
  PROVE  Seq(A) \subseteq G
<1> SUFFICES ASSUME NEW q \in Seq(A) PROVE q \in G
  OBVIOUS
<1>1. PICK n : n = Len(q) /\ n \in Nat
  BY LenProperties
<1> DEFINE H == {v \in 0 .. n : SubSeq(q, 1, v) \in G}
<1>2. 0 \in H
  <2>1. SubSeq(q, 1, 0) = <<>> /\ 0 \in 0 .. n
    BY <1>1, SubSeqEmpty
  <2> QED  BY <2>1
<1>3. ASSUME NEW v \in 0 .. n - 1, v \in H PROVE v + 1 \in H
  <2>1. v \in 0 .. Len(q) - 1 /\ v + 1 \in 0 .. n
    BY <1>1
  <2>2. PICK p, x : p = SubSeq(q, 1, v) /\ x = q[v + 1]
    OBVIOUS
  <2>3. p \in Seq(A) /\ x \in A /\ SubSeq(q, 1, v + 1) = Append(p, x)
    BY <2>1, <2>2, Grown
  <2>4. p \in G
    BY <1>3, <2>2
  <2> QED  BY <2>1, <2>3, <2>4
<1>4. n \in H
  <2>1. 0 .. n \subseteq H
    <3> HIDE DEF H
    <3> QED  BY <1>1, <1>2, <1>3, Counting
  <2>2. n \in 0 .. n
    BY <1>1
  <2> QED  BY <2>1, <2>2
<1> QED  BY <1>1, <1>4, SubSeqFull

(* The images of two lists behind each other are those of each. *)
FlatMapJoins(F, p, q) == FlatMap(F, p \o q) = FlatMap(F, p) \o FlatMap(F, q)

(* They are, whatever the lists. *)
LEMMA FlatMapJoined ==
  ASSUME NEW A, NEW X, NEW F \in [A -> Seq(X)], NEW p \in Seq(A), NEW q \in Seq(A)
  PROVE  FlatMapJoins(F, p, q)
<1> DEFINE G == {s \in Seq(A) : FlatMap(F, p \o s) = FlatMap(F, p) \o FlatMap(F, s)}
<1>1. PICK a : a = FlatMap(F, p) /\ a \in Seq(X)
  BY FlatMapped
<1>2. <<>> \in G
  <2>1. p \o <<>> = p /\ a \o <<>> = a /\ <<>> \in Seq(A)
    BY <1>1, ConcatEmptySeq, EmptySeq
  <2>2. FlatMap(F, <<>>) = <<>>
    BY FlatMapped
  <2> QED  BY <1>1, <2>1, <2>2
<1>3. ASSUME NEW s \in Seq(A), s \in G, NEW x \in A PROVE Append(s, x) \in G
  <2>1. PICK t : t = p \o s /\ t \in Seq(A)
    BY ConcatProperties
  <2>2. p \o Append(s, x) = Append(t, x)
    BY <2>1
  <2>3. FlatMap(F, Append(t, x)) = FlatMap(F, t) \o F[x]
    <3>1. FlatMaps(F, t, x)
      BY <2>1, FlatMapped
    <3> QED  BY <3>1 DEF FlatMaps
  <2>4. FlatMap(F, Append(s, x)) = FlatMap(F, s) \o F[x]
    <3>1. FlatMaps(F, s, x)
      BY FlatMapped
    <3> QED  BY <3>1 DEF FlatMaps
  <2>5. PICK b, c : b = FlatMap(F, s) /\ c = F[x] /\ b \in Seq(X) /\ c \in Seq(X)
    <3>1. FlatMap(F, s) \in Seq(X) /\ F[x] \in Seq(X)
      BY FlatMapped
    <3> QED  BY <3>1
  <2>6. Grouped(a, b, c)
    BY <1>1, <2>5, Grouping
  <2>7. FlatMap(F, t) = a \o b
    BY <1>1, <1>3, <2>1, <2>5
  <2>8. FlatMap(F, p \o Append(s, x)) = a \o FlatMap(F, Append(s, x))
    BY <2>2, <2>3, <2>4, <2>5, <2>6, <2>7 DEF Grouped
  <2>9. Append(s, x) \in Seq(A)
    BY AppendProperties
  <2> QED  BY <1>1, <2>8, <2>9
<1>4. Seq(A) \subseteq G
  <2> HIDE DEF G
  <2> QED  BY <1>2, <1>3, Pushing
<1> QED  BY <1>4 DEF FlatMapJoins

(* The image of one thing. *)
LEMMA FlatMapOne ==
  ASSUME NEW A, NEW X, NEW F \in [A -> Seq(X)], NEW x \in A
  PROVE  FlatMap(F, <<x>>) = F[x]
<1>1. <<>> \in Seq(A) /\ Append(<<>>, x) = <<x>>
  BY EmptySeq, AppendedToNone
<1>2. FlatMap(F, Append(<<>>, x)) = FlatMap(F, <<>>) \o F[x] /\ FlatMap(F, <<>>) = <<>>
  <2>1. FlatMaps(F, <<>>, x) /\ FlatMap(F, <<>>) = <<>>
    BY <1>1, FlatMapped
  <2> QED  BY <2>1 DEF FlatMaps
<1>3. <<>> \o F[x] = F[x]
  BY ConcatEmptySeq
<1> QED  BY <1>1, <1>2, <1>3

-----------------------------------------------------------------------------
(* A part of a text, and the parts of a part. *)
Inside(w, t) == \E i, j \in 1 .. Len(t) : i <= j /\ w = SubSeq(t, i, j)

(* What is added behind a text leaves its parts in it. *)
LEMMA InsideFirst ==
  ASSUME NEW R, NEW t \in Seq(R), NEW x \in Seq(R), NEW w, Inside(w, t)
  PROVE  Inside(w, t \o x)
<1>1. PICK i \in 1 .. Len(t), j \in 1 .. Len(t) : i <= j /\ w = SubSeq(t, i, j)
  BY DEF Inside
<1>2. PICK n, k, s : /\ n = Len(t) /\ k = Len(x) /\ n \in Nat /\ k \in Nat
                     /\ s = t \o x /\ s \in Seq(R) /\ Len(s) = n + k
                     /\ \A m \in 1 .. n : s[m] = t[m]
  <2>1. Len(t) \in Nat /\ Len(x) \in Nat
    BY LenProperties
  <2>2. /\ t \o x \in Seq(R) /\ Len(t \o x) = Len(t) + Len(x)
        /\ \A m \in 1 .. Len(t) + Len(x) : (t \o x)[m] = IF m <= Len(t) THEN t[m] ELSE x[m - Len(t)]
    BY ConcatProperties
  <2>3. \A m \in 1 .. Len(t) : m \in 1 .. Len(t) + Len(x) /\ m <= Len(t)
    BY <2>1
  <2> QED  BY <2>1, <2>2, <2>3
<1>3. i \in 1 .. n /\ j \in i .. n /\ i \in 1 .. n + k /\ j \in i .. n + k
  BY <1>1, <1>2
<1>4. PICK u, v : u = SubSeq(t, i, j) /\ v = SubSeq(s, i, j)
  OBVIOUS
<1>5. u \in Seq(R) /\ Len(u) = j - i + 1 /\ \A m \in 1 .. j - i + 1 : u[m] = t[i + m - 1]
  BY <1>2, <1>3, <1>4, CutInTwo DEF WordsOf
<1>6. v \in Seq(R) /\ Len(v) = j - i + 1 /\ \A m \in 1 .. j - i + 1 : v[m] = s[i + m - 1]
  BY <1>2, <1>3, <1>4, CutInTwo DEF WordsOf
<1>7. \A m \in 1 .. j - i + 1 : i + m - 1 \in 1 .. n
  BY <1>2, <1>3
<1>8. u = v
  <2>1. \A m \in 1 .. Len(u) : u[m] = v[m]
    BY <1>2, <1>5, <1>6, <1>7
  <2> QED  BY <1>5, <1>6, <2>1, SeqEqual
<1>9. i \in 1 .. Len(s) /\ j \in 1 .. Len(s) /\ i <= j
  BY <1>2, <1>3
<1> QED  BY <1>1, <1>2, <1>4, <1>8, <1>9 DEF Inside

(* What is added at the end is a part, and so is the whole. *)
LEMMA InsideLast ==
  ASSUME NEW R, NEW t \in Seq(R), NEW x \in WordsOf(R)
  PROVE  Inside(x, t \o x)
<1>1. PICK n, k, s : /\ n = Len(t) /\ k = Len(x) /\ n \in Nat /\ k \in Nat \ {0}
                     /\ s = t \o x /\ s \in Seq(R) /\ Len(s) = n + k
                     /\ \A m \in n + 1 .. n + k : s[m] = x[m - n]
  <2>1. x \in Seq(R) /\ Len(x) # 0
    BY EmptySeq DEF WordsOf
  <2>2. Len(t) \in Nat /\ Len(x) \in Nat
    BY <2>1, LenProperties
  <2>3. /\ t \o x \in Seq(R) /\ Len(t \o x) = Len(t) + Len(x)
        /\ \A m \in 1 .. Len(t) + Len(x) : (t \o x)[m] = IF m <= Len(t) THEN t[m] ELSE x[m - Len(t)]
    BY <2>1, ConcatProperties
  <2>4. \A m \in Len(t) + 1 .. Len(t) + Len(x) : m \in 1 .. Len(t) + Len(x) /\ ~(m <= Len(t))
    BY <2>2
  <2> QED  BY <2>1, <2>2, <2>3, <2>4
<1>2. n + 1 \in 1 .. n + k /\ n + k \in n + 1 .. n + k
  BY <1>1
<1>3. PICK v : v = SubSeq(s, n + 1, n + k)
  OBVIOUS
<1>4. v \in Seq(R) /\ Len(v) = k /\ \A m \in 1 .. k : v[m] = s[n + m]
  <2>1. PICK i, j : i = n + 1 /\ j = n + k
    OBVIOUS
  <2>2. i \in 1 .. Len(s) /\ j \in i .. Len(s)
    BY <1>1, <1>2, <2>1
  <2>3. /\ SubSeq(s, i, j) \in WordsOf(R) /\ Len(SubSeq(s, i, j)) = j - i + 1
        /\ \A m \in 1 .. j - i + 1 : SubSeq(s, i, j)[m] = s[i + m - 1]
    <3>1. s \in Seq(R)
      BY <1>1
    <3> QED  BY <2>2, <3>1, CutInTwo
  <2>4. j - i + 1 = k /\ \A m \in Int : i + m - 1 = n + m
    BY <1>1, <2>1
  <2>5. v = SubSeq(s, i, j)
    BY <1>3, <2>1
  <2>6. \A m \in 1 .. k : v[m] = s[n + m]
    <3>1. ASSUME NEW m \in 1 .. k PROVE v[m] = s[n + m]
      <4>1. v[m] = s[i + m - 1]
        BY <2>3, <2>4, <2>5
      <4>2. i + m - 1 = n + m
        BY <1>1, <2>4
      <4> QED  BY <4>1, <4>2
    <3> QED  BY <3>1
  <2> QED  BY <2>3, <2>4, <2>5, <2>6 DEF WordsOf
<1>5. \A m \in 1 .. k : n + m \in n + 1 .. n + k /\ (n + m) - n = m
  BY <1>1
<1>6. \A m \in 1 .. Len(v) : v[m] = x[m]
  BY <1>1, <1>4, <1>5
<1>7. v = x
  <2>1. x \in Seq(R)
    BY DEF WordsOf
  <2> QED  BY <1>1, <1>4, <1>6, <2>1, SeqEqual
<1>8. n + 1 \in 1 .. Len(s) /\ n + k \in 1 .. Len(s) /\ n + 1 <= n + k
  BY <1>1
<1> QED  BY <1>1, <1>3, <1>7, <1>8 DEF Inside

(* The words that are parts of a text. *)
Parts(R, t) == {w \in WordsOf(R) : Inside(w, t)}

(* A part of a part is a part. *)
LEMMA PartOfPart ==
  ASSUME NEW R, NEW t \in Seq(R), NEW w \in Parts(R, t)
  PROVE  Parts(R, w) \subseteq Parts(R, t)
<1> SUFFICES ASSUME NEW u \in Parts(R, w) PROVE Inside(u, t)
  BY DEF Parts
<1>1. PICK i \in 1 .. Len(t), j \in 1 .. Len(t) : i <= j /\ w = SubSeq(t, i, j)
  BY DEF Parts, Inside
<1>2. PICK a \in 1 .. Len(w), b \in 1 .. Len(w) : a <= b /\ u = SubSeq(w, a, b)
  BY DEF Parts, Inside
<1>3. PICK n : n = Len(t) /\ n \in Nat
  BY LenProperties
<1>4. j \in i .. Len(t)
  BY <1>1, <1>3
<1>5. w \in Seq(R) /\ Len(w) = j - i + 1 /\ \A m \in 1 .. j - i + 1 : w[m] = t[i + m - 1]
  BY <1>1, <1>4, CutInTwo DEF WordsOf
<1>6. PICK c, d : c = i + a - 1 /\ d = i + b - 1
  OBVIOUS
<1>7. c \in 1 .. Len(t) /\ d \in c .. Len(t) /\ d \in 1 .. Len(t) /\ c <= d /\ d - c = b - a
  BY <1>1, <1>2, <1>3, <1>5, <1>6
<1>8. PICK v : v = SubSeq(t, c, d)
  OBVIOUS
<1>9. v \in Seq(R) /\ Len(v) = d - c + 1 /\ \A m \in 1 .. d - c + 1 : v[m] = t[c + m - 1]
  BY <1>7, <1>8, CutInTwo DEF WordsOf
<1>10. u \in Seq(R) /\ Len(u) = b - a + 1 /\ \A m \in 1 .. b - a + 1 : u[m] = w[a + m - 1]
  <2>1. b \in a .. Len(w)
    BY <1>2, <1>3, <1>5
  <2>2. w \in Seq(R)
    BY <1>5
  <2>3. /\ SubSeq(w, a, b) \in WordsOf(R) /\ Len(SubSeq(w, a, b)) = b - a + 1
        /\ \A m \in 1 .. b - a + 1 : SubSeq(w, a, b)[m] = w[a + m - 1]
    BY <2>1, <2>2, CutInTwo
  <2> QED  BY <1>2, <2>3 DEF WordsOf
<1>11. u = v
  <2>1. ASSUME NEW m \in 1 .. b - a + 1 PROVE u[m] = v[m]
    <3>1. a + m - 1 \in 1 .. j - i + 1 /\ i + (a + m - 1) - 1 = c + m - 1
      BY <1>1, <1>2, <1>3, <1>5, <1>6
    <3>2. u[m] = t[i + (a + m - 1) - 1]
      BY <1>5, <1>10, <3>1
    <3>3. m \in 1 .. d - c + 1
      BY <1>7
    <3> QED  BY <1>9, <3>1, <3>2, <3>3
  <2>2. Len(u) = Len(v)
    BY <1>7, <1>9, <1>10
  <2>3. \A m \in 1 .. Len(u) : u[m] = v[m]
    BY <1>10, <2>1
  <2> QED  BY <1>9, <1>10, <2>2, <2>3, SeqEqual
<1> QED  BY <1>7, <1>8, <1>11 DEF Inside

(* The words of a cut are parts of the text. *)
LEMMA CutParts ==
  ASSUME NEW R, NEW q, NEW t, CutOf(R, q, t)
  PROVE  q \in Seq(Parts(R, t))
<1> DEFINE W == WordsOf(R)
           G == {ss \in Seq(W) : FlattenSeq(ss) \in Seq(R) /\ ss \in Seq(Parts(R, FlattenSeq(ss)))}
<1>1. <<>> \in G
  BY FlatTyped, EmptySeq
<1>2. ASSUME NEW ss \in Seq(W), ss \in G, NEW x \in W PROVE Append(ss, x) \in G
  <2>1. PICK a : a = FlattenSeq(ss) /\ a \in Seq(R) /\ ss \in Seq(Parts(R, a))
    BY <1>2
  <2>2. x \in Seq(R) /\ W \subseteq Seq(R)
    BY DEF WordsOf
  <2>3. FlattenSeq(Append(ss, x)) = a \o x
    <3>1. ss \in Seq(Seq(R))
      <4> HIDE DEF W
      <4> QED  BY <2>2, Wider
    <3> QED  BY <2>1, <2>2, <3>1, FlatAppended
  <2>4. a \o x \in Seq(R)
    BY <2>1, <2>2, ConcatProperties
  <2>5. Parts(R, a) \subseteq Parts(R, a \o x)
    BY <2>1, <2>2, InsideFirst DEF Parts
  <2>6. x \in Parts(R, a \o x)
    BY <2>1, InsideLast DEF Parts
  <2>7. PICK P : P = Parts(R, a \o x) /\ ss \in Seq(P) /\ x \in P
    BY <2>1, <2>5, <2>6, Wider
  <2>8. Append(ss, x) \in Seq(P)
    BY <2>7, AppendProperties
  <2>9. Append(ss, x) \in Seq(W)
    BY AppendProperties
  <2> QED  BY <2>3, <2>4, <2>7, <2>8, <2>9
<1>3. Seq(W) \subseteq G
  <2> HIDE DEF W, G
  <2> QED  BY <1>1, <1>2, Pushing
<1>4. q \in G
  BY <1>3 DEF CutOf
<1> QED  BY <1>4 DEF CutOf

(* The short words inside a long one, and the word, are parts of it. *)
LEMMA GramParts ==
  ASSUME NEW R, NEW w \in WordsOf(R), NEW n \in Nat \ {0}
  PROVE  Grams(w, n) \in Seq(Parts(R, w))
<1>1. CASE Len(w) <= n
  BY <1>1, EmptySeq DEF Grams
<1>2. CASE ~(Len(w) <= n)
  <2>1. PICK k : k = Len(w) - n + 1 /\ k \in Nat /\ Len(w) \in Nat
    <3>1. Len(w) \in Nat
      BY LenProperties DEF WordsOf
    <3> QED  BY <1>2, <3>1
  <2> DEFINE At(i) == SubSeq(w, i, i + n - 1)
             one == [i \in 1 .. k |-> IF At(i) \in DOMAIN Dict THEN <<At(i)>> ELSE <<>>]
  <2>2. ASSUME NEW i \in 1 .. k PROVE At(i) \in Parts(R, w)
    <3>1. PICK j : j = i + n - 1
      OBVIOUS
    <3>2. i \in 1 .. Len(w) /\ j \in i .. Len(w) /\ j \in 1 .. Len(w) /\ i <= j
      BY <2>1, <3>1
    <3>3. SubSeq(w, i, j) \in WordsOf(R)
      <4>1. w \in Seq(R)
        BY DEF WordsOf
      <4> QED  BY <3>2, <4>1, CutInTwo
    <3> QED  BY <3>1, <3>2, <3>3 DEF Parts, Inside
  <2>3. \A i \in 1 .. k : (IF At(i) \in DOMAIN Dict THEN <<At(i)>> ELSE <<>>) \in Seq(Parts(R, w))
    <3>1. ASSUME NEW i \in 1 .. k
          PROVE  (IF At(i) \in DOMAIN Dict THEN <<At(i)>> ELSE <<>>) \in Seq(Parts(R, w))
      <4>1. At(i) \in Parts(R, w)
        BY <2>2
      <4> HIDE DEF At
      <4>2. <<At(i)>> \in Seq(Parts(R, w)) /\ <<>> \in Seq(Parts(R, w))
        BY <4>1, EmptySeq
      <4> QED  BY <4>2, Zenon
    <3> QED  BY <3>1
  <2>4. one \in Seq(Seq(Parts(R, w)))
    <3> HIDE DEF At
    <3>1. one \in [1 .. k -> Seq(Parts(R, w))]
      BY <2>3
    <3> HIDE DEF one
    <3> QED  BY <2>1, <3>1, SeqDef
  <2>5. Grams(w, n) = FlattenSeq(one)
    BY <1>2, <2>1 DEF Grams
  <2> HIDE DEF one
  <2> QED  BY <2>4, <2>5, FlatTyped
<1> QED  BY <1>1, <1>2

(* What QuerySegment makes of a word is parts of it. *)
LEMMA WithGramsParts ==
  ASSUME NEW R, NEW w \in WordsOf(R)
  PROVE  WithGrams(w) \in Seq(Parts(R, w))
<1>1. PICK P : P = Parts(R, w)
  OBVIOUS
<1>2. Grams(w, 2) \in Seq(P) /\ Grams(w, 3) \in Seq(P)
  BY <1>1, GramParts
<1>3. w \in P
  <2>1. w \in Seq(R) /\ w # <<>>
    BY DEF WordsOf
  <2>2. Len(w) \in Nat \ {0}
    BY <2>1, EmptySeq, LenProperties
  <2>3. 1 \in 1 .. Len(w) /\ Len(w) \in 1 .. Len(w) /\ 1 <= Len(w)
    BY <2>2
  <2>4. w = SubSeq(w, 1, Len(w))
    BY <2>1, SubSeqFull
  <2>5. Inside(w, w)
    BY <2>3, <2>4 DEF Inside
  <2> QED  BY <1>1, <2>5 DEF Parts
<1>4. <<w>> \in Seq(P)
  BY <1>3
<1> QED  BY <1>1, <1>2, <1>4, ConcatProperties DEF WithGrams

-----------------------------------------------------------------------------
(* The whole cut *)

MixCutFrom(R) == [w \in Seq(R) |-> MixCut(w)]
WithGramsFrom(P) == [w \in P |-> WithGrams(w)]

(* What each of some pieces is cut into is together a cut of them all. *)
LEMMA CutEach ==
  ASSUME NEW R, NEW ps \in Seq(Seq(R))
  PROVE  CutOf(R, FlatMap(MixCutFrom(R), ps), FlattenSeq(ps))
<1> DEFINE F == MixCutFrom(R)
           G == {ss \in Seq(Seq(R)) : CutOf(R, FlatMap(F, ss), FlattenSeq(ss))}
<1>1. F \in [Seq(R) -> Seq(WordsOf(R))] /\ \A w \in Seq(R) : F[w] = MixCut(w)
  <2>1. \A w \in Seq(R) : MixCut(w) \in Seq(WordsOf(R))
    BY MixCuts DEF CutOf
  <2> QED  BY <2>1 DEF MixCutFrom
<1>2. <<>> \in G
  <2> HIDE DEF F
  <2>1. FlatMap(F, <<>>) = <<>> /\ <<>> \in Seq(Seq(R)) /\ <<>> \in Seq(WordsOf(R))
    BY <1>1, FlatMapped, EmptySeq
  <2>2. FlattenSeq(<<>>) = <<>>
    BY FlatTyped
  <2> QED  BY <2>1, <2>2 DEF CutOf
<1>3. ASSUME NEW ss \in Seq(Seq(R)), ss \in G, NEW x \in Seq(R) PROVE Append(ss, x) \in G
  <2>1. CutOf(R, FlatMap(F, ss), FlattenSeq(ss)) /\ CutOf(R, F[x], x)
    <3>1. CutOf(R, FlatMap(F, ss), FlattenSeq(ss))
      BY <1>3
    <3>2. CutOf(R, F[x], x)
      BY <1>1, MixCuts
    <3> QED  BY <3>1, <3>2
  <2> HIDE DEF F
  <2>2. FlatMap(F, Append(ss, x)) = FlatMap(F, ss) \o F[x]
    <3>1. FlatMaps(F, ss, x)
      BY <1>1, FlatMapped
    <3> QED  BY <3>1 DEF FlatMaps
  <2>3. FlattenSeq(Append(ss, x)) = FlattenSeq(ss) \o x
    BY FlatAppended
  <2>4. CutOf(R, FlatMap(F, ss) \o F[x], FlattenSeq(ss) \o x)
    BY <2>1, CutsJoin
  <2>5. Append(ss, x) \in Seq(Seq(R))
    BY AppendProperties
  <2> QED  BY <2>2, <2>3, <2>4, <2>5
<1>4. Seq(Seq(R)) \subseteq G
  <2> HIDE DEF G
  <2> QED  BY <1>2, <1>3, Pushing
<1> QED  BY <1>4

(* What PlainCut and CutString are made of. *)
Cutting(R, text) ==
  /\ Decodes(text) => /\ PlainCut(text) = FlatMap(MixCutFrom(R), Pieces(text))
                      /\ CutOf(R, PlainCut(text), text)
  /\ ~Decodes(text) => PlainCut(text) = <<>>
  /\ PlainCut(text) \in Seq(Parts(R, text))
  /\ CutString(text) = FlatMap(WithGramsFrom(WordsOf(R)), PlainCut(text))
  /\ CutString(text) \in Seq(Parts(R, text))

(* It holds of every text. *)
LEMMA Cuts ==
  ASSUME NEW R, NEW text \in Seq(R)
  PROVE  Cutting(R, text)
<1>1. PICK ps : ps = Pieces(text) /\ CutOf(R, ps, text)
  BY PiecesWalk
<1>2. PICK F : F = MixCutFrom(R)
  OBVIOUS
<1>3. PICK P : P = Parts(R, text)
  OBVIOUS
<1>4. ps \in Seq(Seq(R)) /\ FlattenSeq(ps) = text
  <2>1. Seq(WordsOf(R)) \subseteq Seq(Seq(R))
    BY SeqMonotonic DEF WordsOf
  <2> QED  BY <1>1, <2>1 DEF CutOf
<1>5. Decodes(text) => PlainCut(text) = FlatMap(F, ps) /\ CutOf(R, PlainCut(text), text)
  <2> SUFFICES ASSUME Decodes(text)
               PROVE  PlainCut(text) = FlatMap(F, ps) /\ CutOf(R, PlainCut(text), text)
    OBVIOUS
  <2>1. PlainCut(text) = FlattenSeq([k \in DOMAIN ps |-> MixCut(ps[k])])
    BY <1>1 DEF PlainCut
  <2>2. \A k \in DOMAIN ps : F[ps[k]] = MixCut(ps[k])
    <3>1. \A k \in DOMAIN ps : ps[k] \in Seq(R)
      BY <1>4, LenProperties, ElementOfSeq
    <3> QED  BY <1>2, <3>1 DEF MixCutFrom
  <2>3. [k \in DOMAIN ps |-> MixCut(ps[k])] = Mapped(F, ps)
    BY <2>2 DEF Mapped
  <2>4. PlainCut(text) = FlatMap(F, ps)
    BY <2>1, <2>3, Zenon DEF FlatMap
  <2>5. CutOf(R, FlatMap(F, ps), text)
    BY <1>2, <1>4, CutEach
  <2> QED  BY <2>4, <2>5
<1>6. ~Decodes(text) => PlainCut(text) = <<>>
  BY DEF PlainCut
<1>7. PlainCut(text) \in Seq(P)
  <2>1. CASE Decodes(text)
    BY <1>3, <1>5, <2>1, CutParts
  <2>2. CASE ~Decodes(text)
    BY <1>6, <2>2, EmptySeq
  <2> QED  BY <2>1, <2>2
<1>8. PICK ws, H, T : ws = PlainCut(text) /\ H = WithGramsFrom(WordsOf(R)) /\ T = WithGramsFrom(P)
  OBVIOUS
<1>9. ws \in Seq(P) /\ P \subseteq WordsOf(R) /\ \A k \in DOMAIN ws : ws[k] \in P
  <2>1. ws \in Seq(P)
    BY <1>7, <1>8
  <2>2. \A k \in DOMAIN ws : ws[k] \in P
    BY <2>1, LenProperties, ElementOfSeq
  <2> QED  BY <1>3, <2>1, <2>2 DEF Parts
<1>10. [k \in DOMAIN ws |-> WithGrams(ws[k])] = Mapped(T, ws)
       /\ Mapped(H, ws) = Mapped(T, ws)
  <2>1. \A k \in DOMAIN ws : H[ws[k]] = WithGrams(ws[k]) /\ T[ws[k]] = WithGrams(ws[k])
    BY <1>8, <1>9 DEF WithGramsFrom
  <2> QED  BY <2>1 DEF Mapped
<1>11. CutString(text) = FlatMap(H, ws) /\ FlatMap(H, ws) = FlatMap(T, ws)
  <2>1. CutString(text) = FlattenSeq([k \in DOMAIN ws |-> WithGrams(ws[k])])
    BY <1>8 DEF CutString
  <2> QED  BY <1>10, <2>1, Zenon DEF FlatMap
<1>12. T \in [P -> Seq(P)]
  <2>1. \A w \in P : WithGrams(w) \in Seq(P)
    <3>1. ASSUME NEW w \in P PROVE WithGrams(w) \in Seq(P)
      <4>1. WithGrams(w) \in Seq(Parts(R, w))
        BY <1>9, WithGramsParts
      <4>2. Parts(R, w) \subseteq P
        BY <1>3, PartOfPart
      <4> QED  BY <4>1, <4>2, Wider
    <3> QED  BY <3>1
  <2> QED  BY <1>8, <2>1 DEF WithGramsFrom
<1>13. FlatMap(T, ws) \in Seq(P)
  BY <1>9, <1>12, FlatMapped
<1> QED  BY <1>1, <1>2, <1>3, <1>5, <1>6, <1>7, <1>8, <1>11, <1>13 DEF Cutting

(* Each rune of a text is in one word, in its place, and every word that is *)
(* indexed or searched for is a piece of it (PreFilter::Next and the three  *)
(* Cut).                                                                    *)
LEMMA TextKept ==
  ASSUME NEW R, NEW text \in Seq(R)
  PROVE  CutCovers(text) /\ WordsInText(text)
<1>1. Cutting(R, text)
  BY Cuts
<1>2. CutCovers(text)
  BY <1>1 DEF Cutting, CutOf, CutCovers
<1>3. WordsInText(text)
  <2>1. PICK q, P : q = CutString(text) /\ P = Parts(R, text) /\ q \in Seq(P)
    BY <1>1 DEF Cutting
  <2>2. ASSUME NEW w \in Range(q) PROVE w \in P
    <3>1. PICK k \in DOMAIN q : w = q[k]
      BY DEF Range
    <3> QED  BY <2>1, <3>1, LenProperties, ElementOfSeq
  <2>3. \A w \in Range(q) : Inside(w, text)
    BY <2>1, <2>2 DEF Parts
  <2> QED  BY <2>1, <2>3 DEF WordsInText, Inside
<1> QED  BY <1>2, <1>3

-----------------------------------------------------------------------------
(* Both sides of a separator *)

(* Where the piece that starts at p ends. *)
EndsAt(text, p, e) ==
  /\ e \in p .. Len(text)
  /\ IF text[p] \in Separators THEN e = p
     ELSE /\ \A k \in p + 1 .. e : text[k] \notin Separators
          /\ e = Len(text) \/ text[e + 1] \in Separators

(* PieceEnd finds this place, and there is no other. *)
LEMMA PieceEndIs ==
  ASSUME NEW R, NEW text \in Seq(R), NEW p \in 1 .. Len(text)
  PROVE  /\ EndsAt(text, p, PieceEnd(text, p))
         /\ \A e : EndsAt(text, p, e) => e = PieceEnd(text, p)
<1>1. PICK n : n = Len(text) /\ n \in Nat /\ DOMAIN text = 1 .. n
  BY LenProperties
<1>2. EndsAt(text, p, PieceEnd(text, p))
  <2>1. CASE text[p] \in Separators
    <3>1. p \in p .. Len(text)
      BY <1>1
    <3> QED  BY <2>1, <3>1 DEF EndsAt, PieceEnd
  <2>2. CASE text[p] \notin Separators
    <3>1. PICK T, e : T = Range(text) \ Separators /\ e = LastOfRun(text, p, T)
      OBVIOUS
    <3>2. /\ e \in p .. Len(text) /\ \A k \in p + 1 .. e : text[k] \in T
          /\ e = Len(text) \/ text[e + 1] \notin T
      BY <3>1, RunEnd
    <3>3. PieceEnd(text, p) = e
      BY <2>2, <3>1 DEF PieceEnd
    <3>4. e # Len(text) => text[e + 1] \in Range(text)
      <4>1. e # Len(text) => e + 1 \in 1 .. n
        BY <1>1, <3>2
      <4> QED  BY <1>1, <4>1 DEF Range
    <3>5. e = Len(text) \/ text[e + 1] \in Separators
      BY <3>1, <3>2, <3>4
    <3>6. \A k \in p + 1 .. e : text[k] \notin Separators
      BY <3>1, <3>2
    <3> QED  BY <2>2, <3>2, <3>3, <3>5, <3>6 DEF EndsAt
  <2> QED  BY <2>1, <2>2
<1>3. ASSUME NEW e, EndsAt(text, p, e), NEW d, EndsAt(text, p, d) PROVE ~(e < d)
  <2>1. e \in p .. n /\ d \in p .. n
    BY <1>1, <1>3 DEF EndsAt
  <2>2. CASE text[p] \in Separators
    <3>1. e = p /\ d = p
      BY <1>3, <2>2 DEF EndsAt
    <3> QED  BY <2>1, <3>1
  <2>3. CASE text[p] \notin Separators
    <3>1. e = n \/ text[e + 1] \in Separators
      BY <1>1, <1>3, <2>3 DEF EndsAt
    <3>2. \A k \in p + 1 .. d : text[k] \notin Separators
      BY <1>3, <2>3 DEF EndsAt
    <3>3. e < d => e + 1 \in p + 1 .. d /\ e # n
      BY <2>1
    <3> QED  BY <3>1, <3>2, <3>3
  <2> QED  BY <2>2, <2>3
<1>4. ASSUME NEW e, EndsAt(text, p, e) PROVE e = PieceEnd(text, p)
  <2>1. PICK d : d = PieceEnd(text, p) /\ EndsAt(text, p, d)
    BY <1>2
  <2>2. ~(e < d) /\ ~(d < e)
    BY <1>3, <1>4, <2>1
  <2>3. e \in Int /\ d \in Int
    BY <1>1, <1>4, <2>1 DEF EndsAt
  <2> QED  BY <2>1, <2>2, <2>3
<1> QED  BY <1>2, <1>4

(* text has the separator c between left and right. *)
Around(R, text, left, c, right) ==
  /\ text \in Seq(R) /\ left \in Seq(R) /\ right \in Seq(R) /\ c \in R \cap Separators
  /\ text = left \o <<c>> \o right
  /\ Len(text) = Len(left) + 1 + Len(right)
  /\ \A p \in 1 .. Len(left) : text[p] = left[p]
  /\ text[Len(left) + 1] = c
  /\ \A p \in 1 .. Len(right) : text[Len(left) + 1 + p] = right[p]

(* Every separator has a left and a right side. *)
LEMMA SplitAround ==
  ASSUME NEW R, NEW text \in Seq(R), NEW i \in 1 .. Len(text), text[i] \in Separators
  PROVE  Around(R, text, SubSeq(text, 1, i - 1), text[i], SubSeq(text, i + 1, Len(text)))
<1>1. PICK n : n = Len(text) /\ n \in Nat /\ i \in 1 .. n
  BY LenProperties
<1>2. PICK left, c, right, m : /\ left = SubSeq(text, 1, i - 1) /\ c = text[i]
                               /\ right = SubSeq(text, i + 1, n) /\ m = SubSeq(text, 1, i)
  OBVIOUS
<1>3. c \in R \cap Separators
  BY <1>2, ElementOfSeq
<1>4. left \in Seq(R) /\ Len(left) = i - 1 /\ m = Append(left, c)
  <2>1. i - 1 \in 0 .. Len(text) - 1 /\ i - 1 \in 0 .. Len(text) /\ (i - 1) + 1 = i
    BY <1>1
  <2>2. SubSeq(text, 1, i - 1) \in Seq(R) /\ SubSeq(text, 1, (i - 1) + 1)
           = Append(SubSeq(text, 1, i - 1), text[(i - 1) + 1])
    BY <2>1, Grown
  <2>3. Len(SubSeq(text, 1, i - 1)) = i - 1
    BY <2>1, CutOff
  <2> QED  BY <1>2, <2>1, <2>2, <2>3
<1>5. right \in Seq(R) /\ Len(right) = n - i
  <2>1. i \in 0 .. Len(text)
    BY <1>1
  <2> QED  BY <1>1, <1>2, <2>1, CutOff
<1>6. text = m \o right
  <2>1. 1 \in 1 .. Len(text) /\ i \in 1 .. Len(text)
    BY <1>1
  <2>2. SubSeq(text, 1, Len(text)) = SubSeq(text, 1, i) \o SubSeq(text, i + 1, Len(text))
    BY <2>1, CutInTwo
  <2> QED  BY <1>1, <1>2, <2>2, SubSeqFull
<1>7. text = left \o <<c>> \o right
  <2>1. Append(left, c) = left \o <<c>>
    BY <1>3, <1>4, AppendIsConcat
  <2> QED  BY <1>4, <1>6, <2>1
<1>8. \A p \in 1 .. Len(left) : text[p] = left[p]
  <2>1. ASSUME NEW p \in 1 .. Len(left) PROVE text[p] = left[p]
    <3>1. p \in 1 .. i - 1
      BY <1>4
    <3> QED  BY <1>1, <1>2, <3>1
  <2> QED  BY <2>1
<1>9. \A p \in 1 .. Len(right) : text[i + p] = right[p]
  <2>1. ASSUME NEW p \in 1 .. Len(right) PROVE text[i + p] = right[p]
    <3>1. p \in 1 .. n - i
      BY <1>5
    <3> QED  BY <1>1, <1>2, <3>1
  <2> QED  BY <2>1
<1>10. Len(left) + 1 = i /\ Len(text) = Len(left) + 1 + Len(right)
  BY <1>1, <1>4, <1>5
<1>11. text[Len(left) + 1] = c /\ \A p \in 1 .. Len(right) : text[Len(left) + 1 + p] = right[p]
  BY <1>2, <1>9, <1>10
<1> QED  BY <1>1, <1>2, <1>3, <1>4, <1>5, <1>7, <1>8, <1>10, <1>11 DEF Around

(* A piece on one side ends where it would if the other were not there.    *)
LEMMA EndsAround ==
  ASSUME NEW R, NEW text, NEW left, NEW c, NEW right, Around(R, text, left, c, right),
         NEW i, i = Len(left) + 1
  PROVE  /\ i \in 1 .. Len(text) /\ Len(left) \in Nat /\ Len(right) \in Nat
         /\ Len(text) = i + Len(right)
         /\ \A p \in 1 .. Len(left) : PieceEnd(text, p) = PieceEnd(left, p)
         /\ PieceEnd(text, i) = i
         /\ \A p \in 1 .. Len(right) : PieceEnd(text, i + p) = i + PieceEnd(right, p)
<1>1. /\ text \in Seq(R) /\ left \in Seq(R) /\ right \in Seq(R)
      /\ \A p \in 1 .. Len(left) : text[p] = left[p]
      /\ text[i] = c /\ c \in Separators
      /\ \A p \in 1 .. Len(right) : text[i + p] = right[p]
  BY DEF Around
<1>2. PICK n, l, r : /\ n = Len(text) /\ l = Len(left) /\ r = Len(right)
                     /\ n \in Nat /\ l \in Nat /\ r \in Nat /\ n = i + r /\ i = l + 1
  <2>1. Len(text) \in Nat /\ Len(left) \in Nat /\ Len(right) \in Nat
    BY <1>1, LenProperties
  <2>2. Len(text) = i + Len(right)
    BY DEF Around
  <2> QED  BY <2>1, <2>2
<1>3. ASSUME NEW p \in 1 .. l PROVE PieceEnd(text, p) = PieceEnd(left, p)
  <2>1. PICK e : e = PieceEnd(left, p) /\ EndsAt(left, p, e)
    BY <1>1, <1>2, PieceEndIs
  <2>2. e \in p .. l
    BY <1>2, <2>1 DEF EndsAt
  <2>3. p \in 1 .. Len(text) /\ e \in p .. Len(text)
    BY <1>2, <2>2
  <2>4. EndsAt(text, p, e)
    <3>1. CASE left[p] \in Separators
      <4>1. e = p
        BY <2>1, <3>1 DEF EndsAt
      <4>2. text[p] \in Separators
        BY <1>1, <1>2, <3>1
      <4> QED  BY <2>3, <4>1, <4>2 DEF EndsAt
    <3>2. CASE left[p] \notin Separators
      <4>1. /\ \A k \in p + 1 .. e : left[k] \notin Separators
            /\ e = l \/ left[e + 1] \in Separators
        BY <1>2, <2>1, <3>2 DEF EndsAt
      <4>2. text[p] \notin Separators
        BY <1>1, <1>2, <3>2
      <4>3. \A k \in p + 1 .. e : k \in 1 .. l
        BY <1>2, <2>2
      <4>4. \A k \in p + 1 .. e : text[k] \notin Separators
        BY <1>1, <1>2, <4>1, <4>3
      <4>5. CASE e = l
        BY <1>1, <1>2, <2>3, <4>2, <4>4, <4>5 DEF EndsAt
      <4>6. CASE e # l
        <5>1. e + 1 \in 1 .. l
          BY <1>2, <2>2, <4>6
        <5>2. text[e + 1] \in Separators
          BY <1>1, <1>2, <4>1, <4>6, <5>1
        <5> QED  BY <2>3, <4>2, <4>4, <5>2 DEF EndsAt
      <4> QED  BY <4>5, <4>6
    <3> QED  BY <3>1, <3>2
  <2> QED  BY <1>1, <2>1, <2>3, <2>4, PieceEndIs
<1>4. PieceEnd(text, i) = i
  BY <1>1 DEF PieceEnd
<1>5. ASSUME NEW p \in 1 .. r PROVE PieceEnd(text, i + p) = i + PieceEnd(right, p)
  <2>1. PICK e : e = PieceEnd(right, p) /\ EndsAt(right, p, e)
    BY <1>1, <1>2, PieceEndIs
  <2>2. e \in p .. r
    BY <1>2, <2>1 DEF EndsAt
  <2>3. PICK s, d : s = i + p /\ d = i + e
    OBVIOUS
  <2>4. s \in 1 .. Len(text) /\ d \in s .. Len(text)
    BY <1>2, <2>2, <2>3
  <2>5. EndsAt(text, s, d)
    <3>1. CASE right[p] \in Separators
      <4>1. d = s
        BY <2>1, <2>3, <3>1 DEF EndsAt
      <4>2. text[s] \in Separators
        BY <1>1, <1>2, <2>3, <3>1
      <4> QED  BY <2>4, <4>1, <4>2 DEF EndsAt
    <3>2. CASE right[p] \notin Separators
      <4>1. /\ \A k \in p + 1 .. e : right[k] \notin Separators
            /\ e = r \/ right[e + 1] \in Separators
        BY <1>2, <2>1, <3>2 DEF EndsAt
      <4>2. text[s] \notin Separators
        BY <1>1, <1>2, <2>3, <3>2
      <4>3. \A k \in s + 1 .. d : k - i \in p + 1 .. e /\ k - i \in 1 .. r /\ k = i + (k - i)
        BY <1>2, <2>2, <2>3
      <4>4. \A k \in s + 1 .. d : text[k] \notin Separators
        <5>1. ASSUME NEW k \in s + 1 .. d PROVE text[k] \notin Separators
          <6>1. PICK m : m \in p + 1 .. e /\ m \in 1 .. Len(right) /\ k = i + m
            BY <1>2, <4>3
          <6> QED  BY <1>1, <4>1, <6>1
        <5> QED  BY <5>1
      <4>5. CASE e = r
        <5>1. d = Len(text)
          BY <1>2, <2>3, <4>5
        <5> QED  BY <2>4, <4>2, <4>4, <5>1 DEF EndsAt
      <4>6. CASE e # r
        <5>1. e + 1 \in 1 .. r /\ d + 1 = i + (e + 1)
          BY <1>2, <2>2, <2>3, <4>6
        <5>2. text[d + 1] \in Separators
          BY <1>1, <1>2, <4>1, <4>6, <5>1
        <5> QED  BY <2>4, <4>2, <4>4, <5>2 DEF EndsAt
      <4> QED  BY <4>5, <4>6
    <3> QED  BY <3>1, <3>2
  <2> QED  BY <1>1, <2>1, <2>3, <2>4, <2>5, PieceEndIs
<1>6. i \in 1 .. n
  BY <1>2
<1> QED  BY <1>2, <1>3, <1>4, <1>5, <1>6

(* The same part of two texts that agree there. *)
LEMMA SamePart ==
  ASSUME NEW R, NEW r \in Seq(R), NEW s \in Seq(R),
         NEW p \in 1 .. Len(r), NEW e \in p .. Len(r),
         NEW d \in Nat, d + e <= Len(s), \A k \in p .. e : s[d + k] = r[k]
  PROVE  SubSeq(s, d + p, d + e) = SubSeq(r, p, e)
<1>1. Len(r) \in Nat /\ Len(s) \in Nat
  BY LenProperties
<1>2. PICK a, b : a = d + p /\ b = d + e
  OBVIOUS
<1>3. a \in 1 .. Len(s) /\ b \in a .. Len(s) /\ b - a = e - p
  BY <1>1, <1>2
<1>4. PICK u, v : u = SubSeq(r, p, e) /\ v = SubSeq(s, a, b)
  OBVIOUS
<1>5. u \in Seq(R) /\ Len(u) = e - p + 1 /\ \A k \in 1 .. e - p + 1 : u[k] = r[p + k - 1]
  BY <1>4, CutInTwo DEF WordsOf
<1>6. v \in Seq(R) /\ Len(v) = b - a + 1 /\ \A k \in 1 .. b - a + 1 : v[k] = s[a + k - 1]
  BY <1>3, <1>4, CutInTwo DEF WordsOf
<1>7. ASSUME NEW k \in 1 .. e - p + 1 PROVE v[k] = u[k]
  <2>1. p + k - 1 \in p .. e /\ a + k - 1 = d + (p + k - 1) /\ k \in 1 .. b - a + 1
    BY <1>1, <1>2, <1>3
  <2>2. s[d + (p + k - 1)] = r[p + k - 1]
    BY <2>1
  <2> QED  BY <1>5, <1>6, <2>1, <2>2
<1>8. u = v
  <2>1. Len(u) = Len(v)
    BY <1>3, <1>5, <1>6
  <2>2. \A k \in 1 .. Len(u) : u[k] = v[k]
    BY <1>5, <1>7
  <2> QED  BY <1>5, <1>6, <2>1, <2>2, SeqEqual
<1> QED  BY <1>2, <1>4, <1>8

(* The pieces of a text around a separator. *)
PiecesSplit(text, left, c, right) ==
  Pieces(text) = Pieces(left) \o (<<<<c>>>> \o Pieces(right))

(* PreFilter makes them so. *)
LEMMA PiecesAround ==
  ASSUME NEW R, NEW text, NEW left, NEW c, NEW right, Around(R, text, left, c, right)
  PROVE  PiecesSplit(text, left, c, right)
<1>1. /\ text \in Seq(R) /\ left \in Seq(R) /\ right \in Seq(R)
      /\ \A p \in 1 .. Len(left) : text[p] = left[p]
      /\ text[Len(left) + 1] = c /\ c \in R
      /\ \A p \in 1 .. Len(right) : text[Len(left) + 1 + p] = right[p]
  BY DEF Around
<1>2. PICK n, l, r, i : /\ n = Len(text) /\ l = Len(left) /\ r = Len(right) /\ i = Len(left) + 1
                        /\ n \in Nat /\ l \in Nat /\ r \in Nat /\ n = i + r /\ i = l + 1
  <2>1. Len(text) \in Nat /\ Len(left) \in Nat /\ Len(right) \in Nat
    BY <1>1, LenProperties
  <2>2. Len(text) = Len(left) + 1 + Len(right)
    BY DEF Around
  <2> QED  BY <2>1, <2>2
<1>3. /\ \A p \in 1 .. l : PieceEnd(text, p) = PieceEnd(left, p)
      /\ PieceEnd(text, i) = i
      /\ \A p \in 1 .. r : PieceEnd(text, i + p) = i + PieceEnd(right, p)
  BY <1>2, EndsAround
<1> DEFINE W == WordsOf(R)
<1>4. PICK f : Pieces(text) = f[1] /\ Walk(W, n, PieceWords(text), PieceEnds(text), f)
  BY <1>1, <1>2, PiecesWalk
<1>5. PICK fl : Pieces(left) = fl[1] /\ Walk(W, l, PieceWords(left), PieceEnds(left), fl)
  BY <1>1, <1>2, PiecesWalk
<1>6. PICK fr : Pieces(right) = fr[1] /\ Walk(W, r, PieceWords(right), PieceEnds(right), fr)
  BY <1>1, <1>2, PiecesWalk
<1>7. /\ f \in [1 .. n + 1 -> Seq(W)] /\ f[n + 1] = <<>>
      /\ \A p \in 1 .. n : f[p] = <<SubSeq(text, p, PieceEnd(text, p))>> \o f[PieceEnd(text, p) + 1]
  BY <1>2, <1>4 DEF Walk, PieceWords, PieceEnds
<1>8. /\ fl \in [1 .. l + 1 -> Seq(W)] /\ fl[l + 1] = <<>>
      /\ \A p \in 1 .. l : fl[p] = <<SubSeq(left, p, PieceEnd(left, p))>> \o fl[PieceEnd(left, p) + 1]
  BY <1>2, <1>5 DEF Walk, PieceWords, PieceEnds
<1>9. /\ fr \in [1 .. r + 1 -> Seq(W)] /\ fr[r + 1] = <<>>
      /\ \A p \in 1 .. r : fr[p] = <<SubSeq(right, p, PieceEnd(right, p))>> \o fr[PieceEnd(right, p) + 1]
  BY <1>2, <1>6 DEF Walk, PieceWords, PieceEnds
<1>10. /\ \A p \in 1 .. l : PieceEnd(left, p) \in p .. l
       /\ \A p \in 1 .. r : PieceEnd(right, p) \in p .. r
  BY <1>1, <1>2, PieceEndIs DEF EndsAt
<1> HIDE DEF W
<1> DEFINE G == {p \in 1 .. r + 1 : f[i + p] = fr[p]}
<1>11. ASSUME NEW p \in 1 .. r + 1, \A k \in p + 1 .. r + 1 : k \in G PROVE p \in G
  <2>1. CASE p = r + 1
    <3>1. i + p = n + 1
      BY <1>2, <2>1
    <3> QED  BY <1>7, <1>9, <2>1, <3>1
  <2>2. CASE p # r + 1
    <3>1. p \in 1 .. r /\ i + p \in 1 .. n
      BY <1>2, <2>2
    <3>2. PICK e : e = PieceEnd(right, p) /\ e \in p .. r
      BY <1>10, <3>1
    <3>3. e + 1 \in p + 1 .. r + 1 /\ (i + e) + 1 = i + (e + 1)
      BY <1>2, <3>1, <3>2
    <3>4. f[i + (e + 1)] = fr[e + 1]
      BY <1>11, <3>3
    <3>5. SubSeq(text, i + p, i + e) = SubSeq(right, p, e)
      <4>1. p \in 1 .. Len(right) /\ e \in p .. Len(right) /\ i \in Nat /\ i + e <= Len(text)
        BY <1>2, <3>1, <3>2
      <4>2. \A k \in p .. e : text[i + k] = right[k]
        <5>1. \A k \in p .. e : k \in 1 .. Len(right)
          BY <1>2, <4>1
        <5> QED  BY <1>1, <1>2, <5>1
      <4> QED  BY <1>1, <4>1, <4>2, SamePart
    <3>6. PieceEnd(text, i + p) = i + e
      BY <1>3, <3>1, <3>2
    <3>7. f[i + p] = <<SubSeq(text, i + p, i + e)>> \o f[(i + e) + 1]
      BY <1>7, <3>1, <3>6
    <3>8. fr[p] = <<SubSeq(right, p, e)>> \o fr[e + 1]
      BY <1>9, <3>1, <3>2
    <3>9. f[i + p] = fr[p]
      BY <3>3, <3>4, <3>5, <3>7, <3>8, Zenon
    <3> QED  BY <3>9
  <2> QED  BY <2>1, <2>2
<1>12. f[i + 1] = fr[1]
  <2>1. r + 1 \in Nat /\ 1 \in 1 .. r + 1
    BY <1>2
  <2>2. 1 .. r + 1 \subseteq G
    <3> HIDE DEF G
    <3> QED  BY <1>11, <2>1, Backwards
  <2> QED  BY <2>1, <2>2
<1>13. f[i] = <<<<c>>>> \o fr[1]
  <2>1. i \in 1 .. n
    BY <1>2
  <2>2. f[i] = <<SubSeq(text, i, i)>> \o f[i + 1]
    BY <1>3, <1>7, <2>1
  <2>3. SubSeq(text, i, i) = <<c>>
    <3>1. i \in 1 .. Len(text) /\ i \in i .. Len(text)
      BY <1>2
    <3>2. PICK u : u = SubSeq(text, i, i)
      OBVIOUS
    <3>3. u \in Seq(R) /\ Len(u) = i - i + 1 /\ \A k \in 1 .. i - i + 1 : u[k] = text[i + k - 1]
      BY <1>1, <3>1, <3>2, CutInTwo DEF WordsOf
    <3>4. i - i + 1 = 1 /\ i + 1 - 1 = i /\ 1 \in 1 .. 1
      BY <1>2
    <3>5. u \in Seq(R) /\ Len(u) = 1 /\ u[1] = c
      BY <1>1, <1>2, <3>3, <3>4
    <3>6. <<c>> \in Seq(R) /\ Len(<<c>>) = 1 /\ <<c>>[1] = c
      BY <1>1
    <3>7. u = <<c>>
      <4>1. \A k \in 1 .. 1 : k = 1
        OBVIOUS
      <4> QED  BY <3>5, <3>6, <4>1, SeqEqual
    <3> QED  BY <3>2, <3>7
  <2> QED  BY <1>12, <2>2, <2>3
<1> DEFINE H == {p \in 1 .. l + 1 : f[p] = fl[p] \o f[i]}
<1>14. ASSUME NEW p \in 1 .. l + 1, \A k \in p + 1 .. l + 1 : k \in H PROVE p \in H
  <2>1. f[i] \in Seq(W)
    <3>1. i \in 1 .. n + 1
      BY <1>2
    <3> QED  BY <1>7, <3>1
  <2>2. CASE p = l + 1
    BY <1>2, <1>8, <2>1, <2>2, ConcatEmptySeq
  <2>3. CASE p # l + 1
    <3>1. p \in 1 .. l /\ p \in 1 .. n
      BY <1>2, <2>3
    <3>2. PICK e : e = PieceEnd(left, p) /\ e \in p .. l
      BY <1>10, <3>1
    <3>3. e + 1 \in p + 1 .. l + 1 /\ e + 1 \in 1 .. l + 1
      BY <1>2, <3>1, <3>2
    <3>4. f[e + 1] = fl[e + 1] \o f[i]
      BY <1>14, <3>3
    <3>5. SubSeq(text, p, e) = SubSeq(left, p, e)
      <4>1. p \in 1 .. Len(left) /\ e \in p .. Len(left) /\ 0 \in Nat /\ 0 + e <= Len(text)
            /\ 0 + p = p /\ 0 + e = e
        BY <1>2, <3>1, <3>2
      <4>2. \A k \in p .. e : text[0 + k] = left[k]
        <5>1. \A k \in p .. e : k \in 1 .. Len(left) /\ 0 + k = k
          BY <1>2, <4>1
        <5> QED  BY <1>1, <1>2, <5>1
      <4>3. SubSeq(text, 0 + p, 0 + e) = SubSeq(left, p, e)
        BY <1>1, <4>1, <4>2, SamePart
      <4> QED  BY <4>1, <4>3
    <3>6. PICK w, rest : w = <<SubSeq(left, p, e)>> /\ rest = fl[e + 1]
      OBVIOUS
    <3>7. w \in Seq(W) /\ rest \in Seq(W)
      <4>1. SubSeq(left, p, e) \in W
        <5>1. p \in 1 .. Len(left) /\ e \in p .. Len(left)
          BY <1>2, <3>1, <3>2
        <5> QED  BY <1>1, <5>1, CutInTwo DEF W
      <4> QED  BY <1>8, <3>3, <3>6, <4>1
    <3>8. f[p] = w \o f[e + 1]
      BY <1>3, <1>7, <3>1, <3>2, <3>5, <3>6
    <3>9. fl[p] = w \o rest
      BY <1>8, <3>1, <3>2, <3>6
    <3>10. Grouped(w, rest, f[i])
      BY <2>1, <3>7, Grouping
    <3>11. f[p] = fl[p] \o f[i]
      BY <3>4, <3>6, <3>8, <3>9, <3>10, Zenon DEF Grouped
    <3> QED  BY <3>11
  <2> QED  BY <2>2, <2>3
<1>15. f[1] = fl[1] \o f[i]
  <2>1. l + 1 \in Nat /\ 1 \in 1 .. l + 1
    BY <1>2
  <2>2. 1 .. l + 1 \subseteq H
    <3> HIDE DEF H
    <3> QED  BY <1>14, <2>1, Backwards
  <2> QED  BY <2>1, <2>2
<1> QED  BY <1>4, <1>5, <1>6, <1>13, <1>15 DEF PiecesSplit

(* A cut has no more words than the text has runes. *)
LEMMA CutLength ==
  ASSUME NEW R, NEW q, NEW t, CutOf(R, q, t)
  PROVE  t \in Seq(R) /\ Len(q) \in 0 .. Len(t) /\ (t # <<>> => q # <<>>)
<1> DEFINE W == WordsOf(R)
           G == {ss \in Seq(W) : FlattenSeq(ss) \in Seq(R) /\ Len(ss) <= Len(FlattenSeq(ss))}
<1>1. <<>> \in G
  <2>1. FlattenSeq(<<>>) = <<>>
    BY FlatTyped
  <2>2. <<>> \in Seq(R) /\ <<>> \in Seq(W) /\ Len(<<>>) <= Len(<<>>)
    BY EmptySeq
  <2> QED  BY <2>1, <2>2
<1>2. ASSUME NEW ss \in Seq(W), ss \in G, NEW x \in W PROVE Append(ss, x) \in G
  <2>1. PICK a : a = FlattenSeq(ss) /\ a \in Seq(R) /\ Len(ss) <= Len(a)
    BY <1>2
  <2>2. x \in Seq(R) /\ W \subseteq Seq(R) /\ Len(x) \in Nat \ {0}
    <3>1. x \in Seq(R) /\ W \subseteq Seq(R) /\ x # <<>>
      BY DEF WordsOf
    <3> QED  BY <3>1, EmptySeq, LenProperties
  <2>3. FlattenSeq(Append(ss, x)) = a \o x
    <3>1. ss \in Seq(Seq(R))
      <4> HIDE DEF W
      <4> QED  BY <2>2, Wider
    <3> QED  BY <2>1, <2>2, <3>1, FlatAppended
  <2>4. a \o x \in Seq(R) /\ Len(a \o x) = Len(a) + Len(x)
    BY <2>1, <2>2, ConcatProperties
  <2>5. Append(ss, x) \in Seq(W) /\ Len(Append(ss, x)) = Len(ss) + 1
    BY AppendProperties
  <2>6. Len(ss) \in Nat /\ Len(a) \in Nat
    BY <2>1, LenProperties
  <2>7. Len(ss) + 1 <= Len(a) + Len(x)
    BY <2>1, <2>2, <2>6
  <2> QED  BY <2>3, <2>4, <2>5, <2>7
<1>3. Seq(W) \subseteq G
  <2> HIDE DEF W, G
  <2> QED  BY <1>1, <1>2, Pushing
<1>4. q \in Seq(W) /\ q \in G /\ FlattenSeq(q) = t
  BY <1>3 DEF CutOf
<1>5. t \in Seq(R) /\ Len(q) <= Len(t)
  BY <1>4
<1>6. Len(q) \in Nat /\ Len(t) \in Nat
  BY <1>4, <1>5, LenProperties
<1>7. t # <<>> => q # <<>>
  BY <1>4, FlatTyped
<1> QED  BY <1>5, <1>6, <1>7

(* A single rune is cut in one way. *)
LEMMA CutOfOne ==
  ASSUME NEW R, NEW c \in R, NEW q, CutOf(R, q, <<c>>)
  PROVE  q = <<<<c>>>>
<1>1. PICK t : t = <<c>> /\ t \in Seq(R) /\ Len(t) = 1 /\ t # <<>>
  <2>1. <<c>> \in Seq(R) /\ Len(<<c>>) = 1
    OBVIOUS
  <2>2. <<c>> # <<>>
    BY <2>1, EmptySeq
  <2> QED  BY <2>1, <2>2
<1>2. Len(q) \in 0 .. 1 /\ q # <<>> /\ q \in Seq(Parts(R, t)) /\ Parts(R, t) \subseteq WordsOf(R)
  <2>1. CutOf(R, q, t)
    BY <1>1
  <2>2. Len(q) \in 0 .. Len(t) /\ q # <<>>
    BY <1>1, <2>1, CutLength
  <2>3. q \in Seq(Parts(R, t))
    BY <2>1, CutParts
  <2> QED  BY <1>1, <2>2, <2>3 DEF Parts
<1>3. Len(q) = 1
  <2>1. Len(q) # 0
    BY <1>2, EmptySeq
  <2> QED  BY <1>2, <2>1
<1>4. q[1] \in Parts(R, t)
  BY <1>2, <1>3, ElementOfSeq
<1>5. q[1] = t
  <2>1. PICK i \in 1 .. Len(t), j \in 1 .. Len(t) : q[1] = SubSeq(t, i, j)
    BY <1>4 DEF Parts, Inside
  <2>2. i = 1 /\ j = Len(t)
    BY <1>1
  <2> QED  BY <1>1, <2>1, <2>2, SubSeqFull
<1>6. PICK s : s = <<t>> /\ s \in Seq(Seq(R)) /\ Len(s) = 1 /\ s[1] = t
  <2>1. <<t>> \in Seq(Seq(R)) /\ Len(<<t>>) = 1 /\ <<t>>[1] = t
    BY <1>1
  <2> QED  BY <2>1
<1>7. q \in Seq(Seq(R))
  <2>1. Parts(R, t) \subseteq Seq(R)
    BY DEF Parts, WordsOf
  <2> QED  BY <1>2, <2>1, Wider
<1>8. q = s
  <2>1. \A k \in 1 .. 1 : q[k] = s[k]
    <3>1. \A k \in 1 .. 1 : k = 1
      OBVIOUS
    <3> QED  BY <1>5, <1>6, <3>1
  <2> QED  BY <1>3, <1>6, <1>7, <2>1, SeqEqual
<1> QED  BY <1>1, <1>6, <1>8

(* What stands on one side of a separator is cut as if it stood alone.     *)
CutsSplit(text, left, c, right) ==
  CutString(text) = CutString(left) \o <<<<c>>>> \o CutString(right)

(* CutString does the same with the words. *)
LEMMA CutsAround ==
  ASSUME NEW R, NEW text, NEW left, NEW c, NEW right, Around(R, text, left, c, right),
         Decodes(text)
  PROVE  CutsSplit(text, left, c, right)
<1>1. text \in Seq(R) /\ left \in Seq(R) /\ right \in Seq(R) /\ c \in R
  BY DEF Around
<1>2. Decodes(left) /\ Decodes(right)
  <2>1. /\ Len(left) \in Nat /\ Len(right) \in Nat /\ Len(text) = Len(left) + 1 + Len(right)
        /\ DOMAIN left = 1 .. Len(left) /\ DOMAIN right = 1 .. Len(right)
        /\ DOMAIN text = 1 .. Len(text)
    BY <1>1, LenProperties DEF Around
  <2>2. /\ \A p \in 1 .. Len(left) : p \in 1 .. Len(text)
        /\ \A p \in 1 .. Len(right) : Len(left) + 1 + p \in 1 .. Len(text)
    BY <2>1
  <2>3. \A p \in DOMAIN left : left[p] = text[p] /\ p \in DOMAIN text
    BY <2>1, <2>2 DEF Around
  <2>4. \A p \in DOMAIN right : right[p] = text[Len(left) + 1 + p]
                                /\ Len(left) + 1 + p \in DOMAIN text
    BY <2>1, <2>2 DEF Around
  <2>5. \A p \in DOMAIN text : text[p] # Undecodable
    BY DEF Decodes, Range
  <2> QED  BY <2>3, <2>4, <2>5 DEF Decodes, Range
<1>3. PICK F, H, W : F = MixCutFrom(R) /\ H = WithGramsFrom(W) /\ W = WordsOf(R)
  OBVIOUS
<1>4. F \in [Seq(R) -> Seq(W)]
  <2>1. \A w \in Seq(R) : MixCut(w) \in Seq(W)
    BY <1>3, MixCuts DEF CutOf
  <2> QED  BY <1>3, <2>1 DEF MixCutFrom
<1>5. H \in [W -> Seq(W)]
  <2>1. \A w \in W : WithGrams(w) \in Seq(W)
    <3>1. ASSUME NEW w \in W PROVE WithGrams(w) \in Seq(W)
      <4>1. WithGrams(w) \in Seq(Parts(R, w)) /\ Parts(R, w) \subseteq W
        BY <1>3, WithGramsParts DEF Parts
      <4> QED  BY <4>1, Wider
    <3> QED  BY <3>1
  <2> QED  BY <1>3, <2>1 DEF WithGramsFrom
<1>6. PICK pl, pr : /\ pl = Pieces(left) /\ pr = Pieces(right)
                    /\ pl \in Seq(Seq(R)) /\ pr \in Seq(Seq(R))
  <2>1. Pieces(left) \in Seq(W) /\ Pieces(right) \in Seq(W) /\ W \subseteq Seq(R)
    BY <1>1, <1>3, PiecesWalk DEF CutOf, WordsOf
  <2>2. Pieces(left) \in Seq(Seq(R)) /\ Pieces(right) \in Seq(Seq(R))
    BY <2>1, Wider
  <2> QED  BY <2>2
<1>7. PICK one : one = <<<<c>>>> /\ one \in Seq(Seq(R)) /\ one \in Seq(W) /\ <<c>> \in W
  <2>1. <<c>> \in Seq(R) /\ Len(<<c>>) = 1
    BY <1>1
  <2>2. <<c>> # <<>>
    BY <2>1, EmptySeq
  <2>3. <<c>> \in W
    BY <1>3, <2>1, <2>2 DEF WordsOf
  <2>4. <<<<c>>>> \in Seq(Seq(R))
    BY <2>1
  <2>5. <<<<c>>>> \in Seq(W)
    BY <2>3
  <2> QED  BY <2>3, <2>4, <2>5
<1>8. Pieces(text) = pl \o (one \o pr) /\ one \o pr \in Seq(Seq(R))
  <2>1. Pieces(text) = Pieces(left) \o (<<<<c>>>> \o Pieces(right))
    <3>1. PiecesSplit(text, left, c, right)
      BY PiecesAround
    <3> QED  BY <3>1 DEF PiecesSplit
  <2>2. one \o pr \in Seq(Seq(R))
    BY <1>6, <1>7, ConcatProperties
  <2> QED  BY <1>6, <1>7, <2>1, <2>2
<1>9. FlatMap(F, one) = one
  <2>1. <<c>> \in Seq(R)
    BY <1>1
  <2>2. F[<<c>>] = one
    <3>1. F[<<c>>] = MixCut(<<c>>)
      BY <1>3, <2>1 DEF MixCutFrom
    <3>2. CutOf(R, MixCut(<<c>>), <<c>>)
      BY <2>1, MixCuts
    <3> QED  BY <1>1, <1>7, <3>1, <3>2, CutOfOne
  <2> QED  BY <1>4, <1>7, <2>1, <2>2, FlatMapOne
<1>10. FlatMap(H, one) = one
  <2>1. WithGrams(<<c>>) = one
    <3>1. Grams(<<c>>, 2) = <<>> /\ Grams(<<c>>, 3) = <<>>
      BY DEF Grams
    <3>2. <<>> \o <<>> = <<>> /\ <<>> \o one = one
      BY <1>7, ConcatEmptySeq, EmptySeq
    <3> QED  BY <1>7, <3>1, <3>2 DEF WithGrams
  <2>2. H[<<c>>] = one
    BY <1>3, <1>7, <2>1 DEF WithGramsFrom
  <2> QED  BY <1>5, <1>7, <2>2, FlatMapOne
<1>11. PICK ql, qr : /\ ql = FlatMap(F, pl) /\ qr = FlatMap(F, pr)
                     /\ ql \in Seq(W) /\ qr \in Seq(W) /\ one \o qr \in Seq(W)
  <2>1. FlatMap(F, pl) \in Seq(W) /\ FlatMap(F, pr) \in Seq(W)
    BY <1>4, <1>6, FlatMapped
  <2> QED  BY <1>7, <2>1, ConcatProperties
<1>12. PlainCut(text) = ql \o (one \o qr)
  <2>1. PlainCut(text) = FlatMap(F, pl \o (one \o pr))
    BY <1>1, <1>3, <1>8, Cuts DEF Cutting
  <2>2. FlatMap(F, pl \o (one \o pr)) = FlatMap(F, pl) \o FlatMap(F, one \o pr)
    <3>1. pl \in Seq(Seq(R)) /\ one \o pr \in Seq(Seq(R))
      BY <1>6, <1>8
    <3>2. FlatMapJoins(F, pl, (one \o pr))
      BY <1>4, <3>1, FlatMapJoined
    <3> QED  BY <3>2 DEF FlatMapJoins
  <2>3. FlatMap(F, one \o pr) = FlatMap(F, one) \o FlatMap(F, pr)
    <3>1. one \in Seq(Seq(R)) /\ pr \in Seq(Seq(R))
      BY <1>6, <1>7
    <3>2. FlatMapJoins(F, one, pr)
      BY <1>4, <3>1, FlatMapJoined
    <3> QED  BY <3>2 DEF FlatMapJoins
  <2> QED  BY <1>9, <1>11, <2>1, <2>2, <2>3
<1>13. CutString(left) = FlatMap(H, ql) /\ CutString(right) = FlatMap(H, qr)
       /\ CutString(text) = FlatMap(H, ql \o (one \o qr))
  <2>1. PlainCut(left) = ql /\ PlainCut(right) = qr
    BY <1>1, <1>2, <1>3, <1>6, <1>11, Cuts DEF Cutting
  <2> QED  BY <1>1, <1>3, <1>12, <2>1, Cuts DEF Cutting
<1>14. PICK al, ar : /\ al = FlatMap(H, ql) /\ ar = FlatMap(H, qr)
                     /\ al \in Seq(W) /\ ar \in Seq(W)
  <2>1. FlatMap(H, ql) \in Seq(W) /\ FlatMap(H, qr) \in Seq(W)
    BY <1>5, <1>11, FlatMapped
  <2> QED  BY <2>1
<1>15. CutString(text) = al \o (one \o ar)
  <2>1. FlatMap(H, ql \o (one \o qr)) = FlatMap(H, ql) \o FlatMap(H, one \o qr)
    <3>1. ql \in Seq(W) /\ one \o qr \in Seq(W)
      BY <1>11
    <3>2. FlatMapJoins(H, ql, (one \o qr))
      BY <1>5, <3>1, FlatMapJoined
    <3> QED  BY <3>2 DEF FlatMapJoins
  <2>2. FlatMap(H, one \o qr) = FlatMap(H, one) \o FlatMap(H, qr)
    <3>1. one \in Seq(W) /\ qr \in Seq(W)
      BY <1>7, <1>11
    <3>2. FlatMapJoins(H, one, qr)
      BY <1>5, <3>1, FlatMapJoined
    <3> QED  BY <3>2 DEF FlatMapJoins
  <2> QED  BY <1>10, <1>13, <1>14, <2>1, <2>2
<1>16. Grouped(al, one, ar)
  BY <1>7, <1>14, Grouping
<1>17. CutString(text) = (al \o one) \o ar
  BY <1>15, <1>16, Zenon DEF Grouped
<1>18. CutString(left) = al /\ CutString(right) = ar
  BY <1>13, <1>14, Zenon
<1>19. CutString(text) = CutString(left) \o one \o CutString(right)
  BY <1>17, <1>18, Zenon
<1>20. one = <<<<c>>>>
  BY <1>7
<1>21. CutString(text) = CutString(left) \o <<<<c>>>> \o CutString(right)
  BY <1>19, <1>20, Zenon
<1> QED  BY <1>21, Zenon DEF CutsSplit

(* At every separator of a text. *)
LEMMA TextIsolated ==
  ASSUME NEW R, NEW text \in Seq(R)
  PROVE  SeparatorsIsolate(text)
<1> SUFFICES ASSUME NEW i \in 1 .. Len(text), Decodes(text), text[i] \in Separators
             PROVE  CutString(text) = CutString(SubSeq(text, 1, i - 1)) \o <<<<text[i]>>>>
                          \o CutString(SubSeq(text, i + 1, Len(text)))
  BY DEF SeparatorsIsolate
<1>1. PICK left, c, right : /\ left = SubSeq(text, 1, i - 1) /\ c = text[i]
                            /\ right = SubSeq(text, i + 1, Len(text))
  OBVIOUS
<1>2. Around(R, text, left, c, right)
  BY <1>1, SplitAround
<1>3. CutString(text) = CutString(left) \o <<<<c>>>> \o CutString(right)
  <2>1. CutsSplit(text, left, c, right)
    BY <1>2, CutsAround
  <2> QED  BY <2>1, Zenon DEF CutsSplit
<1> QED  BY <1>1, <1>3

-----------------------------------------------------------------------------
(* CalcDP's path is the heaviest *)

(* The last of some places. *)
LEMMA LastOne ==
  ASSUME NEW n \in Nat, NEW T \in SUBSET (0 .. n), NEW m \in T, \A x \in T : x <= m
  PROVE  Max(T) = m
<1>1. \A x \in T : x \in Int
  OBVIOUS
<1>2. Max(T) = CHOOSE x \in T : \A y \in T : x >= y
  BY Zenon DEF Max
<1>3. \A y \in T : m >= y
  BY <1>1
<1>4. PICK c : c = CHOOSE x \in T : \A y \in T : x >= y
  OBVIOUS
<1>5. c \in T /\ \A y \in T : c >= y
  BY <1>3, <1>4
<1>6. c >= m /\ m >= c /\ c \in Int /\ m \in Int
  BY <1>1, <1>3, <1>5
<1> QED  BY <1>2, <1>4, <1>6

(* Places have a last one. *)
LEMMA HasLast ==
  ASSUME NEW n \in Nat, NEW T \in SUBSET (0 .. n), T # {}
  PROVE  \E m \in T : \A x \in T : x <= m
<1>1. PICK v : v = [x \in T |-> x]
  OBVIOUS
<1>2. v \in [T -> Int] /\ \A x \in T : v[x] = x
  BY <1>1
<1>3. PICK top, first : FirstBest(T, v, top, first)
  BY <1>2, BestPlace
<1> QED  BY <1>2, <1>3 DEF FirstBest

(* The ways to cut what follows the place b, and the weight of one. *)
Behind(b, ends, j) == Max({b} \cup {k \in ends : k < j})
CutsFrom(r, b) ==
  {ends \in SUBSET (b + 1 .. Len(r)) :
     /\ b < Len(r) => Len(r) \in ends
     /\ \A j \in ends : j \in Nexts(r, Behind(b, ends, j) + 1)}
WeightsFrom(r, b, ends) ==
  [j \in ends |-> WordWeight(SubSeq(r, Behind(b, ends, j) + 1, j))]
WeightFrom(r, b, ends) == SumOf(WeightsFrom(r, b, ends), ends)

(* A cut behind b that is first made at e. *)
Leads(r, b, e, rest) ==
  /\ rest \cup {e} \in CutsFrom(r, b) <=> e \in Nexts(r, b + 1) /\ rest \in CutsFrom(r, e)
  /\ WeightFrom(r, b, rest \cup {e})
       = WordWeight(SubSeq(r, b + 1, e)) + WeightFrom(r, e, rest)
  /\ WeightFrom(r, e, rest) \in Int

(* Its weight is the first word's and the rest's. *)
LEMMA LeadingCut ==
  ASSUME NEW R, NEW r \in Seq(R), NEW b \in 0 .. Len(r) - 1, NEW e \in b + 1 .. Len(r),
         NEW rest \in SUBSET (e + 1 .. Len(r))
  PROVE  Leads(r, b, e, rest)
<1>1. PICK n : n = Len(r) /\ n \in Nat
  BY LenProperties
<1>2. PICK ends : ends = rest \cup {e}
  OBVIOUS
<1>3. /\ b \in Nat /\ e \in Nat /\ b < e /\ e <= n /\ b < n
      /\ \A j \in rest : j \in Nat /\ e < j /\ j <= n
  BY <1>1
<1>4. Behind(b, ends, e) = b
  <2>1. {k \in ends : k < e} = {}
    <3>1. ASSUME NEW k \in ends PROVE ~(k < e)
      <4>1. CASE k = e
        BY <1>3, <4>1
      <4>2. CASE k \in rest
        BY <1>3, <4>2
      <4> QED  BY <1>2, <4>1, <4>2
    <3> QED  BY <3>1
  <2>2. {b} \in SUBSET (0 .. n) /\ b \in {b} /\ \A x \in {b} : x <= b
    BY <1>1, <1>3
  <2>3. Max({b}) = b
    BY <1>1, <2>2, LastOne
  <2> QED  BY <2>1, <2>3 DEF Behind
<1>5. ASSUME NEW j \in rest PROVE Behind(b, ends, j) = Behind(e, rest, j)
  <2>1. PICK T : T = {e} \cup {k \in rest : k < j}
    OBVIOUS
  <2>2. T \in SUBSET (0 .. n) /\ T # {}
    <3>1. \A k \in T : k \in 0 .. n
      BY <1>1, <1>3, <2>1
    <3> QED  BY <2>1, <3>1
  <2>3. PICK m \in T : \A x \in T : x <= m
    BY <1>1, <2>2, HasLast
  <2>4. Max(T) = m
    BY <1>1, <2>2, <2>3, LastOne
  <2>5. {b} \cup {k \in ends : k < j} = {b} \cup T
    BY <1>2, <1>3, <2>1
  <2>6. {b} \cup T \in SUBSET (0 .. n) /\ m \in {b} \cup T
    BY <1>1, <1>3, <2>2
  <2>7. \A x \in {b} \cup T : x <= m
    <3>1. e <= m
      BY <2>1, <2>3
    <3>2. m \in Int
      BY <2>2
    <3>3. b <= m
      BY <1>3, <3>1, <3>2
    <3> QED  BY <2>3, <3>3
  <2>8. Max({b} \cup T) = m
    <3>1. PICK U : U = {b} \cup T
      OBVIOUS
    <3>2. U \in SUBSET (0 .. n) /\ m \in U /\ \A x \in U : x <= m
      BY <2>6, <2>7, <3>1
    <3>3. Max(U) = m
      BY <1>1, <3>2, LastOne
    <3> QED  BY <3>1, <3>3
  <2> QED  BY <2>1, <2>4, <2>5, <2>8 DEF Behind
<1>6. (ends \in CutsFrom(r, b)) <=> (e \in Nexts(r, b + 1) /\ rest \in CutsFrom(r, e))
  <2>1. ends \in SUBSET (b + 1 .. n) /\ e \in ends
    <3>1. \A k \in ends : k \in b + 1 .. n
      BY <1>1, <1>2, <1>3
    <3> QED  BY <1>2, <3>1
  <2>2. n \in ends <=> (e < n => n \in rest)
    BY <1>1, <1>2, <1>3
  <2>3. (\A j \in ends : j \in Nexts(r, Behind(b, ends, j) + 1))
          <=> /\ e \in Nexts(r, b + 1)
              /\ \A j \in rest : j \in Nexts(r, Behind(e, rest, j) + 1)
    BY <1>2, <1>4, <1>5
  <2> QED  BY <1>1, <1>3, <2>1, <2>2, <2>3 DEF CutsFrom
<1>7. PICK h, g : h = WeightsFrom(r, b, ends) /\ g = WeightsFrom(r, e, rest)
  OBVIOUS
<1>8. h \in [ends -> Int] /\ g \in [rest -> Int]
  BY <1>7, WeightTyped DEF WeightsFrom
<1>9. IsFiniteSet(ends) /\ IsFiniteSet(rest)
  <2>1. IsFiniteSet(0 .. n)
    BY <1>1, 0 \in Int, FS_Interval
  <2>2. ends \subseteq 0 .. n /\ rest \subseteq 0 .. n
    BY <1>1, <1>2, <1>3
  <2> QED  BY <2>1, <2>2, FS_Subset
<1>10. SumAdds(h, ends, e)
  <2>1. ends \in SUBSET ends /\ e \in ends
    BY <1>2
  <2> QED  BY <1>8, <1>9, <2>1, SumTaken
<1>11. ends \ {e} = rest
  BY <1>2, <1>3
<1>12. h[e] = WordWeight(SubSeq(r, b + 1, e))
  BY <1>2, <1>4, <1>7 DEF WeightsFrom
<1>13. SumOf(h, rest) = SumOf(g, rest)
  <2>1. \A j \in rest : h[j] = g[j]
    BY <1>2, <1>5, <1>7 DEF WeightsFrom
  <2>2. rest \subseteq DOMAIN h /\ rest \subseteq DOMAIN g
    BY <1>2, <1>8
  <2> QED  BY <2>1, <2>2, SumAgrees
<1>14. SumOf(g, rest) \in Int
  <2>1. rest \in SUBSET rest
    OBVIOUS
  <2> QED  BY <1>8, <1>9, <2>1, SumTaken
<1>15. WeightFrom(r, b, ends) = WordWeight(SubSeq(r, b + 1, e)) + WeightFrom(r, e, rest)
  BY <1>7, <1>10, <1>11, <1>12, <1>13 DEF WeightFrom, SumAdds
<1>16. WeightFrom(r, e, rest) \in Int
  BY <1>7, <1>14 DEF WeightFrom
<1> QED  BY <1>2, <1>6, <1>15, <1>16 DEF Leads

(* From each place the table has the weight of the heaviest cut. *)
LEMMA HeaviestFrom ==
  ASSUME NEW R, NEW r \in Seq(R), NEW f, BestTable(R, r, f), NEW i \in 1 .. Len(r) + 1
  PROVE  /\ f[i].weight \in Int
         /\ \A c \in CutsFrom(r, i - 1) : WeightFrom(r, i - 1, c) <= f[i].weight
         /\ \E c \in CutsFrom(r, i - 1) : WeightFrom(r, i - 1, c) = f[i].weight
<1>1. PICK n : n = Len(r) /\ n \in Nat
  BY LenProperties
<1>2. /\ f \in [1 .. n + 1 -> Paths(R)] /\ f[n + 1] = [weight |-> 0, words |-> <<>>]
      /\ \A k \in 1 .. n : BestAt(r, f, k)
  BY <1>1 DEF BestTable
<1>3. \A k \in 1 .. n + 1 : f[k].weight \in Int
  BY <1>2 DEF Paths
<1> DEFINE Most(k) == /\ \A c \in CutsFrom(r, k - 1) : WeightFrom(r, k - 1, c) <= f[k].weight
                      /\ \E c \in CutsFrom(r, k - 1) : WeightFrom(r, k - 1, c) = f[k].weight
           G == {k \in 1 .. n + 1 : Most(k)}
<1>4. ASSUME NEW k \in 1 .. n + 1, \A j \in k + 1 .. n + 1 : j \in G PROVE k \in G
  <2>1. CASE k = n + 1
    <3>1. PICK b : b = k - 1 /\ b = n
      BY <1>1, <2>1
    <3>2. b + 1 .. Len(r) = {}
      BY <1>1, <3>1
    <3>3. ~(b < Len(r))
      BY <1>1, <3>1
    <3>4. CutsFrom(r, b) = {{}}
      BY <3>2, <3>3 DEF CutsFrom
    <3>5. WeightFrom(r, b, {}) = 0
      <4>1. IsFiniteSet({}) /\ WeightsFrom(r, b, {}) \in [{} -> Int]
        BY FS_EmptySet DEF WeightsFrom
      <4> QED  BY <4>1, SumTaken DEF WeightFrom
    <3>6. f[k].weight = 0
      BY <1>2, <2>1
    <3>7. {} \in CutsFrom(r, b) /\ \A c \in CutsFrom(r, b) : c = {}
      BY <3>4
    <3>8. /\ \A c \in CutsFrom(r, b) : WeightFrom(r, b, c) <= f[k].weight
          /\ \E c \in CutsFrom(r, b) : WeightFrom(r, b, c) = f[k].weight
      <4>1. WeightFrom(r, b, {}) <= f[k].weight /\ WeightFrom(r, b, {}) = f[k].weight
        BY <3>5, <3>6
      <4> QED  BY <3>7, <4>1
    <3>9. Most(k)
      BY <3>1, <3>8
    <3> QED  BY <3>9
  <2>2. CASE k # n + 1
    <3>1. PICK b : b = k - 1 /\ k = b + 1 /\ b \in 0 .. Len(r) - 1 /\ k \in 1 .. n
      BY <1>1, <2>2
    <3>2. PICK e \in Nexts(r, k) :
            /\ f[k].weight = Via(r, f, k, e)
            /\ \A j \in Nexts(r, k) : Via(r, f, k, j) <= f[k].weight
      BY <1>2, <3>1 DEF BestAt
    <3>3. \A j \in Nexts(r, k) : j \in b + 1 .. Len(r) /\ j \in k .. n
      BY <1>1, <3>1, NextsTyped
    <3>4. ASSUME NEW j \in Nexts(r, k)
          PROVE  /\ \A c \in CutsFrom(r, j) : WeightFrom(r, j, c) <= f[j + 1].weight
                 /\ \E c \in CutsFrom(r, j) : WeightFrom(r, j, c) = f[j + 1].weight
      <4>1. j + 1 \in k + 1 .. n + 1 /\ (j + 1) - 1 = j
        BY <1>1, <3>1, <3>3
      <4>2. Most(j + 1)
        BY <1>4, <4>1
      <4> QED  BY <4>1, <4>2
    <3>5. ASSUME NEW j \in Nexts(r, k)
          PROVE  f[j + 1].weight \in Int /\ WordWeight(SubSeq(r, k, j)) \in Int
      <4>1. j + 1 \in 1 .. n + 1
        BY <1>1, <3>1, <3>3
      <4> QED  BY <1>3, <4>1, WeightTyped
    <3>6. ASSUME NEW c \in CutsFrom(r, b) PROVE WeightFrom(r, b, c) <= f[k].weight
      <4>1. c \in SUBSET (b + 1 .. Len(r)) /\ c # {}
        <5>1. b < Len(r)
          BY <1>1, <3>1
        <5> QED  BY <5>1 DEF CutsFrom
      <4>2. PICK j \in c : \A x \in c : j <= x
        <5>1. c \subseteq Nat
          BY <1>1, <3>1, <4>1
        <5> QED  BY <4>1, <5>1, LeastNumber
      <4>3. PICK rest : rest = c \ {j}
        OBVIOUS
      <4>4. j \in b + 1 .. Len(r) /\ rest \in SUBSET (j + 1 .. Len(r)) /\ c = rest \cup {j}
        <5>1. \A x \in rest : x \in j + 1 .. Len(r)
          BY <1>1, <3>1, <4>1, <4>2, <4>3
        <5> QED  BY <4>1, <4>3, <5>1
      <4>5. Leads(r, b, j, rest)
        BY <3>1, <4>4, LeadingCut
      <4>6. j \in Nexts(r, k) /\ rest \in CutsFrom(r, j)
        BY <3>1, <4>4, <4>5 DEF Leads
      <4>7. WeightFrom(r, j, rest) <= f[j + 1].weight
        BY <3>4, <4>6
      <4>8. Via(r, f, k, j) <= f[k].weight
        BY <3>2, <4>6
      <4>9. PICK w, x, y, z : /\ w = WordWeight(SubSeq(r, k, j)) /\ x = WeightFrom(r, j, rest)
                              /\ y = f[j + 1].weight /\ z = f[k].weight
        OBVIOUS
      <4>10. w \in Int /\ x \in Int /\ y \in Int /\ z \in Int
        BY <1>1, <1>3, <3>1, <3>5, <4>5, <4>6, <4>9 DEF Leads
      <4>11. WeightFrom(r, b, c) = w + x
        BY <3>1, <4>4, <4>5, <4>9 DEF Leads
      <4>12. y + w <= z /\ x <= y
        BY <4>7, <4>8, <4>9 DEF Via
      <4>13. w + x <= z
        BY <4>10, <4>12
      <4> QED  BY <4>9, <4>11, <4>13
    <3>7. \E c \in CutsFrom(r, b) : WeightFrom(r, b, c) = f[k].weight
      <4>1. PICK rest \in CutsFrom(r, e) : WeightFrom(r, e, rest) = f[e + 1].weight
        BY <3>4
      <4>2. rest \in SUBSET (e + 1 .. Len(r)) /\ e \in b + 1 .. Len(r)
        BY <3>3 DEF CutsFrom
      <4>3. Leads(r, b, e, rest)
        BY <3>1, <4>2, LeadingCut
      <4>4. rest \cup {e} \in CutsFrom(r, b)
        BY <3>1, <4>3 DEF Leads
      <4>5. WeightFrom(r, b, rest \cup {e}) = WordWeight(SubSeq(r, k, e)) + f[e + 1].weight
        BY <3>1, <4>1, <4>3 DEF Leads
      <4>6. WeightFrom(r, b, rest \cup {e}) = f[k].weight
        BY <3>2, <3>5, <4>5 DEF Via
      <4> QED  BY <4>4, <4>6
    <3>8. Most(k)
      BY <3>1, <3>6, <3>7
    <3> QED  BY <3>8
  <2> QED  BY <2>1, <2>2
<1>5. 1 .. n + 1 \subseteq G
  <2>1. n + 1 \in Nat
    BY <1>1
  <2> HIDE DEF G
  <2> QED  BY <1>4, <2>1, Backwards
<1>6. i \in 1 .. n + 1
  BY <1>1
<1>7. Most(i)
  BY <1>5, <1>6
<1> QED  BY <1>3, <1>6, <1>7

(* CalcDP's weight is the greatest of all cuts of the text. *)
LEMMA TextHeaviest ==
  ASSUME NEW R, NEW r \in Seq(R)
  PROVE  PathHeaviest(r)
<1> SUFFICES ASSUME r # <<>>
             PROVE  BestFrom(r).weight = Max({CuttingWeight(r, c) : c \in Cuttings(r)})
  BY DEF PathHeaviest
<1>1. PICK n : n = Len(r) /\ n \in Nat /\ n # 0
  BY EmptySeq, LenProperties
<1>2. PICK f : BestTable(R, r, f)
  BY TableFilled
<1>3. PICK top : top = BestFrom(r).weight
  OBVIOUS
<1>4. /\ top \in Int
      /\ \A c \in CutsFrom(r, 0) : WeightFrom(r, 0, c) <= top
      /\ \E c \in CutsFrom(r, 0) : WeightFrom(r, 0, c) = top
  <2>1. 1 \in 1 .. Len(r) + 1 /\ 1 - 1 = 0
    BY <1>1
  <2>2. f[1].weight = top
    BY <1>2, <1>3 DEF BestTable
  <2> QED  BY <1>2, <2>1, <2>2, HeaviestFrom
<1>5. Cuttings(r) = CutsFrom(r, 0)
  <2>1. 0 < Len(r) /\ 0 + 1 = 1
    BY <1>1
  <2> QED  BY <2>1, Zenon DEF Cuttings, CutsFrom, Behind
<1>6. ASSUME NEW c \in CutsFrom(r, 0) PROVE CuttingWeight(r, c) = WeightFrom(r, 0, c)
  <2>1. PICK h : h = WeightsFrom(r, 0, c)
    OBVIOUS
  <2>2. h \in [c -> Int] /\ h = [j \in c |-> WordWeight(SubSeq(r, Behind(0, c, j) + 1, j))]
    BY <2>1, WeightTyped DEF WeightsFrom
  <2>3. IsFiniteSet(c)
    <3>1. c \subseteq 0 + 1 .. Len(r)
      BY DEF CutsFrom
    <3>2. IsFiniteSet(0 + 1 .. Len(r))
      BY <1>1, 0 + 1 \in Int, FS_Interval
    <3> QED  BY <3>1, <3>2, FS_Subset
  <2> DEFINE Pick(s) == CHOOSE x \in s : TRUE
             Weigh(j) == WordWeight(SubSeq(r, Max({0} \cup {k \in c : k < j}) + 1, j))
             Added(g) == [s \in SUBSET c |->
                            IF s = {} THEN 0 ELSE Weigh(Pick(s)) + g[s \ {Pick(s)}]]
             Turn(g) == [s \in SUBSET c |->
                            IF s = {} THEN 0 ELSE h[Pick(s)] + g[s \ {Pick(s)}]]
  <2>4. PICK g : CuttingWeight(r, c) = g[c] /\ g = CHOOSE u : u = Added(u)
    <3>1. PICK v : v = CuttingWeight(r, c)
      OBVIOUS
    <3> QED  BY <3>1, Zenon DEF CuttingWeight, MapThenSumSet, MapThenFoldSet
  <2>5. ASSUME NEW u PROVE Added(u) = Turn(u)
    <3> SUFFICES ASSUME NEW s \in SUBSET c, s # {}
                 PROVE  Weigh(Pick(s)) + u[s \ {Pick(s)}] = h[Pick(s)] + u[s \ {Pick(s)}]
      BY Zenon
    <3>1. PICK x : x = Pick(s)
      OBVIOUS
    <3>2. x \in c
      BY <3>1
    <3>3. h[x] = Weigh(x)
      BY <2>2, <3>2, Zenon DEF Behind
    <3> QED  BY <3>1, <3>3, Zenon
  <2>6. g = CHOOSE u : u = Turn(u)
    <3> HIDE DEF Added, Turn
    <3> QED  BY <2>4, <2>5, Zenon
  <2>7. g[c] = SumOf(h, c)
    BY <2>2, <2>3, <2>6, SumSummed
  <2> QED  BY <2>1, <2>4, <2>7 DEF WeightFrom
<1>7. PICK T : T = {CuttingWeight(r, c) : c \in Cuttings(r)}
  OBVIOUS
<1>8. top \in T /\ \A x \in T : x <= top
  BY <1>4, <1>5, <1>6, <1>7
<1>9. T \subseteq Int
  <2>1. ASSUME NEW c \in CutsFrom(r, 0) PROVE WeightFrom(r, 0, c) \in Int
    <3>1. WeightsFrom(r, 0, c) \in [c -> Int]
      BY WeightTyped DEF WeightsFrom
    <3>2. IsFiniteSet(c)
      <4>1. c \subseteq 0 + 1 .. Len(r)
        BY DEF CutsFrom
      <4>2. IsFiniteSet(0 + 1 .. Len(r))
        BY <1>1, 0 + 1 \in Int, FS_Interval
      <4> QED  BY <4>1, <4>2, FS_Subset
    <3>3. c \in SUBSET c
      OBVIOUS
    <3> QED  BY <3>1, <3>2, <3>3, SumTaken DEF WeightFrom
  <2> QED  BY <1>5, <1>6, <1>7, <2>1
<1>10. Max(T) = top
  <2>1. Max(T) = CHOOSE x \in T : \A y \in T : x >= y
    BY Zenon DEF Max
  <2>2. PICK x : x = CHOOSE z \in T : \A y \in T : z >= y
    OBVIOUS
  <2>3. \A y \in T : top >= y
    BY <1>4, <1>8, <1>9
  <2>4. x \in T /\ \A y \in T : x >= y
    BY <1>8, <2>2, <2>3
  <2> QED  BY <1>4, <1>8, <1>9, <2>1, <2>2, <2>4
<1> QED  BY <1>3, <1>7, <1>10

-----------------------------------------------------------------------------
(* Viterbi's states are the best *)

(* What one state more adds to a weight: nothing makes it more.            *)
Further(v, p, y, c) == Absorb(v + TransProb[p][y] + GetEmitProb(y, c))

(* What is impossible stays so, and the heavier stays the heavier. *)
LEMMA NoGain ==
  ASSUME NEW v \in Int, NEW p \in States, NEW y \in States, NEW c
  PROVE  /\ Further(v, p, y, c) \in Int
         /\ v <= MinDouble => Further(v, p, y, c) <= MinDouble
         /\ \A w \in Int : v <= w => Further(v, p, y, c) <= Further(w, p, y, c)
<1>1. PICK t, g : /\ t = TransProb[p][y] /\ g = GetEmitProb(y, c)
                  /\ t \in Int /\ g \in Int /\ t <= 0 /\ g <= 0
  <2>1. TransProb[p][y] \in Int /\ TransProb[p][y] <= 0
    BY ModelAssumption
  <2>2. GetEmitProb(y, c) \in Int /\ GetEmitProb(y, c) <= 0
    BY Emitted
  <2> QED  BY <2>1, <2>2
<1>2. v + t + g \in Int
  BY <1>1
<1>3. Further(v, p, y, c) \in Int
  BY <1>1, <1>2, Absorbed DEF Further
<1>4. ASSUME v <= MinDouble PROVE Further(v, p, y, c) <= MinDouble
  <2>1. PICK m : m = MinDouble /\ m \in Int
    BY DEF MinDouble
  <2>2. v + t + g <= m
    BY <1>1, <1>4, <2>1
  <2>3. Absorb(v + t + g) <= Absorb(m)
    BY <1>2, <2>1, <2>2, Absorbed
  <2> QED  BY <1>1, <2>1, <2>3, Absorbed DEF Further
<1>5. ASSUME NEW w \in Int, v <= w PROVE Further(v, p, y, c) <= Further(w, p, y, c)
  <2>1. w + t + g \in Int /\ v + t + g <= w + t + g
    BY <1>1, <1>5
  <2>2. Absorb(v + t + g) <= Absorb(w + t + g)
    BY <1>2, <2>1, Absorbed
  <2> QED  BY <1>1, <2>2 DEF Further
<1> QED  BY <1>3, <1>4, <1>5

(* The weights of the first parts of a sequence of states. *)
Weighing(r, s, u) ==
  /\ u \in [1 .. Len(r) -> Int]
  /\ u[1] = Absorb(StartProb[s[1]] + GetEmitProb(s[1], r[1]))
  /\ \A i \in 2 .. Len(r) : u[i] = Further(u[i - 1], s[i - 1], s[i], r[i])
  /\ StatesWeight(r, s) = u[Len(r)]

(* Every sequence of states has such weights. *)
LEMMA Weighed ==
  ASSUME NEW R, NEW r \in WordsOf(R), NEW s \in [1 .. Len(r) -> States]
  PROVE  \E u : Weighing(r, s, u)
<1>1. PICK n : n = Len(r) /\ n \in Nat \ {0}
  <2>1. r \in Seq(R) /\ r # <<>>
    BY DEF WordsOf
  <2>2. Len(r) \in Nat \ {0}
    BY <2>1, EmptySeq, LenProperties
  <2> QED  BY <2>2
<1> DEFINE D == 1 .. n
           start == Absorb(StartProb[s[1]] + GetEmitProb(s[1], r[1]))
           Turn(g) == [i \in D |-> IF i = 1 THEN start
                                   ELSE Further(g[i - 1], s[i - 1], s[i], r[i])]
<1>2. PICK f : StatesWeight(r, s) = f[n] /\ f = CHOOSE g : g = Turn(g)
  <2>1. PICK v : v = StatesWeight(r, s)
    OBVIOUS
  <2> QED  BY <1>1, <2>1, Zenon DEF StatesWeight, Further
<1>3. start \in Int
  <2>1. s[1] \in States
    BY <1>1
  <2>2. StartProb[s[1]] \in Int
    BY <2>1, ModelAssumption
  <2>3. GetEmitProb(s[1], r[1]) \in Int
    BY <2>1, Emitted
  <2>4. StartProb[s[1]] + GetEmitProb(s[1], r[1]) \in Int
    BY <2>2, <2>3
  <2> QED  BY <2>4, Absorbed
<1>4. ASSUME NEW i \in 2 .. n, NEW v \in Int
      PROVE  Further(v, s[i - 1], s[i], r[i]) \in Int
  <2>1. i \in 1 .. Len(r) /\ i - 1 \in 1 .. Len(r)
    BY <1>1
  <2>2. s[i] \in States /\ s[i - 1] \in States
    BY <2>1
  <2> QED  BY <2>2, NoGain
<1> HIDE DEF start
<1>5. PICK step : step = [x \in D \X [D -> Int] |->
                            IF x[1] = 1 THEN start
                            ELSE Further(x[2][x[1] - 1], s[x[1] - 1], s[x[1]], r[x[1]])]
  OBVIOUS
<1>6. ASSUME NEW i \in D, NEW g \in [D -> Int]
      PROVE  /\ step[<<i, g>>] = IF i = 1 THEN start
                                 ELSE Further(g[i - 1], s[i - 1], s[i], r[i])
             /\ step[<<i, g>>] \in Int
  <2>1. <<i, g>> \in D \X [D -> Int] /\ <<i, g>>[1] = i /\ <<i, g>>[2] = g
    OBVIOUS
  <2>2. step[<<i, g>>] = IF i = 1 THEN start ELSE Further(g[i - 1], s[i - 1], s[i], r[i])
    BY <1>5, <2>1, Zenon
  <2>3. CASE i = 1
    BY <1>3, <2>2, <2>3
  <2>4. CASE i # 1
    <3>1. i \in 2 .. n /\ i - 1 \in D
      BY <1>1, <2>4
    <3>2. Further(g[i - 1], s[i - 1], s[i], r[i]) \in Int
      BY <1>4, <3>1
    <3> QED  BY <2>2, <2>4, <3>2
  <2> QED  BY <2>2, <2>3, <2>4
<1>7. \E g : Solution(D, Int, step, g)
  <2>1. PICK id : id = [i \in D |-> i]
    OBVIOUS
  <2>2. id \in [D -> 0 .. n] /\ (\A i \in D : id[i] = i) /\ 0 \in Int
    BY <1>1, <2>1
  <2>3. step \in [D \X [D -> Int] -> Int]
    <3>1. \A x \in D \X [D -> Int] : step[x] \in Int
      <4> SUFFICES ASSUME NEW x \in D \X [D -> Int] PROVE step[x] \in Int
        OBVIOUS
      <4>1. x = <<x[1], x[2]>> /\ x[1] \in D /\ x[2] \in [D -> Int]
        OBVIOUS
      <4> QED  BY <1>6, <4>1
    <3> QED  BY <1>5, <3>1
  <2>4. ASSUME NEW i \in D, NEW g \in [D -> Int], NEW h \in [D -> Int],
               \A j \in D : id[j] < id[i] => g[j] = h[j]
        PROVE  step[<<i, g>>] = step[<<i, h>>]
    <3>1. CASE i # 1
      <4>1. i - 1 \in D /\ i - 1 < i
        BY <1>1, <3>1
      <4>2. g[i - 1] = h[i - 1]
        BY <2>2, <2>4, <4>1
      <4>3. /\ step[<<i, g>>] = Further(g[i - 1], s[i - 1], s[i], r[i])
            /\ step[<<i, h>>] = Further(h[i - 1], s[i - 1], s[i], r[i])
        BY <1>6, <3>1
      <4> QED  BY <4>2, <4>3
    <3> QED  BY <1>6, <3>1
  <2>5. n \in Nat
    BY <1>1
  <2>6. LooksBelow(D, Int, id, step)
    BY <2>3, <2>4 DEF LooksBelow
  <2> HIDE DEF D
  <2> QED  BY <2>2, <2>5, <2>6, Solved
<1>8. PICK g : g = Turn(g)
  <2>1. PICK k \in [D -> Int] : \A i \in D : k[i] = step[<<i, k>>]
    BY <1>7 DEF Solution
  <2>2. \A i \in D : k[i] = IF i = 1 THEN start ELSE Further(k[i - 1], s[i - 1], s[i], r[i])
    BY <1>6, <2>1
  <2> HIDE DEF D
  <2>3. k = [i \in D |-> k[i]]
    OBVIOUS
  <2>4. k = Turn(k)
    BY <2>2, <2>3, Zenon
  <2> HIDE DEF Turn
  <2> QED  BY <2>4, Zenon
<1>9. f = Turn(f)
  <2>1. f = CHOOSE k : k = Turn(k)
    BY <1>2
  <2> HIDE DEF Turn, D
  <2> QED  BY <1>8, <2>1, Zenon
<1>10. \A i \in D : f[i] = IF i = 1 THEN start ELSE Further(f[i - 1], s[i - 1], s[i], r[i])
  BY <1>9, Zenon
<1> DEFINE G == {v \in 0 .. n : v = 0 \/ f[v] \in Int}
<1>11. 0 .. n \subseteq G
  <2>1. ASSUME NEW v \in 0 .. n - 1, v \in G PROVE v + 1 \in G
    <3>1. PICK i : i = v + 1 /\ i \in D /\ i \in 0 .. n /\ i - 1 = v
      BY <1>1
    <3>2. CASE i = 1
      BY <1>3, <1>10, <3>1, <3>2
    <3>3. CASE i # 1
      <4>1. i \in 2 .. n /\ f[i - 1] \in Int
        BY <1>1, <2>1, <3>1, <3>3
      <4>2. f[i] = Further(f[i - 1], s[i - 1], s[i], r[i])
        BY <1>10, <3>1, <3>3
      <4>3. f[i] \in Int
        BY <1>4, <4>1, <4>2
      <4> QED  BY <3>1, <4>3
    <3> QED  BY <3>2, <3>3
  <2>2. 0 \in G
    BY <1>1
  <2> HIDE DEF G
  <2> QED  BY <1>1, <2>1, <2>2, Counting
<1>12. f \in [D -> Int]
  <2>1. \A i \in D : f[i] \in Int
    BY <1>1, <1>11
  <2>2. f = [i \in D |-> f[i]]
    BY <1>9, Zenon
  <2> HIDE DEF D
  <2> QED  BY <2>1, <2>2
<1>13. f[1] = start
  <2>1. 1 \in D
    BY <1>1
  <2> QED  BY <1>10, <2>1
<1>14. \A i \in 2 .. n : f[i] = Further(f[i - 1], s[i - 1], s[i], r[i])
  <2>1. \A i \in 2 .. n : i \in D /\ i # 1
    BY <1>1
  <2> QED  BY <1>10, <2>1
<1> QED  BY <1>1, <1>2, <1>12, <1>13, <1>14 DEF Weighing, start

(* A column's weights, from the column before. *)
LEMMA RunTyped ==
  ASSUME NEW R, NEW r \in WordsOf(R), NEW h, ViterbiRun(r, h)
  PROVE  /\ Len(r) \in Nat \ {0}
         /\ \A i \in 1 .. Len(r) : h[i] \in Columns /\ \A y \in States : h[i][y].weight \in Int
         /\ \A i \in 2 .. Len(r) : \A y \in States : StepTo(h[i - 1], r[i], y, h[i][y])
<1>1. PICK n : n = Len(r) /\ n \in Nat \ {0}
  <2>1. r \in Seq(R) /\ r # <<>>
    BY DEF WordsOf
  <2>2. Len(r) \in Nat \ {0}
    BY <2>1, EmptySeq, LenProperties
  <2> QED  BY <2>2
<1>2. \A i \in 1 .. n : h[i] \in Columns
  BY <1>1 DEF ViterbiRun
<1>3. \A i \in 1 .. n : \A y \in States : h[i][y].weight \in Int
  BY <1>2 DEF Columns, Entries
<1>4. ASSUME NEW i \in 2 .. n, NEW y \in States PROVE StepTo(h[i - 1], r[i], y, h[i][y])
  <2>1. i - 1 \in 1 .. n
    BY <1>1
  <2>2. h[i] = ViterbiStep(h[i - 1], r[i])
    BY <1>1 DEF ViterbiRun
  <2> QED  BY <1>2, <2>1, <2>2, ColumnStep
<1> QED  BY <1>1, <1>2, <1>3, <1>4

(* No sequence of states is better than Viterbi's weight for its last.     *)
LEMMA NoneBetter ==
  ASSUME NEW R, NEW r \in WordsOf(R), NEW h, ViterbiRun(r, h),
         NEW s \in [1 .. Len(r) -> States], NEW u, Weighing(r, s, u)
  PROVE  \A i \in 1 .. Len(r) : u[i] > MinDouble => u[i] <= h[i][s[i]].weight
<1>1. PICK n : n = Len(r) /\ n \in Nat \ {0}
  BY RunTyped
<1>2. /\ \A i \in 1 .. n : h[i] \in Columns /\ \A y \in States : h[i][y].weight \in Int
      /\ \A i \in 2 .. n : \A y \in States : StepTo(h[i - 1], r[i], y, h[i][y])
  BY <1>1, RunTyped
<1>3. /\ u \in [1 .. n -> Int]
      /\ u[1] = Absorb(StartProb[s[1]] + GetEmitProb(s[1], r[1]))
      /\ \A i \in 2 .. n : u[i] = Further(u[i - 1], s[i - 1], s[i], r[i])
  BY <1>1 DEF Weighing
<1>4. PICK m : m = MinDouble /\ m \in Int
  BY DEF MinDouble
<1> DEFINE Most(i) == u[i] > m => u[i] <= h[i][s[i]].weight
           G == {v \in 0 .. n : v = 0 \/ Most(v)}
<1>5. ASSUME NEW v \in 0 .. n - 1, v \in G PROVE v + 1 \in G
  <2>1. PICK i : i = v + 1 /\ i \in 1 .. n /\ i \in 0 .. n /\ i - 1 = v
    BY <1>1
  <2>2. CASE i = 1
    <3>1. s[1] \in States
      BY <1>1
    <3>2. h[1][s[1]].weight = u[1]
      <4>1. h[1] = FirstColumn(r)
        BY DEF ViterbiRun
      <4> QED  BY <1>3, <3>1, <4>1 DEF FirstColumn
    <3>3. u[1] \in Int
      BY <1>1, <1>3
    <3>4. Most(1)
      BY <3>2, <3>3
    <3> QED  BY <2>1, <2>2, <3>4
  <2>3. CASE i # 1
    <3>1. i \in 2 .. n /\ i - 1 \in 1 .. n
      BY <1>1, <2>1, <2>3
    <3>2. PICK a, b, p, y, c : /\ a = u[i - 1] /\ b = h[i - 1][p].weight
                               /\ p = s[i - 1] /\ y = s[i] /\ c = r[i]
      OBVIOUS
    <3>3. p \in States /\ y \in States
      BY <1>1, <3>1, <3>2
    <3>4. a \in Int /\ b \in Int /\ u[i] \in Int
      BY <1>2, <1>3, <2>1, <3>1, <3>2, <3>3
    <3>5. u[i] = Further(a, p, y, c)
      BY <1>3, <3>1, <3>2
    <3>6. Onward(h[i - 1], y, c, p) = Further(b, p, y, c)
      BY <3>2 DEF Onward, Further
    <3>7. StepTo(h[i - 1], c, y, h[i][y]) /\ h[i][y].weight \in Int
      BY <1>2, <2>1, <3>1, <3>2, <3>3
    <3>8. ASSUME u[i] > m PROVE u[i] <= h[i][y].weight
      <4>1. ~(a <= m)
        BY <1>4, <3>3, <3>4, <3>5, <3>8, NoGain
      <4>2. a <= b
        <5>1. Most(i - 1)
          BY <1>1, <1>5, <2>1, <3>1
        <5>2. a > m
          BY <1>4, <3>4, <4>1
        <5> QED  BY <3>2, <5>1, <5>2
      <4>3. Further(a, p, y, c) <= Further(b, p, y, c)
        BY <3>3, <3>4, <4>2, NoGain
      <4>4. PICK t : t = Further(b, p, y, c) /\ t \in Int
        BY <3>3, <3>4, NoGain
      <4>5. t <= h[i][y].weight \/ t <= m
        BY <1>4, <3>3, <3>6, <3>7, <4>4 DEF StepTo
      <4>6. u[i] <= t
        BY <3>5, <4>3, <4>4
      <4> QED  BY <1>4, <3>4, <3>7, <3>8, <4>4, <4>5, <4>6
    <3>9. Most(i)
      BY <3>2, <3>8
    <3> QED  BY <2>1, <3>9
  <2> QED  BY <2>2, <2>3
<1>6. 0 .. n \subseteq G
  <2>1. 0 \in G
    BY <1>1
  <2> HIDE DEF G
  <2> QED  BY <1>1, <1>5, <2>1, Counting
<1>7. \A i \in 1 .. n : Most(i)
  BY <1>1, <1>6
<1> QED  BY <1>1, <1>4, <1>7

(* The weight Viterbi has for a state is that of its path to it.           *)
LEMMA PathWeighs ==
  ASSUME NEW R, NEW r \in WordsOf(R), NEW h, ViterbiRun(r, h),
         NEW s \in [1 .. Len(r) -> States], NEW u, Weighing(r, s, u)
  PROVE  \A i \in 1 .. Len(r) : \A y \in States :
           /\ h[i][y].weight > MinDouble
           /\ \A k \in 1 .. i : s[k] = h[i][y].path[k]
           => u[i] = h[i][y].weight
<1>1. PICK n : n = Len(r) /\ n \in Nat \ {0}
  BY RunTyped
<1>2. /\ \A i \in 1 .. n : h[i] \in Columns /\ \A y \in States : h[i][y].weight \in Int
      /\ \A i \in 2 .. n : \A y \in States : StepTo(h[i - 1], r[i], y, h[i][y])
  BY <1>1, RunTyped
<1>3. /\ u \in [1 .. n -> Int]
      /\ u[1] = Absorb(StartProb[s[1]] + GetEmitProb(s[1], r[1]))
      /\ \A i \in 2 .. n : u[i] = Further(u[i - 1], s[i - 1], s[i], r[i])
  BY <1>1 DEF Weighing
<1>4. PICK m : m = MinDouble /\ m \in Int
  BY DEF MinDouble
<1>5. \A i \in 1 .. n : \A y \in States : PathTo(h[i][y], i, y)
  BY <1>1, PathsGrow
<1> DEFINE Same(i, y) == /\ h[i][y].weight > m
                         /\ \A k \in 1 .. i : s[k] = h[i][y].path[k]
                         => u[i] = h[i][y].weight
           G == {v \in 0 .. n : v = 0 \/ \A y \in States : Same(v, y)}
<1>6. ASSUME NEW v \in 0 .. n - 1, v \in G PROVE v + 1 \in G
  <2>1. PICK i : i = v + 1 /\ i \in 1 .. n /\ i \in 0 .. n /\ i - 1 = v
    BY <1>1
  <2>2. ASSUME NEW y \in States, h[i][y].weight > m, \A k \in 1 .. i : s[k] = h[i][y].path[k]
        PROVE  u[i] = h[i][y].weight
    <3>1. s[i] = y
      <4>1. i \in 1 .. i
        BY <2>1
      <4>2. h[i][y].path[i] = y
        BY <1>5, <2>1 DEF PathTo
      <4> QED  BY <2>2, <4>1, <4>2
    <3>2. CASE i = 1
      <4>1. h[1][y].weight = Absorb(StartProb[y] + GetEmitProb(y, r[1]))
        <5>1. h[1] = FirstColumn(r)
          BY DEF ViterbiRun
        <5> QED  BY <5>1 DEF FirstColumn
      <4> QED  BY <1>3, <3>1, <3>2, <4>1
    <3>3. CASE i # 1
      <4>1. i \in 2 .. n /\ i - 1 \in 1 .. n
        BY <1>1, <2>1, <3>3
      <4>2. StepTo(h[i - 1], r[i], y, h[i][y])
        BY <1>2, <4>1
      <4>3. PICK p \in States :
              /\ h[i][y].path = Append(h[i - 1][p].path, y)
              /\ \/ h[i][y].weight = Onward(h[i - 1], y, r[i], p)
                 \/ h[i][y].weight = m
        BY <1>4, <4>2 DEF StepTo
      <4>4. PICK b, q : b = h[i - 1][p].weight /\ q = h[i - 1][p].path /\ b \in Int
        BY <1>2, <4>1
      <4>5. h[i][y].weight = Further(b, p, y, r[i])
        <5>1. Onward(h[i - 1], y, r[i], p) = Further(b, p, y, r[i])
          BY <4>4 DEF Onward, Further
        <5>2. h[i][y].weight # m
          BY <1>2, <1>4, <2>1, <2>2
        <5> QED  BY <4>3, <5>1, <5>2
      <4>6. ~(b <= m)
        <5>1. h[i][y].weight \in Int
          BY <1>2, <2>1
        <5>2. b <= m => Further(b, p, y, r[i]) <= m
          BY <1>4, <4>4, NoGain
        <5> QED  BY <1>4, <2>2, <4>5, <5>1, <5>2
      <4>7. PathTo(h[i - 1][p], i - 1, p)
        BY <1>5, <4>1
      <4>8. \A k \in 1 .. i - 1 : s[k] = q[k]
        <5>1. q \in Seq(States) /\ Len(q) = i - 1
          BY <4>4, <4>7 DEF PathTo
        <5>2. \A k \in 1 .. i - 1 : Append(q, y)[k] = q[k]
          BY <5>1
        <5>3. \A k \in 1 .. i - 1 : k \in 1 .. i
          BY <2>1
        <5> QED  BY <2>2, <4>3, <4>4, <5>2, <5>3
      <4>9. s[i - 1] = p
        <5>1. q[i - 1] = p
          BY <4>4, <4>7 DEF PathTo
        <5>2. i - 1 \in 1 .. i - 1
          BY <4>1
        <5> QED  BY <4>8, <5>1, <5>2
      <4>10. u[i - 1] = b
        <5>1. Same(i - 1, p)
          BY <1>1, <1>6, <2>1, <4>1
        <5>2. b > m
          BY <1>4, <4>4, <4>6
        <5> QED  BY <4>4, <4>8, <5>1, <5>2
      <4> QED  BY <1>3, <3>1, <4>1, <4>5, <4>9, <4>10
    <3> QED  BY <3>2, <3>3
  <2>3. \A y \in States : Same(i, y)
    BY <2>2
  <2> QED  BY <2>1, <2>3
<1>7. 0 .. n \subseteq G
  <2>1. 0 \in G
    BY <1>1
  <2> HIDE DEF G
  <2> QED  BY <1>1, <1>6, <2>1, Counting
<1>8. \A i \in 1 .. n : \A y \in States : Same(i, y)
  BY <1>1, <1>7
<1> QED  BY <1>1, <1>4, <1>8

(* Numbers with a bound have a greatest. *)
LEMMA Greatest ==
  ASSUME NEW T, T \subseteq Int, T # {}, NEW m \in Int, \A x \in T : x <= m
  PROVE  Max(T) \in T /\ \A x \in T : x <= Max(T)
<1>1. PICK U : U = {m - x : x \in T}
  OBVIOUS
<1>2. U \subseteq Nat /\ U # {}
  <2>1. \A x \in T : m - x \in Nat
    OBVIOUS
  <2> QED  BY <1>1, <2>1
<1>3. PICK z \in U : \A y \in U : z <= y
  BY <1>2, LeastNumber
<1>4. PICK g \in T : z = m - g
  BY <1>1
<1>5. \A x \in T : g >= x
  <2>1. ASSUME NEW x \in T PROVE g >= x
    <3>1. m - g <= m - x
      BY <1>1, <1>3, <1>4
    <3>2. x \in Int /\ g \in Int
      OBVIOUS
    <3> QED  BY <3>1, <3>2
  <2> QED  BY <2>1
<1>6. Max(T) = CHOOSE x \in T : \A y \in T : x >= y
  BY Zenon DEF Max
<1>7. PICK c : c = CHOOSE x \in T : \A y \in T : x >= y
  OBVIOUS
<1>8. c \in T /\ \A y \in T : c >= y
  BY <1>5, <1>7
<1>9. \A x \in T : x <= c
  <2>1. c \in Int /\ \A x \in T : x \in Int
    BY <1>8
  <2> QED  BY <1>8, <2>1
<1> QED  BY <1>6, <1>7, <1>8, <1>9

(* Viterbi's weight and path are the best that end in E or S. *)
LEMMA TextStatesBest ==
  ASSUME NEW R, NEW r \in WordsOf(R)
  PROVE  StatesBest(r)
<1>1. PICK h : ViterbiRun(r, h)
  BY ViterbiRuns
<1>2. PICK n : n = Len(r) /\ n \in Nat \ {0}
  BY <1>1, RunTyped
<1>3. PICK m : m = MinDouble /\ m \in Int
  BY DEF MinDouble
<1>4. PICK v, path : v = Viterbi(r).weight /\ path = Viterbi(r).path
  OBVIOUS
<1>5. PICK Ending : Ending = {t \in [1 .. n -> States] : t[n] \in {E, S}}
  OBVIOUS
<1>6. PICK T : T = {StatesWeight(r, s) : s \in Ending}
  OBVIOUS
<1>7. path \in Ending
  BY <1>2, <1>4, <1>5, ViterbiPath
<1>8. PICK y \in {E, S} : /\ Viterbi(r) = h[n][y] /\ v \in Int
                          /\ h[n][E].weight <= v /\ h[n][S].weight <= v
  <2>1. h[n][E].weight \in Int /\ h[n][S].weight \in Int
    <3>1. n \in 1 .. Len(r) /\ E \in States /\ S \in States
      BY <1>2 DEF E, S, States
    <3> QED  BY <1>1, <3>1, RunTyped
  <2>2. Viterbi(r) = IF h[n][E].weight >= h[n][S].weight THEN h[n][E] ELSE h[n][S]
    BY <1>1, <1>2 DEF ViterbiRun
  <2>3. CASE h[n][E].weight >= h[n][S].weight
    <3>1. Viterbi(r) = h[n][E]
      BY <2>2, <2>3
    <3> QED  BY <1>4, <2>1, <2>3, <3>1
  <2>4. CASE ~(h[n][E].weight >= h[n][S].weight)
    <3>1. Viterbi(r) = h[n][S]
      BY <2>2, <2>4
    <3> QED  BY <1>4, <2>1, <2>4, <3>1
  <2> QED  BY <2>3, <2>4
<1>9. ASSUME NEW s \in Ending
      PROVE  /\ StatesWeight(r, s) \in Int
             /\ StatesWeight(r, s) <= m \/ StatesWeight(r, s) <= v
  <2>1. s \in [1 .. Len(r) -> States] /\ s[n] \in {E, S}
    BY <1>2, <1>5
  <2>2. PICK u : Weighing(r, s, u)
    BY <2>1, Weighed
  <2>3. n \in 1 .. Len(r)
    BY <1>2
  <2>4. StatesWeight(r, s) = u[n] /\ u[n] \in Int
    BY <1>2, <2>2, <2>3 DEF Weighing
  <2>5. u[n] > m => u[n] <= h[n][s[n]].weight
    BY <1>1, <1>3, <2>1, <2>2, <2>3, NoneBetter
  <2>6. h[n][s[n]].weight <= v /\ h[n][s[n]].weight \in Int
    <3>1. h[n][s[n]].weight <= v
      BY <1>8, <2>1
    <3>2. s[n] \in States
      BY <2>1, <2>3
    <3>3. h[n][s[n]].weight \in Int
      BY <1>1, <2>3, <3>2, RunTyped
    <3> QED  BY <3>1, <3>3
  <2> QED  BY <1>3, <1>8, <2>4, <2>5, <2>6
<1>10. ASSUME v > m PROVE StatesWeight(r, path) = v
  <2>1. path \in [1 .. Len(r) -> States]
    BY <1>2, <1>5, <1>7
  <2>2. PICK u : Weighing(r, path, u)
    BY <2>1, Weighed
  <2>3. n \in 1 .. Len(r) /\ y \in States
    BY <1>2 DEF E, S, States
  <2>4. h[n][y].weight > MinDouble /\ \A k \in 1 .. n : path[k] = h[n][y].path[k]
    BY <1>3, <1>4, <1>8, <1>10
  <2>5. u[n] = h[n][y].weight
    BY <1>1, <2>1, <2>2, <2>3, <2>4, PathWeighs
  <2> QED  BY <1>2, <1>4, <1>8, <2>2, <2>5 DEF Weighing
<1>11. PICK b \in Int : /\ \A x \in T : x <= b
                        /\ v > m => b = v
                        /\ ~(v > m) => b = m
  <2>1. \A x \in T : x \in Int /\ (x <= m \/ x <= v)
    BY <1>6, <1>9
  <2>2. CASE v > m
    <3>1. \A x \in T : x <= v
      BY <1>3, <1>8, <2>1, <2>2
    <3> QED  BY <1>8, <2>2, <3>1
  <2>3. CASE ~(v > m)
    <3>1. \A x \in T : x <= m
      BY <1>3, <1>8, <2>1, <2>3
    <3> QED  BY <1>3, <2>3, <3>1
  <2> QED  BY <2>2, <2>3
<1>12. T \subseteq Int /\ T # {}
  BY <1>6, <1>7, <1>9
<1>13. PICK best : best = Max(T) /\ best \in T /\ \A x \in T : x <= best
  BY <1>11, <1>12, Greatest
<1>14. ASSUME best > m PROVE v = best /\ StatesWeight(r, path) = best
  <2>1. best <= b /\ best \in Int
    BY <1>11, <1>12, <1>13
  <2>2. v > m
    BY <1>3, <1>8, <1>11, <1>14, <2>1
  <2>3. StatesWeight(r, path) = v /\ b = v
    BY <1>10, <1>11, <2>2
  <2>4. v \in T
    BY <1>6, <1>7, <2>3
  <2>5. v <= best
    BY <1>13, <2>4
  <2>6. v = best
    BY <1>8, <2>1, <2>3, <2>5
  <2> QED  BY <2>3, <2>6
<1>15. Max({StatesWeight(r, s) : s \in {t \in [1 .. Len(r) -> States] : t[Len(r)] \in {E, S}}}) = best
  BY <1>2, <1>5, <1>6, <1>13
<1> QED  BY <1>3, <1>4, <1>14, <1>15 DEF StatesBest

-----------------------------------------------------------------------------
(* Every text *)

(* What a text is made of. *)
TextTyped == input \in Seq(Runes)

(* A rune more leaves it a text. *)
LEMMA TextsTyped == TextSpec => []TextTyped
<1>1. TextInit => TextTyped
  BY EmptySeq DEF TextInit, TextTyped
<1>2. TextTyped /\ [TextNext]_input => TextTyped'
  <2> SUFFICES ASSUME TextTyped, [TextNext]_input PROVE TextTyped'
    OBVIOUS
  <2>1. CASE TextNext
    <3>1. PICK c \in Runes : input' = Append(input, c)
      BY <2>1 DEF TextNext
    <3> QED  BY <3>1, AppendProperties DEF TextTyped
  <2>2. CASE UNCHANGED input
    BY <2>2 DEF TextTyped
  <2> QED  BY <2>1, <2>2
<1> QED  BY <1>1, <1>2, PTL DEF TextSpec

(* Of no text is a rune lost, repeated or moved by PreFilter and the three *)
(* Cut, and what is indexed or searched for of it is written in it.        *)
THEOREM CutAlwaysKeepsText == TextSpec => []CutKeepsText
<1>1. TextTyped => CutKeepsText
  BY TextKept DEF TextTyped, CutKeepsText
<1> QED  BY <1>1, TextsTyped, PTL

(* The words on one side of a separator are those of a text that has this  *)
(* side alone: neither the heaviest path nor the hidden Markov model nor   *)
(* the added short words reach over PreFilter's cut.                       *)
THEOREM CutAlwaysLocal == TextSpec => []CutIsLocal
<1>1. TextTyped => CutIsLocal
  BY TextIsolated DEF TextTyped, CutIsLocal
<1> QED  BY <1>1, TextsTyped, PTL

(* CalcDP's one pass from the last rune to the first finds a path than     *)
(* which no way to cut the text is heavier.                                *)
THEOREM PathAlwaysHeaviest == TextSpec => []HeaviestPath
<1>1. TextTyped => HeaviestPath
  BY TextHeaviest DEF TextTyped, HeaviestPath
<1> QED  BY <1>1, TextsTyped, PTL

(* Viterbi's one pass from the first rune to the last finds states than    *)
(* which no others that end a word are more probable, unless all of these  *)
(* are as improbable as MIN_DOUBLE.                                        *)
THEOREM StatesAlwaysBest == TextSpec => []BestStates
<1>1. TextTyped => BestStates
  BY TextStatesBest DEF TextTyped, BestStates, WordsOf
<1> QED  BY <1>1, TextsTyped, PTL

-----------------------------------------------------------------------------
(* What is there is found *)

(* A text with something in it has words. *)
LEMMA HasWords ==
  ASSUME NEW R, NEW text \in Seq(R), text # <<>>, Decodes(text)
  PROVE  CutString(text) # <<>>
<1>1. PICK ws, P : ws = PlainCut(text) /\ P = WordsOf(R)
  OBVIOUS
<1>2. PICK G, all : G = WithGramsFrom(P) /\ all = CutString(text)
  OBVIOUS
<1>3. ws \in Seq(P) /\ FlattenSeq(ws) = text /\ all = FlatMap(G, ws)
  BY <1>1, <1>2, Cuts DEF Cutting, CutOf
<1>4. ws # <<>>
  BY <1>3, FlatTyped
<1>5. PICK w, rest : w \in P /\ rest \in Seq(P) /\ ws = Append(rest, w)
  <2>1. PICK n : n = Len(ws) /\ n \in Nat /\ n # 0
    BY <1>3, <1>4, EmptySeq, LenProperties
  <2>2. n - 1 \in 0 .. Len(ws) - 1 /\ (n - 1) + 1 = n
    BY <2>1
  <2>3. /\ SubSeq(ws, 1, n - 1) \in Seq(P) /\ ws[(n - 1) + 1] \in P
        /\ SubSeq(ws, 1, (n - 1) + 1) = Append(SubSeq(ws, 1, n - 1), ws[(n - 1) + 1])
    BY <1>3, <2>2, Grown
  <2>4. SubSeq(ws, 1, n) = ws
    BY <1>3, <2>1, SubSeqFull
  <2> QED  BY <2>2, <2>3, <2>4
<1>6. /\ \A v \in P : WithGrams(v) \in Seq(P)
      /\ G \in [P -> Seq(P)]
  <2>1. ASSUME NEW v \in P PROVE WithGrams(v) \in Seq(P)
    <3>1. WithGrams(v) \in Seq(Parts(R, v))
      BY <1>1, WithGramsParts
    <3>2. Parts(R, v) \subseteq P
      BY <1>1 DEF Parts
    <3> QED  BY <3>1, <3>2, Wider
  <2> QED  BY <1>2, <2>1 DEF WithGramsFrom
<1>7. all = FlatMap(G, rest) \o WithGrams(w)
  <2>1. FlatMaps(G, rest, w)
    BY <1>5, <1>6, FlatMapped
  <2>2. G[w] = WithGrams(w)
    BY <1>2, <1>5 DEF WithGramsFrom
  <2> QED  BY <1>3, <1>5, <2>1, <2>2 DEF FlatMaps
<1>8. WithGrams(w) # <<>>
  <2>1. PICK g : g = Grams(w, 2) \o Grams(w, 3)
    OBVIOUS
  <2>2. g \in Seq(P)
    <3>1. Grams(w, 2) \in Seq(Parts(R, w)) /\ Grams(w, 3) \in Seq(Parts(R, w))
      BY <1>1, <1>5, GramParts
    <3>2. Parts(R, w) \subseteq P
      BY <1>1 DEF Parts
    <3>3. Grams(w, 2) \in Seq(P) /\ Grams(w, 3) \in Seq(P)
      BY <3>1, <3>2, Wider
    <3> QED  BY <2>1, <3>3, ConcatProperties
  <2>3. WithGrams(w) = g \o <<w>>
    BY <2>1 DEF WithGrams
  <2>4. <<w>> \in Seq(P) /\ <<w>> # <<>>
    BY <1>5
  <2> QED  BY <2>2, <2>3, <2>4, ConcatEqualIffEmpty
<1>9. FlatMap(G, rest) \in Seq(P)
  BY <1>5, <1>6, FlatMapped
<1>10. WithGrams(w) \in Seq(P)
  BY <1>5, <1>6
<1> QED  BY <1>2, <1>7, <1>8, <1>9, <1>10, ConcatEqualIffEmpty

(* The words on either side of a separator are words of the whole text. *)
LEMMA SidesFound ==
  ASSUME NEW R, NEW text \in Seq(R), Decodes(text),
         NEW i \in 1 .. Len(text), text[i] \in Separators,
         NEW left, left = SubSeq(text, 1, i - 1),
         NEW right, right = SubSeq(text, i + 1, Len(text))
  PROVE  /\ left \in Seq(R) /\ ToSet(CutString(left)) \subseteq ToSet(CutString(text))
         /\ right \in Seq(R) /\ ToSet(CutString(right)) \subseteq ToSet(CutString(text))
<1>1. PICK c : c = text[i]
  OBVIOUS
<1>2. Around(R, text, left, c, right)
  BY <1>1, SplitAround
<1>3. left \in Seq(R) /\ right \in Seq(R) /\ c \in R
  BY <1>2 DEF Around
<1>4. CutString(text) = CutString(left) \o <<<<c>>>> \o CutString(right)
  <2>1. CutsSplit(text, left, c, right)
    BY <1>2, CutsAround
  <2> QED  BY <2>1, Zenon DEF CutsSplit
<1>5. PICK P, a, b, m : /\ P = WordsOf(R) /\ a = CutString(left) /\ b = CutString(right)
                        /\ m = <<<<c>>>>
  OBVIOUS
<1>6. a \in Seq(P) /\ b \in Seq(P)
  <2>1. a \in Seq(Parts(R, left)) /\ b \in Seq(Parts(R, right))
    BY <1>3, <1>5, Cuts DEF Cutting
  <2>2. Parts(R, left) \subseteq P /\ Parts(R, right) \subseteq P
    BY <1>5 DEF Parts
  <2> QED  BY <2>1, <2>2, Wider
<1>7. m \in Seq(P)
  <2>1. <<c>> \in Seq(R) /\ <<c>> # <<>>
    BY <1>3
  <2>2. <<c>> \in P
    BY <1>5, <2>1 DEF WordsOf
  <2> QED  BY <1>5, <2>2
<1>8. ToSet(a) \subseteq ToSet(a \o m \o b) /\ ToSet(b) \subseteq ToSet(a \o m \o b)
  <2>1. PICK am : am = a \o m
    OBVIOUS
  <2>2. am \in Seq(P) /\ ToSet(am) = ToSet(a) \cup ToSet(m)
    BY <1>6, <1>7, <2>1, Joined
  <2>3. ToSet(am \o b) = ToSet(am) \cup ToSet(b)
    BY <1>6, <2>2, Joined
  <2> QED  BY <2>1, <2>2, <2>3
<1> QED  BY <1>3, <1>4, <1>5, <1>8

(* A text between separators has no words but those of the whole. *)
LEMMA ApartFound ==
  ASSUME NEW R, NEW whole_text \in Seq(R), Decodes(whole_text),
         NEW Q, NEW text \in Seq(Q), text # <<>>, HoldsApart(whole_text, text)
  PROVE  ToSet(CutString(text)) \subseteq ToSet(CutString(whole_text))
<1>1. PICK n, m : n = Len(whole_text) /\ m = Len(text) /\ n \in Nat /\ m \in Nat \ {0}
  BY EmptySeq, LenProperties
<1>2. PICK i \in 1 .. n - m + 1 :
        /\ SubSeq(whole_text, i, i + m - 1) = text
        /\ i = 1 \/ whole_text[i - 1] \in Separators
        /\ i + m - 1 = n \/ whole_text[i + m] \in Separators
  BY <1>1 DEF HoldsApart
<1>3. PICK k : k = i - 1 /\ k \in 0 .. n - m /\ i = k + 1
  BY <1>1, <1>2
<1>4. PICK tail : tail = SubSeq(whole_text, k + 1, n)
  OBVIOUS
<1>5. /\ tail \in Seq(R) /\ Len(tail) = n - k
      /\ ToSet(CutString(tail)) \subseteq ToSet(CutString(whole_text))
  <2>1. tail \in Seq(R) /\ Len(tail) = n - k
    <3>1. k \in 0 .. Len(whole_text)
      BY <1>1, <1>3
    <3> QED  BY <1>1, <1>4, <3>1, CutOff
  <2>2. CASE k = 0
    <3>1. tail = whole_text
      BY <1>1, <1>4, <2>2, SubSeqFull
    <3> QED  BY <2>1, <3>1
  <2>3. CASE k # 0
    <3>1. k \in 1 .. Len(whole_text) /\ whole_text[k] \in Separators
      BY <1>1, <1>2, <1>3, <2>3
    <3>2. PICK left : left = SubSeq(whole_text, 1, k - 1)
      OBVIOUS
    <3>3. tail = SubSeq(whole_text, k + 1, Len(whole_text))
      BY <1>1, <1>4
    <3>4. ToSet(CutString(tail)) \subseteq ToSet(CutString(whole_text))
      BY <3>1, <3>2, <3>3, SidesFound
    <3> QED  BY <2>1, <3>4
  <2> QED  BY <2>2, <2>3
<1>6. \A p \in 1 .. n - k : tail[p] = whole_text[k + p]
  <2>1. ASSUME NEW p \in 1 .. n - k PROVE tail[p] = whole_text[k + p]
    BY <1>1, <1>3, <1>4, <2>1
  <2> QED  BY <2>1
<1>7. Decodes(tail)
  <2>1. ASSUME NEW p \in DOMAIN tail PROVE tail[p] \in Range(whole_text)
    <3>1. p \in 1 .. n - k /\ k + p \in 1 .. n
      BY <1>1, <1>3, <1>5, LenProperties
    <3>2. k + p \in DOMAIN whole_text
      BY <1>1, <3>1, LenProperties
    <3> QED  BY <1>6, <3>1, <3>2 DEF Range
  <2> QED  BY <2>1 DEF Decodes, Range
<1>8. SubSeq(tail, 1, m) = text
  <2>1. 1 \in 1 .. Len(tail) /\ m \in 1 .. Len(tail) /\ k \in Nat /\ k + m <= Len(whole_text)
    BY <1>1, <1>3, <1>5
  <2>2. \A p \in 1 .. m : whole_text[k + p] = tail[p]
    <3>1. \A p \in 1 .. m : p \in 1 .. n - k
      BY <1>1, <1>3
    <3> QED  BY <1>6, <3>1
  <2>3. SubSeq(whole_text, k + 1, k + m) = SubSeq(tail, 1, m)
    BY <1>5, <2>1, <2>2, SamePart
  <2>4. k + 1 = i /\ k + m = i + m - 1
    BY <1>1, <1>3
  <2> QED  BY <1>2, <2>3, <2>4
<1>9. ToSet(CutString(text)) \subseteq ToSet(CutString(tail))
  <2>1. CASE i + m - 1 = n
    <3>1. m = Len(tail)
      BY <1>1, <1>3, <1>5, <2>1
    <3>2. tail = text
      BY <1>5, <1>8, <3>1, SubSeqFull
    <3> QED  BY <3>2
  <2>2. CASE i + m - 1 # n
    <3>0. PICK j : j = m + 1
      OBVIOUS
    <3>1. j \in 1 .. Len(tail) /\ j - 1 = m /\ j \in 1 .. n - k /\ k + j = i + m
      BY <1>1, <1>3, <1>5, <2>2, <3>0
    <3>2. tail[j] \in Separators
      BY <1>2, <1>6, <2>2, <3>1
    <3>3. PICK right : right = SubSeq(tail, j + 1, Len(tail))
      OBVIOUS
    <3>4. text = SubSeq(tail, 1, j - 1)
      BY <1>8, <3>1
    <3>5. tail \in Seq(R) /\ j \in 1 .. Len(tail)
      BY <1>5, <3>1
    <3> QED  BY <1>7, <3>2, <3>3, <3>4, <3>5, SidesFound
  <2> QED  BY <2>1, <2>2
<1> QED  BY <1>5, <1>9

(* Every document that holds a word of the query is in the answer. *)
AnswersAll ==
  asked # <<>> =>
    \A i \in DOMAIN forward : \A j \in DOMAIN Words(asked) :
      Holds(forward[i], Words(asked)[j]) => Finds(forward[i])

(* SetToSeqs leaves none out. *)
LEMMA ListsAll ==
  ASSUME NEW D, IsFiniteSet(D), NEW p \in SetToSeqs(D), NEW x \in D
  PROVE  \E k \in DOMAIN p : p[k] = x
<1> SUFFICES ASSUME \A k \in DOMAIN p : p[k] # x PROVE FALSE
  OBVIOUS
<1>1. PICK c : c = Cardinality(D) /\ c \in Nat
  BY FS_CardinalityType
<1>2. PICK I : I = 1 .. c
  OBVIOUS
<1>3. p \in [I -> D] /\ \A i, j \in I : i # j => p[i] # p[j]
  BY <1>1, <1>2 DEF SetToSeqs
<1>4. p \in [I -> D \ {x}]
  BY <1>3
<1>5. IsFiniteSet(D \ {x}) /\ Cardinality(D \ {x}) = c - 1
  BY <1>1, FS_RemoveElement
<1>6. IsFiniteSet(I) /\ Cardinality(I) = c
  BY <1>1, <1>2, FS_Interval
<1>7. Cardinality(D \ {x}) < Cardinality(I)
  BY <1>1, <1>5, <1>6
<1>8. \E i, j \in I : i # j /\ p[i] = p[j]
  BY <1>4, <1>5, <1>6, <1>7, FS_PigeonHole
<1> QED  BY <1>3, <1>8

(* Search names each of the documents its words hit. *)
LEMMA SearchFinds ==
  ASSUME CutsIntoWords, IInv, TextsServed, NEW query \in Queries, Search(query)
  PROVE  AnswersAll'
<1>1. PICK t, p : /\ t = TokensMap(query) /\ p \in Sorted(t)
                  /\ answer' = [k \in DOMAIN p |-> Elem(p[k], t[p[k]].word)]
  BY DEF Search
<1>2. PICK n, ws, D : /\ n = Len(forward) /\ n \in Nat /\ DOMAIN forward = 1 .. n
                      /\ ws = Words(query) /\ D = DOMAIN ws
  BY LenProperties DEF IInv, Vectors
<1>3. t = Tokens(ws, D) /\ DOMAIN t = HitBySome(ws, D)
  <2>1. t = Tokens(ws, D)
    BY <1>1, <1>2, TokensAre, QueriesAssumption DEF IsText
  <2> QED  BY <2>1 DEF Tokens
<1>4. IsFiniteSet(DOMAIN t) /\ p \in SetToSeqs(DOMAIN t)
  <2>1. DOMAIN t \subseteq 0 .. n - 1
    BY <1>2, <1>3 DEF HitBySome, Hitting
  <2>2. IsFiniteSet(0 .. n - 1)
    BY <1>2, n - 1 \in Int, 0 \in Int, FS_Interval
  <2> QED  BY <1>1, <2>1, <2>2, FS_Subset DEF Sorted
<1>5. ASSUME NEW i \in DOMAIN forward, NEW j \in D, Holds(forward[i], ws[j])
      PROVE  \E k \in DOMAIN answer' : /\ answer'[k].title = forward[i].title
                                       /\ answer'[k].url = forward[i].url
  <2>1. PICK id : id = i - 1 /\ id \in 0 .. n - 1 /\ id + 1 = i
    BY <1>2
  <2>2. id \in DOMAIN t
    BY <1>2, <1>3, <1>5, <2>1 DEF HitBySome, Hitting
  <2>3. PICK k \in DOMAIN p : p[k] = id
    BY <1>4, <2>2, ListsAll
  <2>4. PICK w, hit : w = t[id].word /\ hit = answer'[k]
    OBVIOUS
  <2>5. k \in DOMAIN answer' /\ hit = Elem(id, w)
    BY <1>1, <2>3, <2>4
  <2>6. hit.title = forward[i].title /\ hit.url = forward[i].url
    BY <2>1, <2>5 DEF Elem
  <2> QED  BY <2>4, <2>5, <2>6
<1>6. forward' = forward /\ asked' = query
  BY DEF Search
<1>7. Words(asked') = ws
  BY <1>2, <1>6
<1> QED  BY <1>2, <1>5, <1>6, <1>7 DEF AnswersAll, Finds

(* It stays so while the answer is sent. *)
LEMMA AnswersAllStep ==
  ASSUME CutsIntoWords, IInv, TextsServed, Quiet, AnswersAll, [Next]_vars
  PROVE  AnswersAll'
<1>1. CASE asked' = <<>>
  BY <1>1 DEF AnswersAll
<1>2. CASE asked' = asked /\ answer' = answer /\ forward' = forward
  BY <1>2 DEF AnswersAll, Finds
<1>3. CASE ParserCompletes \/ ParserCutShort
  <2>1. PICK files, n : Parse(files, n)
    BY <1>3 DEF ParserCompletes, ParserCutShort
  <2> QED  BY <1>2, <2>1 DEF Parse, serverVars
<1>4. CASE StartServer \/ IndexLine \/ Listen
  <2>1. pc # "serve" /\ asked' = asked
    BY <1>4 DEF StartServer, IndexLine, Listen
  <2> QED  BY <1>1, <2>1 DEF Quiet
<1>5. CASE StopServer \/ Respond
  BY <1>1, <1>5 DEF StopServer, Respond
<1>6. CASE \E query \in Queries : Search(query)
  BY <1>6, SearchFinds
<1>7. CASE UNCHANGED vars
  BY <1>2, <1>7 DEF vars
<1> QED  BY <1>3, <1>4, <1>5, <1>6, <1>7 DEF Next

(* What is asked is a text. *)
AskedText == asked \in Seq(Range(asked))

(* Queries are, and nothing else is asked. *)
LEMMA QueriesAsked == Spec => []AskedText
<1>1. <<>> \in Seq(Range(<<>>))
  BY EmptySeq
<1>2. Init => AskedText
  BY <1>1 DEF Init, AskedText
<1>3. ASSUME AskedText, [Next]_vars PROVE AskedText'
  <2>1. CASE asked' = <<>>
    BY <1>1, <2>1 DEF AskedText
  <2>2. CASE asked' = asked
    BY <1>3, <2>2 DEF AskedText
  <2>3. CASE ParserCompletes \/ ParserCutShort
    <3>1. PICK files, n : Parse(files, n)
      BY <2>3 DEF ParserCompletes, ParserCutShort
    <3> QED  BY <2>2, <3>1 DEF Parse, serverVars
  <2>4. CASE StartServer \/ IndexLine \/ Listen \/ UNCHANGED vars
    BY <2>2, <2>4 DEF StartServer, IndexLine, Listen, vars
  <2>5. CASE StopServer \/ Respond
    BY <2>1, <2>5 DEF StopServer, Respond
  <2>6. CASE \E query \in Queries : Search(query)
    BY <2>6, QueriesAssumption DEF Search, AskedText
  <2> QED  BY <1>3, <2>3, <2>4, <2>5, <2>6 DEF Next
<1> QED  BY <1>2, <1>3, PTL DEF Spec

(* JiebaUtil::CutString cuts a text as Tokenizer says. *)
CutsAsTokenizer == \A C : \A text \in Seq(C) : Cut(text) = CutString(text)

(* The tokenizer cuts texts as the proofs about the engine assume of Cut:  *)
(* into a sequence of words, each a piece of the text and not empty. What  *)
(* they prove for any way to cut holds of the two together.                *)
THEOREM TokenizerCutsIntoPieces ==
  CutsAsTokenizer => CutsIntoWords /\ CutsIntoPieces
<1> SUFFICES ASSUME CutsAsTokenizer, NEW C, NEW text \in Seq(C)
             PROVE  /\ \E k \in Nat : DOMAIN Cut(text) = 1 .. k
                    /\ \A w \in Range(Cut(text)) :
                         \E i, j \in 1 .. Len(text) : i <= j /\ w = SubSeq(text, i, j)
  BY Zenon DEF CutsIntoWords, CutsIntoPieces
<1>1. Cut(text) = CutString(text)
  BY Zenon DEF CutsAsTokenizer
<1>2. WordsInText(text)
  BY TextKept
<1>3. CutString(text) \in Seq(Parts(C, text))
  BY Cuts DEF Cutting
<1>4. \E k \in Nat : DOMAIN Cut(text) = 1 .. k
  BY <1>1, <1>3, LenProperties
<1> QED  BY <1>1, <1>2, <1>4, Zenon DEF WordsInText

(* The engine with the tokenizer answers as the reading of every document  *)
(* would, and every hit has its excerpt: nothing is left to ask of Cut.    *)
THEOREM TokenizerServesEngine ==
  CutsAsTokenizer => (Spec => ImplementsScan /\ []HitsHaveExcerpts)
BY TokenizerCutsIntoPieces, SearchIsScan, HitsAlwaysHaveExcerpts

(* A document that holds the query between separators is in the answer,    *)
(* whatever is written around it: the words of a query are found where     *)
(* they are written (CutString and to_lower, of documents when they are    *)
(* indexed and of queries in Search).                                      *)
THEOREM FindsAlwaysWhatIsThere ==
  CutsAsTokenizer => (Spec => []FindsWhatIsThere)
<1> SUFFICES ASSUME CutsAsTokenizer PROVE Spec => []FindsWhatIsThere
  OBVIOUS
<1>1. Init => AnswersAll
  BY DEF Init, AnswersAll
<1>2. IInv /\ TextsServed /\ Quiet /\ AnswersAll /\ [Next]_vars => AnswersAll'
  BY AnswersAllStep, TokenizerCutsIntoPieces
<1>3. TextsServed /\ Quiet /\ AskedText /\ AnswersAll => FindsWhatIsThere
  <2> SUFFICES ASSUME TextsServed, Quiet, AskedText, AnswersAll,
                      asked # <<>>, Decodes(asked), NEW i \in DOMAIN forward,
                      Decodes(forward[i].content), HoldsApart(forward[i].content, asked)
               PROVE  Finds(forward[i])
    BY Zenon DEF FindsWhatIsThere
  <2>1. PICK C, content : C = Range(forward[i].content) /\ content = forward[i].content
    OBVIOUS
  <2>2. content \in Seq(C)
    BY <2>1 DEF TextsServed, AreTexts, IsText
  <2>3. PICK Q, query : Q = Range(asked) /\ query = asked /\ query \in Seq(Q)
    BY DEF AskedText
  <2>4. /\ ToSet(CutString(query)) \subseteq ToSet(CutString(content))
        /\ CutString(query) # <<>>
    BY <2>1, <2>2, <2>3, ApartFound, HasWords
  <2>5. Cut(query) = CutString(query) /\ Cut(content) = CutString(content)
    BY <2>2, <2>3, Zenon DEF CutsAsTokenizer
  <2>6. PICK j \in DOMAIN Cut(query) : TRUE
    <3>1. CutString(query) \in Seq(Parts(Q, query))
      BY <2>3, Cuts DEF Cutting
    <3>2. ToSet(CutString(query)) # {}
      BY <2>4, <3>1, EmptyList
    <3> QED  BY <2>5, <3>2 DEF ToSet
  <2>7. PICK l \in DOMAIN Cut(content) : Cut(content)[l] = Cut(query)[j]
    <3>1. Cut(query)[j] \in ToSet(Cut(query))
      BY DEF ToSet
    <3>2. Cut(query)[j] \in ToSet(Cut(content))
      BY <2>4, <2>5, <3>1
    <3> QED  BY <3>2 DEF ToSet
  <2>8. PICK v : v = Cut(query)[j]
    OBVIOUS
  <2>9. j \in DOMAIN Words(query) /\ Words(query)[j] = Lower(v)
    BY <2>8 DEF Words
  <2>10. l \in DOMAIN Words(content) /\ Words(content)[l] = Lower(v)
    BY <2>7, <2>8 DEF Words
  <2>11. Holds(forward[i], Lower(v))
    BY <2>1, <2>10 DEF Holds, Range
  <2> QED  BY <2>3, <2>9, <2>11 DEF AnswersAll
<1> QED  BY <1>1, <1>2, <1>3, Invariance, AskedWhenServing, TextsAlways,
            QueriesAsked, PTL DEF Spec
=============================================================================
