------------------------------ MODULE Tokenizer ------------------------------
(* How cppjieba cuts a text into the words that are indexed and searched    *)
(* for: JiebaUtil::CutString = Jieba::CutForSearch = QuerySegment::Cut.     *)
(* A text is a sequence of runes. A piece between separators is cut by the  *)
(* heaviest path through the words of the dictionary (MPSegment); the runs  *)
(* of single runes this leaves are cut again by rules for ASCII and by a    *)
(* hidden Markov model for the rest (HMMSegment); QuerySegment then adds    *)
(* the short dictionary words inside each long one.                         *)
EXTENDS Integers, Sequences, SequencesExt, FiniteSetsExt

CONSTANTS
  Letters, Digits, Dot,  \* the ASCII runes the rules of HMMSegment name
  OtherAscii,            \* the ASCII runes they do not, separators among them
  Separators,            \* SPECIAL_SEPARATORS
  Undecodable,           \* a byte DecodeUTF8ToRune refuses
  Dict,                  \* word -> weight: the dictionary's log frequencies
  MinWeight,             \* the least of them
  UserSingles,           \* the one-rune words of the user dictionary
  MaxWordLength,         \* MAX_WORD_LENGTH
  StartProb, TransProb,  \* HMMModel: state -> weight, state -> state -> weight
  EmitProb               \* HMMModel: state -> (rune -> weight), partial

(* Weights are logarithms of frequencies, in whole numbers here. *)
ASSUME DictAssumption ==
  MinWeight \in Int /\ \A w \in DOMAIN Dict : Dict[w] \in Int

Ascii == Letters \cup Digits \cup {Dot} \cup OtherAscii

(* The end of the longest run of runes of S that starts behind i in r.      *)
LastOfRun(r, i, S) ==
  Max({j \in i .. Len(r) : \A k \in i + 1 .. j : r[k] \in S})

\* Wrong form: no piece ends at a separator.
PieceEndPastAll(text, i) == Len(text)

(* PreFilter: a separator is a piece of its own, and so is what lies        *)
(* between two of them.                                                     *)
PieceEnd(text, i) ==
  IF text[i] \in Separators THEN i
                            ELSE LastOfRun(text, i, Range(text) \ Separators)
Pieces(text) ==
  LET From[i \in 1 .. Len(text) + 1] ==
        IF i > Len(text) THEN <<>>
        ELSE LET j == PieceEnd(text, i)
             IN <<SubSeq(text, i, j)>> \o From[j + 1]
  IN From[1]

-----------------------------------------------------------------------------
(* MPSegment: the heaviest path. *)

(* Trie::Find: the rune at i, and every dictionary word that starts there.  *)
Nexts(r, i) ==
  {i} \cup {j \in i + 1 .. Len(r) : /\ j - i + 1 <= MaxWordLength
                                    /\ SubSeq(r, i, j) \in DOMAIN Dict}
WordWeight(w) == IF w \in DOMAIN Dict THEN Dict[w] ELSE MinWeight

\* Wrong form: the weight of what follows a word is left out.
BestFromWordAlone(r) ==
  LET Best[i \in 1 .. Len(r) + 1] ==
        IF i > Len(r) THEN [weight |-> 0, words |-> <<>>]
        ELSE LET Via(j) == WordWeight(SubSeq(r, i, j))
                 end == CHOOSE j \in Nexts(r, i) :
                          \A k \in Nexts(r, i) : Via(j) >= Via(k)
             IN [weight |-> Via(end) + Best[end + 1].weight,
                 words  |-> <<SubSeq(r, i, end)>> \o Best[end + 1].words]
  IN Best[1]

(* CalcDP, from the last rune to the first: the weight of the best path     *)
(* from each position, the first word of it being the shortest of the best. *)
BestFrom(r) ==
  LET Best[i \in 1 .. Len(r) + 1] ==
        IF i > Len(r) THEN [weight |-> 0, words |-> <<>>]
        ELSE LET Via(j) == Best[j + 1].weight + WordWeight(SubSeq(r, i, j))
                 top == Max({Via(j) : j \in Nexts(r, i)})
                 end == Min({j \in Nexts(r, i) : Via(j) = top})
             IN [weight |-> top,
                 words  |-> <<SubSeq(r, i, end)>> \o Best[end + 1].words]
  IN Best[1]
MPCut(r) == BestFrom(r).words

-----------------------------------------------------------------------------
(* HMMSegment. The states are B, E, M, S of HMMModel; a cut is made behind  *)
(* the odd ones. MIN_DOUBLE is so far below every weight that adding one to *)
(* it leaves it as it is: a sum of them is a multiple of MIN_DOUBLE.        *)
States == 0 .. 3
E == 1
S == 3
MinDouble == -10000

(* Logarithms of probabilities. *)
ASSUME ModelAssumption ==
  \A y \in States :
    /\ StartProb[y] \in Int
    /\ \A p \in States : TransProb[p][y] \in Int /\ TransProb[p][y] <= 0
    /\ \A c \in DOMAIN EmitProb[y] : EmitProb[y][c] \in Int /\ EmitProb[y][c] <= 0

Absorb(v) == IF v > MinDouble \div 2 THEN v
             ELSE MinDouble * (((-MinDouble \div 2) - v) \div (-MinDouble))
GetEmitProb(y, rune) ==
  IF rune \in DOMAIN EmitProb[y] THEN EmitProb[y][rune] ELSE MinDouble

\* Wrong form: the predecessor is chosen by its own weight alone.
ViterbiStepGreedy(column, rune) ==
  LET from == CHOOSE p \in States :
                \A q \in States : column[p].weight >= column[q].weight
  IN [y \in States |->
       [weight |-> Absorb(column[from].weight + TransProb[from][y]
                            + GetEmitProb(y, rune)),
        path |-> Append(column[from].path, y)]]

(* One column of Viterbi: for each state the best predecessor, the first of *)
(* them when several are, and E when none is above MIN_DOUBLE.              *)
ViterbiStep(column, rune) ==
  [y \in States |->
    LET Via(p) == Absorb(column[p].weight + TransProb[p][y]
                           + GetEmitProb(y, rune))
        top == Max({Via(p) : p \in States})
        from == IF top > MinDouble THEN Min({p \in States : Via(p) = top})
                                   ELSE E
    IN [weight |-> IF top > MinDouble THEN top ELSE MinDouble,
        path |-> Append(column[from].path, y)]]
Viterbi(r) ==
  LET first == [y \in States |->
                  [weight |-> Absorb(StartProb[y] + GetEmitProb(y, r[1])),
                   path |-> <<y>>]]
      last == FoldLeft(ViterbiStep, first, Tail(r))
  IN IF last[E].weight >= last[S].weight THEN last[E] ELSE last[S]

(* A word ends at each place of a set; what follows the last is dropped.    *)
CutBehind(r, ends) ==
  LET From[i \in 1 .. Len(r) + 1] ==
        IF ends \cap i .. Len(r) = {} THEN <<>>
        ELSE LET j == Min(ends \cap i .. Len(r))
             IN <<SubSeq(r, i, j)>> \o From[j + 1]
  IN From[1]

\* Wrong form: a word ends at an E only.
InternalCutAtE(r) ==
  LET status == Viterbi(r).path
  IN CutBehind(r, {i \in 1 .. Len(r) : status[i] = E})

(* InternalCut: a word ends at each odd state, E or S. *)
InternalCut(r) ==
  LET status == Viterbi(r).path
  IN CutBehind(r, {i \in 1 .. Len(r) : status[i] % 2 = 1})

(* SequentialLetterRule, NumbersRule, or the rune alone. *)
AsciiEnd(r, i) ==
  CASE r[i] \in Letters -> LastOfRun(r, i, Letters \cup Digits)
    [] r[i] \in Digits  -> LastOfRun(r, i, Digits \cup {Dot})
    [] OTHER            -> i

HMMCut(r) ==
  LET From[i \in 1 .. Len(r) + 1] ==
        IF i > Len(r) THEN <<>>
        ELSE IF r[i] \in Ascii
        THEN <<SubSeq(r, i, AsciiEnd(r, i))>> \o From[AsciiEnd(r, i) + 1]
        ELSE LET j == LastOfRun(r, i, Range(r) \ Ascii)
             IN InternalCut(SubSeq(r, i, j)) \o From[j + 1]
  IN From[1]

-----------------------------------------------------------------------------
(* MixSegment: a word of the heaviest path stands; a run of single runes    *)
(* that the user dictionary does not name is cut again by the HMM.          *)
Loose(w) == Len(w) = 1 /\ w[1] \notin UserSingles
MixCut(r) ==
  LET ws == MPCut(r)
      From[k \in 1 .. Len(ws) + 1] ==
        IF k > Len(ws) THEN <<>>
        ELSE IF ~Loose(ws[k]) THEN <<ws[k]>> \o From[k + 1]
        ELSE LET j == LastOfRun(ws, k, {w \in Range(ws) : Loose(w)})
             IN HMMCut(FlattenSeq(SubSeq(ws, k, j))) \o From[j + 1]
  IN From[1]

(* QuerySegment: the dictionary's words of two runes inside a word of more, *)
(* those of three inside a word of more than three, then the word itself.   *)
Grams(w, n) ==
  IF Len(w) <= n THEN <<>>
  ELSE LET At(i) == SubSeq(w, i, i + n - 1)
       IN FlattenSeq([i \in 1 .. Len(w) - n + 1 |->
                        IF At(i) \in DOMAIN Dict THEN <<At(i)>> ELSE <<>>])
WithGrams(w) == Grams(w, 2) \o Grams(w, 3) \o <<w>>

(* A text that does not decode has no words at all. *)
Decodes(text) == Undecodable \notin Range(text)
PlainCut(text) ==
  LET pieces == Pieces(text)
  IN IF Decodes(text) THEN FlattenSeq([k \in DOMAIN pieces |-> MixCut(pieces[k])])
                      ELSE <<>>
CutString(text) ==
  LET ws == PlainCut(text)
  IN FlattenSeq([k \in DOMAIN ws |-> WithGrams(ws[k])])

-----------------------------------------------------------------------------
(* What a cut must be. *)

(* No rune of the text is lost, repeated or moved. *)
CutCovers(text) == Decodes(text) => FlattenSeq(PlainCut(text)) = text

(* Every word searched for is a piece of the text. *)
WordsInText(text) ==
  \A w \in Range(CutString(text)) :
    \E i, j \in 1 .. Len(text) : i <= j /\ w = SubSeq(text, i, j)

(* The words on one side of a separator do not depend on the other side.    *)
SeparatorsIsolate(text) ==
  \A i \in 1 .. Len(text) :
    (Decodes(text) /\ text[i] \in Separators) =>
      CutString(text) = CutString(SubSeq(text, 1, i - 1)) \o <<<<text[i]>>>>
                          \o CutString(SubSeq(text, i + 1, Len(text)))

(* All ways to cut r into single runes and dictionary words, by the places  *)
(* a cut is made at, and the weight of one.                                 *)
Cuttings(r) ==
  {ends \in SUBSET (1 .. Len(r)) :
     /\ Len(r) \in ends
     /\ \A j \in ends :
          j \in Nexts(r, Max({0} \cup {k \in ends : k < j}) + 1)}
CuttingWeight(r, ends) ==
  MapThenSumSet(LAMBDA j : WordWeight(SubSeq(r,
                  Max({0} \cup {k \in ends : k < j}) + 1, j)), ends)

(* The path CalcDP finds is as heavy as any. *)
PathHeaviest(r) ==
  r # <<>> => BestFrom(r).weight = Max({CuttingWeight(r, c) : c \in Cuttings(r)})

(* The weight of a sequence of states for r, and: Viterbi's is the best of  *)
(* those that end in E or S, when one of these is possible at all.          *)
StatesWeight(r, s) ==
  LET Upto[i \in 1 .. Len(r)] ==
        IF i = 1 THEN Absorb(StartProb[s[1]] + GetEmitProb(s[1], r[1]))
        ELSE Absorb(Upto[i - 1] + TransProb[s[i - 1]][s[i]]
                      + GetEmitProb(s[i], r[i]))
  IN Upto[Len(r)]
StatesBest(r) ==
  LET best == Max({StatesWeight(r, s) :
                     s \in {t \in [1 .. Len(r) -> States] :
                              t[Len(r)] \in {E, S}}})
  IN best > MinDouble =>
       /\ Viterbi(r).weight = best
       /\ StatesWeight(r, Viterbi(r).path) = best
=============================================================================
