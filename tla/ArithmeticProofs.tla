-------------------------- MODULE ArithmeticProofs --------------------------
(***************************************************************************)
(* What the walk of MCArithmetic looks at number by number, proved for all *)
(* numbers: the sizes of the pool with the code's own constants and for    *)
(* any width of size_t that holds them, places in the page maps for any    *)
(* lengths of their arrays, excerpts for any steps.  Bounds are            *)
(* inequalities here: the provers take an interval between numerals        *)
(* element by element.                                                     *)
(***************************************************************************)
EXTENDS MCArithmetic, WellFoundedInduction, TLAPS

-----------------------------------------------------------------------------
(* SizeClass *)

(* The sizes a thread cache serves, as inequalities. *)
LEMMA SizesAre ==
  /\ MAX_BYTES = 262144
  /\ \A b \in Sizes : b \in Nat /\ 1 <= b /\ b <= MAX_BYTES
  /\ \A b \in Nat : 1 <= b /\ b <= MAX_BYTES => b \in Sizes
<1>1. MAX_BYTES = 262144
  BY DEF MAX_BYTES
<1>2. MAX_BYTES \in Nat
  BY <1>1
<1>3. /\ \A b \in Sizes : b \in Nat /\ 1 <= b /\ b <= MAX_BYTES
      /\ \A b \in Nat : 1 <= b /\ b <= MAX_BYTES => b \in Sizes
  BY <1>2 DEF Sizes
<1> QED  BY <1>1, <1>3

(* What fits its word does not wrap. *)
LEMMA NoWrap ==
  ASSUME NEW x \in Nat, x <= 2 * MAX_BYTES
  PROVE  x % Word = x
<1>1. Word \in Nat /\ x < Word
  BY WordAssumption, SizesAre
<1> QED  BY <1>1

(* Where a tier begins and ends. *)
LEMMA TierBounds ==
  ASSUME NEW b \in Sizes
  PROVE  /\ Tier(b) \in 1 .. 5
         /\ Tier(b) = 1 <=> 0 < b /\ b <= 128
         /\ Tier(b) = 2 <=> 128 < b /\ b <= 1024
         /\ Tier(b) = 3 <=> 1024 < b /\ b <= 8192
         /\ Tier(b) = 4 <=> 8192 < b /\ b <= 65536
         /\ Tier(b) = 5 <=> 65536 < b /\ b <= 262144
BY SizesAre DEF Tier

(* Tier 1: multiples of 8. *)
LEMMA Tier1 ==
  ASSUME NEW b \in Sizes, Tier(b) = 1
  PROVE  /\ RoundUp(b) = 8 * ((b + 7) \div 8)
         /\ Index(b) = (b - 0 + 7) \div 8 - 1 + 0
<1>1. b \in Nat /\ 0 < b /\ b <= 128
  BY TierBounds, SizesAre
<1>2. (b + 7) % Word = b + 7
  BY <1>1, NoWrap, SizesAre
<1>3. RoundUp(b) = (b + 7) - ((b + 7) % 8)
  BY <1>1, <1>2 DEF RoundUp, RoundTo, Align
<1>4. Index(b) = (((b - 0 + 7) \div 8 - 1) % Word) + 0
  BY <1>1 DEF Index, IndexIn, Align, Below, First
<1>5. (b - 0 + 7) \div 8 - 1 \in Nat /\ (b - 0 + 7) \div 8 - 1 <= 2 * MAX_BYTES
  BY <1>1, SizesAre
<1>6. ((b - 0 + 7) \div 8 - 1) % Word = (b - 0 + 7) \div 8 - 1
  BY <1>5, NoWrap
<1> QED  BY <1>1, <1>3, <1>4, <1>6

(* Tier 2: multiples of 16. *)
LEMMA Tier2 ==
  ASSUME NEW b \in Sizes, Tier(b) = 2
  PROVE  /\ RoundUp(b) = 16 * ((b + 15) \div 16)
         /\ Index(b) = (b - 128 + 15) \div 16 - 1 + 16
<1>1. b \in Nat /\ 128 < b /\ b <= 1024
  BY TierBounds, SizesAre
<1>2. (b + 15) % Word = b + 15
  BY <1>1, NoWrap, SizesAre
<1>3. RoundUp(b) = (b + 15) - ((b + 15) % 16)
  BY <1>1, <1>2 DEF RoundUp, RoundTo, Align
<1>4. Index(b) = (((b - 128 + 15) \div 16 - 1) % Word) + 16
  BY <1>1 DEF Index, IndexIn, Align, Below, First
<1>5. (b - 128 + 15) \div 16 - 1 \in Nat /\ (b - 128 + 15) \div 16 - 1 <= 2 * MAX_BYTES
  BY <1>1, SizesAre
<1>6. ((b - 128 + 15) \div 16 - 1) % Word = (b - 128 + 15) \div 16 - 1
  BY <1>5, NoWrap
<1> QED  BY <1>1, <1>3, <1>4, <1>6

(* Tier 3: multiples of 128. *)
LEMMA Tier3 ==
  ASSUME NEW b \in Sizes, Tier(b) = 3
  PROVE  /\ RoundUp(b) = 128 * ((b + 127) \div 128)
         /\ Index(b) = (b - 1024 + 127) \div 128 - 1 + 72
<1>1. b \in Nat /\ 1024 < b /\ b <= 8192
  BY TierBounds, SizesAre
<1>2. (b + 127) % Word = b + 127
  BY <1>1, NoWrap, SizesAre
<1>3. RoundUp(b) = (b + 127) - ((b + 127) % 128)
  BY <1>1, <1>2 DEF RoundUp, RoundTo, Align
<1>4. Index(b) = (((b - 1024 + 127) \div 128 - 1) % Word) + 72
  BY <1>1 DEF Index, IndexIn, Align, Below, First
<1>5. (b - 1024 + 127) \div 128 - 1 \in Nat /\ (b - 1024 + 127) \div 128 - 1 <= 2 * MAX_BYTES
  BY <1>1, SizesAre
<1>6. ((b - 1024 + 127) \div 128 - 1) % Word = (b - 1024 + 127) \div 128 - 1
  BY <1>5, NoWrap
<1> QED  BY <1>1, <1>3, <1>4, <1>6

(* Tier 4: multiples of 1024. *)
LEMMA Tier4 ==
  ASSUME NEW b \in Sizes, Tier(b) = 4
  PROVE  /\ RoundUp(b) = 1024 * ((b + 1023) \div 1024)
         /\ Index(b) = (b - 8192 + 1023) \div 1024 - 1 + 128
<1>1. b \in Nat /\ 8192 < b /\ b <= 65536
  BY TierBounds, SizesAre
<1>2. (b + 1023) % Word = b + 1023
  BY <1>1, NoWrap, SizesAre
<1>3. RoundUp(b) = (b + 1023) - ((b + 1023) % 1024)
  BY <1>1, <1>2 DEF RoundUp, RoundTo, Align
<1>4. Index(b) = (((b - 8192 + 1023) \div 1024 - 1) % Word) + 128
  BY <1>1 DEF Index, IndexIn, Align, Below, First
<1>5. (b - 8192 + 1023) \div 1024 - 1 \in Nat /\ (b - 8192 + 1023) \div 1024 - 1 <= 2 * MAX_BYTES
  BY <1>1, SizesAre
<1>6. ((b - 8192 + 1023) \div 1024 - 1) % Word = (b - 8192 + 1023) \div 1024 - 1
  BY <1>5, NoWrap
<1> QED  BY <1>1, <1>3, <1>4, <1>6

(* Tier 5: multiples of 8192. *)
LEMMA Tier5 ==
  ASSUME NEW b \in Sizes, Tier(b) = 5
  PROVE  /\ RoundUp(b) = 8192 * ((b + 8191) \div 8192)
         /\ Index(b) = (b - 65536 + 8191) \div 8192 - 1 + 184
<1>1. b \in Nat /\ 65536 < b /\ b <= 262144
  BY TierBounds, SizesAre
<1>2. (b + 8191) % Word = b + 8191
  BY <1>1, NoWrap, SizesAre
<1>3. RoundUp(b) = (b + 8191) - ((b + 8191) % 8192)
  BY <1>1, <1>2 DEF RoundUp, RoundTo, Align
<1>4. Index(b) = (((b - 65536 + 8191) \div 8192 - 1) % Word) + 184
  BY <1>1 DEF Index, IndexIn, Align, Below, First
<1>5. (b - 65536 + 8191) \div 8192 - 1 \in Nat /\ (b - 65536 + 8191) \div 8192 - 1 <= 2 * MAX_BYTES
  BY <1>1, SizesAre
<1>6. ((b - 65536 + 8191) \div 8192 - 1) % Word = (b - 65536 + 8191) \div 8192 - 1
  BY <1>5, NoWrap
<1> QED  BY <1>1, <1>3, <1>4, <1>6

(* Rounding leaves a size in its tier. *)
LEMMA RoundedSize ==
  ASSUME NEW b \in Sizes
  PROVE  /\ RoundUp(b) \in Sizes
         /\ RoundUp(b) \in Nat \ {0} /\ RoundUp(b) <= MAX_BYTES
         /\ Tier(RoundUp(b)) = Tier(b)
<1>1. b \in Nat /\ 1 <= b /\ b <= 262144
  BY SizesAre
<1>2. CASE Tier(b) = 1
  <2>1. /\ RoundUp(b) = 8 * ((b + 7) \div 8)
        /\ 0 < b /\ b <= 128
    BY <1>2, Tier1, TierBounds
  <2>2. RoundUp(b) \in Nat /\ 0 < RoundUp(b) /\ RoundUp(b) <= 128
    BY <1>1, <2>1
  <2>3. RoundUp(b) \in Sizes /\ Tier(RoundUp(b)) = 1
    BY <2>2, SizesAre, TierBounds
  <2> QED  BY <1>2, <2>2, <2>3, SizesAre
<1>3. CASE Tier(b) = 2
  <2>1. /\ RoundUp(b) = 16 * ((b + 15) \div 16)
        /\ 128 < b /\ b <= 1024
    BY <1>3, Tier2, TierBounds
  <2>2. RoundUp(b) \in Nat /\ 128 < RoundUp(b) /\ RoundUp(b) <= 1024
    BY <1>1, <2>1
  <2>3. RoundUp(b) \in Sizes /\ Tier(RoundUp(b)) = 2
    BY <2>2, SizesAre, TierBounds
  <2> QED  BY <1>3, <2>2, <2>3, SizesAre
<1>4. CASE Tier(b) = 3
  <2>1. /\ RoundUp(b) = 128 * ((b + 127) \div 128)
        /\ 1024 < b /\ b <= 8192
    BY <1>4, Tier3, TierBounds
  <2>2. RoundUp(b) \in Nat /\ 1024 < RoundUp(b) /\ RoundUp(b) <= 8192
    BY <1>1, <2>1
  <2>3. RoundUp(b) \in Sizes /\ Tier(RoundUp(b)) = 3
    BY <2>2, SizesAre, TierBounds
  <2> QED  BY <1>4, <2>2, <2>3, SizesAre
<1>5. CASE Tier(b) = 4
  <2>1. /\ RoundUp(b) = 1024 * ((b + 1023) \div 1024)
        /\ 8192 < b /\ b <= 65536
    BY <1>5, Tier4, TierBounds
  <2>2. RoundUp(b) \in Nat /\ 8192 < RoundUp(b) /\ RoundUp(b) <= 65536
    BY <1>1, <2>1
  <2>3. RoundUp(b) \in Sizes /\ Tier(RoundUp(b)) = 4
    BY <2>2, SizesAre, TierBounds
  <2> QED  BY <1>5, <2>2, <2>3, SizesAre
<1>6. CASE Tier(b) = 5
  <2>1. /\ RoundUp(b) = 8192 * ((b + 8191) \div 8192)
        /\ 65536 < b /\ b <= 262144
    BY <1>6, Tier5, TierBounds
  <2>2. RoundUp(b) \in Nat /\ 65536 < RoundUp(b) /\ RoundUp(b) <= 262144
    BY <1>1, <2>1
  <2>3. RoundUp(b) \in Sizes /\ Tier(RoundUp(b)) = 5
    BY <2>2, SizesAre, TierBounds
  <2> QED  BY <1>6, <2>2, <2>3, SizesAre
<1> QED  BY <1>2, <1>3, <1>4, <1>5, <1>6, TierBounds

(* An object is put back on the list it was taken from. *)
THEOREM SameListEverySize == \A b \in Sizes : SameList(b)
<1> SUFFICES ASSUME NEW b \in Sizes PROVE SameList(b)
  OBVIOUS
<1>1. b \in Nat /\ 1 <= b /\ b <= 262144
  BY SizesAre
<1>2. /\ RoundUp(b) \in Sizes /\ RoundUp(b) \in Nat
      /\ Tier(RoundUp(b)) = Tier(b)
  BY RoundedSize
<1>3. CASE Tier(b) = 1
  BY <1>1, <1>2, <1>3, Tier1 DEF SameList
<1>4. CASE Tier(b) = 2
  BY <1>1, <1>2, <1>4, Tier2 DEF SameList
<1>5. CASE Tier(b) = 3
  BY <1>1, <1>2, <1>5, Tier3 DEF SameList
<1>6. CASE Tier(b) = 4
  BY <1>1, <1>2, <1>6, Tier4 DEF SameList
<1>7. CASE Tier(b) = 5
  BY <1>1, <1>2, <1>7, Tier5 DEF SameList
<1> QED  BY <1>3, <1>4, <1>5, <1>6, <1>7, TierBounds

(* The array of lists is long enough for every size. *)
THEOREM ListExistsEverySize == \A b \in Sizes : ListExists(b)
<1> SUFFICES ASSUME NEW b \in Sizes
             PROVE  Index(b) \in Int /\ 0 <= Index(b) /\ Index(b) <= 207
  BY DEF ListExists, NFREELISTS
<1>1. b \in Nat /\ 1 <= b /\ b <= 262144
  BY SizesAre
<1> QED  BY <1>1, TierBounds, Tier1, Tier2, Tier3, Tier4, Tier5

(* Nobody gets less than asked for, and rounding wastes less than 1/9. *)
THEOREM LittleWasteEverySize == \A b \in Sizes : LittleWaste(b)
<1> SUFFICES ASSUME NEW b \in Sizes PROVE LittleWaste(b)
  OBVIOUS
<1>1. b \in Nat /\ 1 <= b /\ b <= 262144
  BY SizesAre
<1> QED  BY <1>1, TierBounds, Tier1, Tier2, Tier3, Tier4, Tier5 DEF LittleWaste

(* A list and its size determine each other. *)
LEMMA ListSize ==
  ASSUME NEW b \in Sizes
  PROVE  /\ Index(b) \in Int /\ RoundUp(b) \in Int
         /\ Tier(b) = 1 => /\ 0 <= Index(b) /\ Index(b) <= 15
                           /\ RoundUp(b) = 8 + 8 * (Index(b) - 0)
         /\ Tier(b) = 2 => /\ 16 <= Index(b) /\ Index(b) <= 71
                           /\ RoundUp(b) = 144 + 16 * (Index(b) - 16)
         /\ Tier(b) = 3 => /\ 72 <= Index(b) /\ Index(b) <= 127
                           /\ RoundUp(b) = 1152 + 128 * (Index(b) - 72)
         /\ Tier(b) = 4 => /\ 128 <= Index(b) /\ Index(b) <= 183
                           /\ RoundUp(b) = 9216 + 1024 * (Index(b) - 128)
         /\ Tier(b) = 5 => /\ 184 <= Index(b) /\ Index(b) <= 207
                           /\ RoundUp(b) = 73728 + 8192 * (Index(b) - 184)
<1>1. b \in Nat /\ 1 <= b /\ b <= 262144
  BY SizesAre
<1>2. CASE Tier(b) = 1
  <2>1. 0 < b /\ b <= 128
    BY <1>2, TierBounds
  <2>2. (b + 7) \div 8 = (b - 0 + 7) \div 8 + 0
    BY <1>1, <2>1
  <2>3. /\ RoundUp(b) = 8 * ((b + 7) \div 8)
        /\ Index(b) = (b - 0 + 7) \div 8 - 1 + 0
    BY <1>2, Tier1
  <2>4. /\ Index(b) \in Int /\ RoundUp(b) \in Int
        /\ 0 <= Index(b) /\ Index(b) <= 15
        /\ RoundUp(b) = 8 + 8 * (Index(b) - 0)
    BY <1>1, <2>1, <2>2, <2>3
  <2> QED  BY <1>2, <2>4
<1>3. CASE Tier(b) = 2
  <2>1. 128 < b /\ b <= 1024
    BY <1>3, TierBounds
  <2>2. (b + 15) \div 16 = (b - 128 + 15) \div 16 + 8
    BY <1>1, <2>1
  <2>3. /\ RoundUp(b) = 16 * ((b + 15) \div 16)
        /\ Index(b) = (b - 128 + 15) \div 16 - 1 + 16
    BY <1>3, Tier2
  <2>4. /\ Index(b) \in Int /\ RoundUp(b) \in Int
        /\ 16 <= Index(b) /\ Index(b) <= 71
        /\ RoundUp(b) = 144 + 16 * (Index(b) - 16)
    BY <1>1, <2>1, <2>2, <2>3
  <2> QED  BY <1>3, <2>4
<1>4. CASE Tier(b) = 3
  <2>1. 1024 < b /\ b <= 8192
    BY <1>4, TierBounds
  <2>2. (b + 127) \div 128 = (b - 1024 + 127) \div 128 + 8
    BY <1>1, <2>1
  <2>3. /\ RoundUp(b) = 128 * ((b + 127) \div 128)
        /\ Index(b) = (b - 1024 + 127) \div 128 - 1 + 72
    BY <1>4, Tier3
  <2>4. /\ Index(b) \in Int /\ RoundUp(b) \in Int
        /\ 72 <= Index(b) /\ Index(b) <= 127
        /\ RoundUp(b) = 1152 + 128 * (Index(b) - 72)
    BY <1>1, <2>1, <2>2, <2>3
  <2> QED  BY <1>4, <2>4
<1>5. CASE Tier(b) = 4
  <2>1. 8192 < b /\ b <= 65536
    BY <1>5, TierBounds
  <2>2. (b + 1023) \div 1024 = (b - 8192 + 1023) \div 1024 + 8
    BY <1>1, <2>1
  <2>3. /\ RoundUp(b) = 1024 * ((b + 1023) \div 1024)
        /\ Index(b) = (b - 8192 + 1023) \div 1024 - 1 + 128
    BY <1>5, Tier4
  <2>4. /\ Index(b) \in Int /\ RoundUp(b) \in Int
        /\ 128 <= Index(b) /\ Index(b) <= 183
        /\ RoundUp(b) = 9216 + 1024 * (Index(b) - 128)
    BY <1>1, <2>1, <2>2, <2>3
  <2> QED  BY <1>5, <2>4
<1>6. CASE Tier(b) = 5
  <2>1. 65536 < b /\ b <= 262144
    BY <1>6, TierBounds
  <2>2. (b + 8191) \div 8192 = (b - 65536 + 8191) \div 8192 + 8
    BY <1>1, <2>1
  <2>3. /\ RoundUp(b) = 8192 * ((b + 8191) \div 8192)
        /\ Index(b) = (b - 65536 + 8191) \div 8192 - 1 + 184
    BY <1>6, Tier5
  <2>4. /\ Index(b) \in Int /\ RoundUp(b) \in Int
        /\ 184 <= Index(b) /\ Index(b) <= 207
        /\ RoundUp(b) = 73728 + 8192 * (Index(b) - 184)
    BY <1>1, <2>1, <2>2, <2>3
  <2> QED  BY <1>6, <2>4
<1> QED  BY <1>2, <1>3, <1>4, <1>5, <1>6, TierBounds

(* No two sizes share a list: an object taken from a list has the size of  *)
(* whatever was put there.                                                 *)
THEOREM OneSizeEveryList == \A a, b \in Sizes : OneSizePerList(a, b)
BY ListSize, TierBounds DEF OneSizePerList

-----------------------------------------------------------------------------
(* Between which products a number lies. *)
LEMMA Quotient ==
  ASSUME NEW a \in Nat, NEW d \in Nat \ {0}
  PROVE  /\ a \div d \in Nat
         /\ (a \div d) * d <= a
         /\ a < (a \div d) * d + d
OBVIOUS

(* Neither fewer than two objects move at a time nor more than 512, and    *)
(* together they are at most twice MAX_BYTES.                              *)
LEMMA MoveSize ==
  ASSUME NEW size \in Nat \ {0}, size <= MAX_BYTES
  PROVE  /\ NumMoveSize(size) \in Nat
         /\ 2 <= NumMoveSize(size) /\ NumMoveSize(size) <= 512
         /\ NumMoveSize(size) * size <= 2 * MAX_BYTES
<1>1. /\ MAX_BYTES \in Nat /\ MAX_BYTES \div size \in Nat
      /\ (MAX_BYTES \div size) * size <= MAX_BYTES
  BY SizesAre, Quotient
<1>2. CASE MAX_BYTES \div size < 2
  BY <1>1, <1>2 DEF NumMoveSize
<1>3. CASE MAX_BYTES \div size > 512
  <2>1. 512 * size <= (MAX_BYTES \div size) * size
    BY <1>1, <1>3
  <2> QED  BY <1>1, <1>3, <2>1 DEF NumMoveSize
<1>4. CASE MAX_BYTES \div size >= 2 /\ MAX_BYTES \div size <= 512
  BY <1>1, <1>4 DEF NumMoveSize
<1> QED  BY <1>1, <1>2, <1>3, <1>4

(* GetOneSpan never asks the page cache for a span that its lists cannot   *)
(* hold, and the one it gets has room for an object: what MemoryPool       *)
(* assumes of its classes, true of every size.                             *)
THEOREM SpanSuitsEverySize == \A b \in Sizes : SpanSuits(b)
<1> SUFFICES ASSUME NEW b \in Sizes PROVE SpanSuits(b)
  OBVIOUS
<1> DEFINE size == RoundUp(b)
           num  == NumMoveSize(size)
           q    == (num * size) \div PageSize
<1>1. size \in Nat \ {0} /\ size <= MAX_BYTES
  BY RoundedSize, SizesAre
<1> HIDE DEF size
<1>2. num \in Nat /\ 2 <= num /\ num <= 512 /\ num * size <= 524288
  BY <1>1, MoveSize, SizesAre
<1> HIDE DEF num
<1>3. num * size \in Nat /\ 2 * size <= num * size
  BY <1>1, <1>2
<1>4. PageSize = 8192
  BY DEF PageSize
<1>5. q \in Nat /\ q * 8192 <= num * size /\ num * size < q * 8192 + 8192 /\ q <= 64
  BY <1>2, <1>3, <1>4
<1>6. NumMovePage(size) = IF q = 0 THEN 1 ELSE q
  BY DEF NumMovePage, num
<1> HIDE DEF q
<1>7. NumMovePage(size) \in Nat /\ 1 <= NumMovePage(size) /\ NumMovePage(size) <= 128
  BY <1>5, <1>6
<1>8. size <= SpanBytes(size)
  BY <1>1, <1>3, <1>4, <1>5, <1>6 DEF SpanBytes
<1>9. NumMovePage(size) \in 1 .. NPAGES - 1
  BY <1>7 DEF NPAGES
<1>10. num \in 2 .. 512
  BY <1>2
<1> QED  BY <1>8, <1>9, <1>10 DEF SpanSuits, size, num

(* Dividing upwards. *)
LEMMA Ceiling ==
  ASSUME NEW a \in Nat, NEW d \in Nat \ {0}
  PROVE  /\ ((a + d - 1) \div d - 1) * d < a
         /\ (((a + d - 1) \div d) * d <= a) <=> (a % d = 0)
<1> DEFINE c == (a + d - 1) \div d
           q == a \div d
<1>1. c \in Nat /\ c * d <= a + d - 1 /\ a + d - 1 < c * d + d
  BY Quotient
<1>2. q \in Nat /\ a = q * d + (a % d) /\ a % d \in Nat /\ a % d < d
  OBVIOUS
<1> HIDE DEF c, q
<1>3. (c - 1) * d = c * d - d
  BY <1>1
<1>4. ASSUME c * d <= a PROVE a % d = 0
  <2>1. a = c * d
    BY <1>1, <1>4
  <2>2. c = q
    <3>1. CASE c > q
      <4>1. (q + 1) * d <= c * d
        BY <1>1, <1>2, <3>1
      <4> QED  BY <1>2, <2>1, <4>1
    <3>2. CASE c < q
      <4>1. (c + 1) * d <= q * d
        BY <1>1, <1>2, <3>2
      <4> QED  BY <1>1, <1>2, <2>1, <4>1
    <3> QED  BY <1>1, <1>2, <3>1, <3>2
  <2>3. c * d = q * d
    BY <2>2
  <2> QED  BY <1>1, <1>2, <2>1, <2>3
<1>5. ASSUME a % d = 0 PROVE c * d <= a
  <2>1. CASE c > q
    <3>1. (q + 1) * d <= c * d
      BY <1>1, <1>2, <2>1
    <3> QED  BY <1>1, <1>2, <1>5, <3>1
  <2>2. CASE c <= q
    <3>1. c * d <= q * d
      BY <1>1, <1>2, <2>2
    <3> QED  BY <1>2, <1>5, <3>1
  <2> QED  BY <1>1, <1>2, <2>1, <2>2
<1> QED  BY <1>1, <1>3, <1>4, <1>5 DEF c

(* Cutting a span overruns it exactly when the size does not divide it.    *)
THEOREM LastCutEverySize == \A b \in Sizes : LastCut(b)
<1> SUFFICES ASSUME NEW b \in Sizes PROVE LastCut(b)
  OBVIOUS
<1> DEFINE size == RoundUp(b)
<1>1. size \in Nat \ {0}
  BY RoundedSize
<1>2. NumMovePage(size) \in Nat
  BY SpanSuitsEverySize DEF SpanSuits, NPAGES
<1>3. SpanBytes(size) \in Nat
  BY <1>2 DEF SpanBytes, PageSize
<1> HIDE DEF size
<1> DEFINE c == (SpanBytes(size) + size - 1) \div size
<1>4. /\ (c - 1) * size < SpanBytes(size)
      /\ (c * size <= SpanBytes(size)) <=> (SpanBytes(size) % size = 0)
  BY <1>1, <1>3, Ceiling, Zenon
<1>5. CarvedObjects(size) = c
  BY DEF CarvedObjects
<1> HIDE DEF c
<1> QED  BY <1>4, <1>5 DEF LastCut, size

(* And there are such sizes: the last object of 24 bytes ends 16 bytes     *)
(* past its span.                                                          *)
THEOREM OverrunOf24 == 24 \in Sizes /\ CarvedObjects(24) * 24 = SpanBytes(24) + 16
<1>1. NumMoveSize(24) = 512
  BY SizesAre DEF NumMoveSize
<1>2. NumMovePage(24) = 1
  BY <1>1 DEF NumMovePage, PageSize
<1>3. SpanBytes(24) = 8192
  BY <1>2 DEF SpanBytes, PageSize
<1>4. CarvedObjects(24) = 342
  BY <1>3 DEF CarvedObjects
<1> QED  BY <1>3, <1>4, SizesAre

(* The other end of size_t: the sum in _RoundUp wraps for a request from   *)
(* the last page of it, and NewSpan, which asserts k > 0, is asked for no  *)
(* page at all.                                                            *)
THEOREM LargestRequestsWrap ==
  \A b \in Nat : Word - PageSize < b /\ b < Word => ~AsksForPages(b)
<1> SUFFICES ASSUME NEW b \in Nat, Word - PageSize < b, b < Word
             PROVE  LargePages(b) = 0
  BY DEF AsksForPages
<1>1. Word \in Nat /\ Word > 524288 /\ PageSize = 8192
  BY WordAssumption, SizesAre DEF PageSize
<1>2. Tier(b) = 6
  BY <1>1, SizesAre DEF Tier
<1>3. (b + 8191) % Word = b + 8191 - Word
  <2>1. b + 8191 - Word \in Nat /\ b + 8191 - Word < Word
    BY <1>1
  <2> QED  BY <1>1, <2>1
<1>4. RoundUp(b) = RoundTo(b, 8192)
  BY <1>1, <1>2 DEF RoundUp, Align
<1>5. RoundUp(b) = (b + 8191 - Word) - ((b + 8191 - Word) % 8192)
  BY <1>3, <1>4 DEF RoundTo
<1>6. RoundUp(b) = 0
  BY <1>1, <1>5
<1> QED  BY <1>1, <1>6 DEF LargePages


(* At every size up to MAX_BYTES, whatever the walk: Allocate and          *)
(* Deallocate use one list, which exists, rounding wastes little, and the  *)
(* span GetOneSpan asks for suits.                                         *)
THEOREM SizesSoundEverywhere == number \in Sizes => SizesSound
BY SameListEverySize, ListExistsEverySize, LittleWasteEverySize,
   SpanSuitsEverySize, LastCutEverySize
   DEF SizesSound

(* A size one byte larger goes to the same list or to the next: in a tier  *)
(* an index goes up by one every align bytes, and a tier's first list      *)
(* follows the last of the tier below.                                     *)
LEMMA NextSize ==
  ASSUME NEW b \in Nat, b \in Sizes, b + 1 \in Sizes
  PROVE  Index(b + 1) - Index(b) \in {0, 1}
<1>1. b \in Nat /\ 1 <= b /\ b + 1 <= 262144
  BY SizesAre
<1> DEFINE c == b + 1
<1>2. c \in Sizes /\ c \in Nat /\ c = b + 1
  BY <1>1
<1> HIDE DEF c
<1>3. CASE c <= 128
  <2>1. Tier(b) = 1 /\ Tier(c) = 1  BY <1>1, <1>2, <1>3, TierBounds
  <2>2. /\ Index(b) = (b - 0 + 7) \div 8 - 1 + 0
        /\ Index(c) = (c - 0 + 7) \div 8 - 1 + 0
    BY <1>2, <2>1, Tier1
  <2> QED  BY <1>1, <1>2, <2>2 DEF c
<1>4. CASE 128 < b /\ c <= 1024
  <2>1. Tier(b) = 2 /\ Tier(c) = 2  BY <1>1, <1>2, <1>4, TierBounds
  <2>2. /\ Index(b) = (b - 128 + 15) \div 16 - 1 + 16
        /\ Index(c) = (c - 128 + 15) \div 16 - 1 + 16
    BY <1>2, <2>1, Tier2
  <2> QED  BY <1>1, <1>2, <2>2, <1>4 DEF c
<1>5. CASE 1024 < b /\ c <= 8192
  <2>1. Tier(b) = 3 /\ Tier(c) = 3  BY <1>1, <1>2, <1>5, TierBounds
  <2>2. /\ Index(b) = (b - 1024 + 127) \div 128 - 1 + 72
        /\ Index(c) = (c - 1024 + 127) \div 128 - 1 + 72
    BY <1>2, <2>1, Tier3
  <2> QED  BY <1>1, <1>2, <2>2, <1>5 DEF c
<1>6. CASE 8192 < b /\ c <= 65536
  <2>1. Tier(b) = 4 /\ Tier(c) = 4  BY <1>1, <1>2, <1>6, TierBounds
  <2>2. /\ Index(b) = (b - 8192 + 1023) \div 1024 - 1 + 128
        /\ Index(c) = (c - 8192 + 1023) \div 1024 - 1 + 128
    BY <1>2, <2>1, Tier4
  <2> QED  BY <1>1, <1>2, <2>2, <1>6 DEF c
<1>7. CASE 65536 < b
  <2>1. Tier(b) = 5 /\ Tier(c) = 5  BY <1>1, <1>2, <1>7, TierBounds
  <2>2. /\ Index(b) = (b - 65536 + 8191) \div 8192 - 1 + 184
        /\ Index(c) = (c - 65536 + 8191) \div 8192 - 1 + 184
    BY <1>2, <2>1, Tier5
  <2> QED  BY <1>1, <1>2, <2>2, <1>7 DEF c
<1>8. CASE b = 128
  <2>1. Index(b) = 15  BY <1>2, <1>8, TierBounds, Tier1
  <2>2. Tier(c) = 2  BY <1>2, <1>8, TierBounds
  <2>3. Index(c) = (c - 128 + 15) \div 16 - 1 + 16  BY <1>2, <2>2, Tier2
  <2>4. c = 129  BY <1>2, <1>8
  <2> QED  BY <2>1, <2>3, <2>4 DEF c
<1>9. CASE b = 1024
  <2>1. Index(b) = 71  BY <1>2, <1>9, TierBounds, Tier2
  <2>2. Tier(c) = 3  BY <1>2, <1>9, TierBounds
  <2>3. Index(c) = (c - 1024 + 127) \div 128 - 1 + 72  BY <1>2, <2>2, Tier3
  <2>4. c = 1025  BY <1>2, <1>9
  <2> QED  BY <2>1, <2>3, <2>4 DEF c
<1>10. CASE b = 8192
  <2>1. Index(b) = 127  BY <1>2, <1>10, TierBounds, Tier3
  <2>2. Tier(c) = 4  BY <1>2, <1>10, TierBounds
  <2>3. Index(c) = (c - 8192 + 1023) \div 1024 - 1 + 128  BY <1>2, <2>2, Tier4
  <2>4. c = 8193  BY <1>2, <1>10
  <2> QED  BY <2>1, <2>3, <2>4 DEF c
<1>11. CASE b = 65536
  <2>1. Index(b) = 183  BY <1>2, <1>11, TierBounds, Tier4
  <2>2. Tier(c) = 5  BY <1>2, <1>11, TierBounds
  <2>3. Index(c) = (c - 65536 + 8191) \div 8192 - 1 + 184  BY <1>2, <2>2, Tier5
  <2>4. c = 65537  BY <1>2, <1>11
  <2> QED  BY <2>1, <2>3, <2>4 DEF c
<1> QED  BY <1>1, <1>2, <1>3, <1>4, <1>5, <1>6, <1>7, <1>8, <1>9, <1>10, <1>11

(* Over any walk through sizes the pool has lists for, the lists are in    *)
(* the order of the sizes, none left out and none used for two sizes.      *)
THEOREM ListsAlwaysInOrder ==
  From \in Sizes /\ To \in Sizes => (Spec => ListsInOrder)
<1> SUFFICES ASSUME From \in Sizes, To \in Sizes PROVE Spec => ListsInOrder
  OBVIOUS
<1> DEFINE Walk == number \in Nat /\ number \in Sizes
<1>1. Init => Walk
  BY SizesAre DEF Init
<1>2. Walk /\ [Next]_number => Walk'
  <2> SUFFICES ASSUME Walk, Next PROVE Walk'
    OBVIOUS
  <2>1. To \in Nat /\ To <= MAX_BYTES /\ 1 <= number /\ MAX_BYTES \in Nat
    BY SizesAre
  <2>2. number' \in Nat /\ 1 <= number' /\ number' <= MAX_BYTES
    BY <2>1 DEF Next
  <2> QED  BY <2>2, SizesAre
<1>3. Walk /\ Walk' /\ [Next]_number =>
        [/\ (Index(number') - Index(number)) \in {0, 1}
         /\ OneSizePerList(number, number')]_number
  <2> SUFFICES ASSUME Walk, Walk', Next
               PROVE  /\ (Index(number') - Index(number)) \in {0, 1}
                      /\ OneSizePerList(number, number')
    OBVIOUS
  <2>1. number' = number + 1
    BY DEF Next
  <2> QED  BY <2>1, NextSize, OneSizeEveryList
<1> HIDE DEF Walk
<1> QED  BY <1>1, <1>2, <1>3, PTL DEF Spec, ListsInOrder

-----------------------------------------------------------------------------
(* Excerpts *)

(* GetDesc cuts an excerpt out of any document, around any position, with  *)
(* any steps back and on: it shows the byte at the position, unless this   *)
(* is the document's last byte, which no excerpt shows. It finds none only *)
(* in a document of one byte.                                              *)
THEOREM ExcerptsSoundEverywhere == number \in Nat \ {0} => ExcerptsSound
<1> SUFFICES ASSUME number \in Nat \ {0},
                    NEW pos \in 0 .. number - 1
             PROVE  ExcerptSound(number, pos) /\ NoExcerptOnlyOfOne(number, pos)
  BY DEF ExcerptsSound
<1>1. /\ PrevStep \in Nat /\ PrevStep > 0 /\ NextStep \in Nat /\ NextStep > 0
      /\ number \in Nat /\ number > 0 /\ pos \in Nat /\ pos < number
  BY StepsAssumption
<1>2. /\ ExcerptStart(pos) \in Nat
      /\ ExcerptStart(pos) <= pos /\ pos - ExcerptStart(pos) <= PrevStep
      /\ ExcerptStart(pos) = pos => pos = 0
  BY <1>1 DEF ExcerptStart
<1>3. /\ ExcerptEnd(number, pos) \in Nat
      /\ pos <= ExcerptEnd(number, pos) /\ ExcerptEnd(number, pos) <= number - 1
      /\ ExcerptEnd(number, pos) - pos <= NextStep
      /\ pos = ExcerptEnd(number, pos) <=> pos = number - 1
  BY <1>1 DEF ExcerptEnd
<1> QED
  BY <1>1, <1>2, <1>3 DEF ExcerptSound, NoExcerptOnlyOfOne, NoExcerpt

-----------------------------------------------------------------------------
(* Page maps *)

(* Multiplying keeps the order. *)
LEMMA TimesMonotonic ==
  ASSUME NEW a \in Nat, NEW b \in Nat, NEW d \in Nat, a <= b
  PROVE  a * d <= b * d
<1>1. PICK c \in Nat : b = a + c
  <2>1. b = a + (b - a) /\ b - a \in Nat
    OBVIOUS
  <2> QED  BY <2>1
<1>2. b * d = a * d + c * d /\ c * d \in Nat /\ a * d \in Nat
  BY <1>1
<1> QED  BY <1>2

(* A number below b * d has a quotient below b. *)
LEMMA QuotientBelow ==
  ASSUME NEW a \in Nat, NEW b \in Nat, NEW d \in Nat \ {0}, a < b * d
  PROVE  a \div d < b
<1>1. a \div d \in Nat /\ (a \div d) * d <= a
  BY Quotient
<1>2. ASSUME b <= a \div d PROVE FALSE
  BY <1>1, <1>2, TimesMonotonic, b * d \in Nat, (a \div d) * d \in Nat
<1> QED  BY <1>1, <1>2

(* The bits above and the bits below a shift make up the number. *)
LEMMA Remainder ==
  ASSUME NEW a \in Nat, NEW d \in Nat \ {0}
  PROVE  /\ a % d \in 0 .. d - 1
         /\ (a \div d) * d + (a % d) = a
OBVIOUS

(* There is one quotient. *)
LEMMA QuotientOnly ==
  ASSUME NEW a \in Nat, NEW d \in Nat \ {0}, NEW q \in Nat,
         q * d <= a, a < (q + 1) * d
  PROVE  a \div d = q
<1> DEFINE p == a \div d
<1>1. p \in Nat /\ p * d <= a /\ a < p * d + d
  BY Quotient
<1> HIDE DEF p
<1>2. (p + 1) * d = p * d + d
  BY <1>1
<1>3. /\ p * d \in Nat /\ (p + 1) * d \in Nat
      /\ q * d \in Nat /\ (q + 1) * d \in Nat
  BY <1>1
<1>4. ~(p + 1 <= q)
  BY <1>1, <1>2, <1>3, TimesMonotonic
<1>5. ~(q + 1 <= p)
  BY <1>1, <1>3, TimesMonotonic
<1> QED  BY <1>1, <1>4, <1>5 DEF p

(* Shifting by two widths is shifting by one and by the other. *)
LEMMA QuotientOfQuotient ==
  ASSUME NEW a \in Nat, NEW c \in Nat \ {0}, NEW d \in Nat \ {0}
  PROVE  a \div (c * d) = (a \div c) \div d
<1> DEFINE x == a \div c
           y == x \div d
<1>1. x \in Nat /\ x * c <= a /\ a < x * c + c
  BY Quotient
<1>2. y \in Nat /\ y * d <= x /\ x < y * d + d
  BY <1>1, Quotient
<1> HIDE DEF x, y
<1>3. c * d \in Nat \ {0}
  BY SMT
<1>4. y * (c * d) = (y * d) * c
  BY <1>2 
<1>5. (y + 1) * (c * d) = (y * d + d) * c
  BY <1>2
<1>6. y * (c * d) <= a
  BY <1>1, <1>2, <1>4, TimesMonotonic, y * d \in Nat, (y * d) * c \in Nat, x * c \in Nat
<1>7. a < (y + 1) * (c * d)
  <2>1. x + 1 <= y * d + d /\ x + 1 \in Nat /\ y * d + d \in Nat
    BY <1>1, <1>2, y * d \in Nat
  <2>2. (x + 1) * c <= (y * d + d) * c
    BY <2>1, TimesMonotonic
  <2>3. (x + 1) * c = x * c + c
    BY <1>1
  <2> QED  BY <1>1, <1>5, <2>1, <2>2, <2>3, x * c \in Nat, (y * d + d) * c \in Nat
<1>8. a \div (c * d) = y
  BY <1>2, <1>3, <1>6, <1>7, QuotientOnly
<1> QED  BY <1>8 DEF x, y

(* For any lengths of the arrays, every page number has a place of its own *)
(* in the trees of two and of three levels: i1, i2, i3 of get and set.     *)
THEOREM PlacesExactEverywhere == \A k \in 0 .. Size - 1 : PlacesExact(k)
<1>1. /\ Root \in Nat \ {0} /\ Leaf2 \in Nat \ {0}
      /\ Interior \in Nat \ {0} /\ Leaf3 \in Nat \ {0}
      /\ Root * Leaf2 = Interior * Interior * Leaf3
  BY LengthsAssumption
<1>2. Size \in Nat /\ Size = Root * Leaf2
  BY <1>1 DEF Size
<1> SUFFICES ASSUME NEW k \in 0 .. Size - 1 PROVE PlacesExact(k)
  OBVIOUS
<1>3. k \in Nat /\ k < Root * Leaf2 /\ k < (Interior * Interior) * Leaf3
  BY <1>1, <1>2
<1>4. /\ k \div Leaf2 \in 0 .. Root - 1 /\ k % Leaf2 \in 0 .. Leaf2 - 1
      /\ (k \div Leaf2) * Leaf2 + (k % Leaf2) = k
  <2>1. k \div Leaf2 \in Nat
    BY <1>1, <1>3, Quotient
  <2>2. k \div Leaf2 < Root
    BY <1>1, <1>3, QuotientBelow
  <2>3. /\ k % Leaf2 \in 0 .. Leaf2 - 1
        /\ (k \div Leaf2) * Leaf2 + (k % Leaf2) = k
    BY <1>1, <1>3, Remainder
  <2> QED  BY <1>1, <2>1, <2>2, <2>3
<1> DEFINE leaf == k \div Leaf3
<1>5. leaf \in Nat /\ leaf < Interior * Interior
  BY <1>1, <1>3, Quotient, QuotientBelow, Interior * Interior \in Nat
<1>6. k % Leaf3 \in 0 .. Leaf3 - 1 /\ leaf * Leaf3 + (k % Leaf3) = k
  BY <1>1, <1>3, Remainder
<1>7. k \div (Leaf3 * Interior) = leaf \div Interior
  BY <1>1, <1>3, QuotientOfQuotient, ZenonT(30)
<1> HIDE DEF leaf
<1>8. /\ leaf \div Interior \in 0 .. Interior - 1
      /\ leaf % Interior \in 0 .. Interior - 1
      /\ (leaf \div Interior) * Interior + (leaf % Interior) = leaf
  <2>1. leaf \div Interior \in Nat
    BY <1>1, <1>5, Quotient
  <2>2. leaf \div Interior < Interior
    BY <1>1, <1>5, QuotientBelow
  <2>3. /\ leaf % Interior \in 0 .. Interior - 1
        /\ (leaf \div Interior) * Interior + (leaf % Interior) = leaf
    BY <1>1, <1>5, Remainder
  <2> QED  BY <1>1, <2>1, <2>2, <2>3
<1>9. At2(k)[1] = k \div Leaf2 /\ At2(k)[2] = k % Leaf2
  BY Zenon DEF At2
<1>10. At3(k)[1] = leaf \div Interior
  BY <1>7, Zenon DEF At3
<1>11. At3(k)[2] = leaf % Interior /\ At3(k)[3] = k % Leaf3
  BY Zenon DEF At3, leaf
<1> QED  BY <1>4, <1>6, <1>8, <1>9, <1>10, <1>11 DEF PlacesExact

-----------------------------------------------------------------------------
(* What is set is got *)

(* Maps of two levels, all allocated, and of three, allocated in part. An  *)
(* array is no null pointer.                                               *)
Leaves2(V) == [0 .. Leaf2 - 1 -> V]
Trees2(V) == [0 .. Root - 1 -> Leaves2(V)]
Leaves3(V) == [0 .. Leaf3 - 1 -> V]
Nodes3(V) == [0 .. Interior - 1 -> Leaves3(V) \cup {Null}]
Trees3(V) == [0 .. Interior - 1 -> Nodes3(V) \cup {Null}]

(* Two page numbers differ in their places. *)
LEMMA PlacesDiffer ==
  ASSUME NEW k \in 0 .. Size - 1, NEW j \in 0 .. Size - 1
  PROVE  /\ k \in Nat /\ ~(k >= Size)
         /\ At2(k)[1] = At2(j)[1] /\ At2(k)[2] = At2(j)[2] => j = k
         /\ At3(k)[1] = At3(j)[1] /\ At3(k)[2] = At3(j)[2] /\ At3(k)[3] = At3(j)[3]
              => j = k
<1>1. Size \in Nat
  BY LengthsAssumption DEF Size
<1>2. k \in Nat /\ ~(k >= Size)
  BY <1>1
<1>3. PlacesExact(k) /\ PlacesExact(j)
  BY PlacesExactEverywhere
<1>4. At2(k)[1] * Leaf2 + At2(k)[2] = k /\ At2(j)[1] * Leaf2 + At2(j)[2] = j
  BY <1>3, Zenon DEF PlacesExact
<1>5. /\ (At3(k)[1] * Interior + At3(k)[2]) * Leaf3 + At3(k)[3] = k
      /\ (At3(j)[1] * Interior + At3(j)[2]) * Leaf3 + At3(j)[3] = j
  BY <1>3, Zenon DEF PlacesExact
<1>6. At2(k)[1] = At2(j)[1] /\ At2(k)[2] = At2(j)[2] => j = k
  BY <1>4, Zenon
<1>7. At3(k)[1] = At3(j)[1] /\ At3(k)[2] = At3(j)[2] /\ At3(k)[3] = At3(j)[3]
        => j = k
  BY <1>5, Zenon
<1> QED  BY <1>2, <1>6, <1>7

(* An assignment below one level changes one place. *)
LEMMA SetBelow ==
  ASSUME NEW A, NEW B, NEW V, NEW t \in [A -> [B -> V]], NEW a \in A, NEW b \in B,
         NEW v \in V, NEW r, r = [t EXCEPT ![a][b] = v]
  PROVE  /\ r \in [A -> [B -> V]]
         /\ \A x \in A, y \in B : r[x][y] = IF x = a /\ y = b THEN v ELSE t[x][y]
<1>1. PICK row : row = [t[a] EXCEPT ![b] = v]
  OBVIOUS
<1>2. row \in [B -> V] /\ \A y \in B : row[y] = IF y = b THEN v ELSE t[a][y]
  BY <1>1
<1>3. r = [t EXCEPT ![a] = row]
  BY <1>1, Zenon
<1>4. /\ r \in [A -> [B -> V]]
      /\ \A x \in A : r[x] = IF x = a THEN row ELSE t[x]
  BY <1>2, <1>3
<1> QED  BY <1>2, <1>4

(* TCMalloc_PageMap2: after set(k, v), get answers v at k, and everywhere  *)
(* else what it answered before; at first it answers null.                 *)
THEOREM TwoLevelsAreAMap ==
  ASSUME NEW V, Null \in V, Null \notin Leaves2(V)
  PROVE  /\ New2 \in Trees2(V) /\ \A k \in 0 .. Size - 1 : Get2(New2, k) = Null
         /\ \A t \in Trees2(V), v \in V : \A k, j \in 0 .. Size - 1 :
              /\ Set2(t, k, v) \in Trees2(V)
              /\ Get2(Set2(t, k, v), j) = IF j = k THEN v ELSE Get2(t, j)
<1>1. ASSUME NEW k \in 0 .. Size - 1
      PROVE  At2(k)[1] \in 0 .. Root - 1 /\ At2(k)[2] \in 0 .. Leaf2 - 1
  BY PlacesExactEverywhere DEF PlacesExact
<1>2. ASSUME NEW t \in Trees2(V), NEW k \in 0 .. Size - 1
      PROVE  Get2(t, k) = t[At2(k)[1]][At2(k)[2]]
  <2>1. ~(k >= Size)
    BY PlacesDiffer
  <2>2. t[At2(k)[1]] \in Leaves2(V)
    BY <1>1 DEF Trees2
  <2> QED  BY <2>1, <2>2, Zenon DEF Get2
<1>3. New2 \in Trees2(V)
  BY DEF New2, Trees2, Leaves2
<1>4. ASSUME NEW k \in 0 .. Size - 1 PROVE Get2(New2, k) = Null
  <2>1. New2[At2(k)[1]][At2(k)[2]] = Null
    BY <1>1, Zenon DEF New2
  <2> QED  BY <1>2, <1>3, <2>1
<1>5. ASSUME NEW t \in Trees2(V), NEW v \in V,
             NEW k \in 0 .. Size - 1, NEW j \in 0 .. Size - 1
      PROVE  /\ Set2(t, k, v) \in Trees2(V)
             /\ Get2(Set2(t, k, v), j) = IF j = k THEN v ELSE Get2(t, j)
  <2>1. PICK r, a, b : r = Set2(t, k, v) /\ a = At2(k)[1] /\ b = At2(k)[2]
    OBVIOUS
  <2>2. PICK x, y : x = At2(j)[1] /\ y = At2(j)[2]
    OBVIOUS
  <2>3. /\ a \in 0 .. Root - 1 /\ b \in 0 .. Leaf2 - 1
        /\ x \in 0 .. Root - 1 /\ y \in 0 .. Leaf2 - 1
    BY <1>1, <2>1, <2>2
  <2>4. r = [t EXCEPT ![a][b] = v]
    BY <2>1, Zenon DEF Set2
  <2>5. r \in Trees2(V) /\ r[x][y] = IF x = a /\ y = b THEN v ELSE t[x][y]
    <3>1. t \in [0 .. Root - 1 -> [0 .. Leaf2 - 1 -> V]]
      BY DEF Trees2, Leaves2
    <3>2. /\ r \in [0 .. Root - 1 -> [0 .. Leaf2 - 1 -> V]]
          /\ r[x][y] = IF x = a /\ y = b THEN v ELSE t[x][y]
      <4>1. PICK A, B : A = 0 .. Root - 1 /\ B = 0 .. Leaf2 - 1
        OBVIOUS
      <4>2. t \in [A -> [B -> V]] /\ a \in A /\ b \in B /\ x \in A /\ y \in B
        BY <2>3, <3>1, <4>1
      <4>3. /\ r \in [A -> [B -> V]]
            /\ \A p \in A, q \in B : r[p][q] = IF p = a /\ q = b THEN v ELSE t[p][q]
        BY <2>4, <4>2, SetBelow, Zenon
      <4> QED  BY <4>1, <4>2, <4>3
    <3> QED  BY <3>2 DEF Trees2, Leaves2
  <2>6. Get2(r, j) = r[x][y] /\ Get2(t, j) = t[x][y]
    BY <1>2, <2>2, <2>5, Zenon
  <2>7. j = k <=> x = a /\ y = b
    BY <2>1, <2>2, PlacesDiffer, Zenon
  <2> QED  BY <2>1, <2>5, <2>6, <2>7
<1> QED  BY <1>3, <1>4, <1>5

(* The descent of get through three levels. *)
LEMMA Get3Is ==
  ASSUME NEW t, NEW k \in 0 .. Size - 1,
         NEW x, NEW y, NEW z, x = At3(k)[1], y = At3(k)[2], z = At3(k)[3]
  PROVE  /\ t[x] = Null => Get3(t, k) = Null
         /\ t[x] # Null /\ t[x][y] = Null => Get3(t, k) = Null
         /\ t[x] # Null /\ t[x][y] # Null => Get3(t, k) = t[x][y][z]
<1>1. ~(k >= Size)
  BY PlacesDiffer
<1> QED  BY <1>1, Zenon DEF Get3

(* Ensure(k, 1) allocates the node and the leaf of page k where there are  *)
(* none, and get answers everywhere what it did.                           *)
LEMMA Ensured ==
  ASSUME NEW V, Null \in V, Null \notin Leaves3(V), Null \notin Nodes3(V),
         NEW t \in Trees3(V), NEW k \in 0 .. Size - 1,
         NEW a, NEW b, NEW e, a = At3(k)[1], b = At3(k)[2], e = Ensure3(t, k)
  PROVE  /\ e \in Trees3(V) /\ e[a] \in Nodes3(V) /\ e[a][b] \in Leaves3(V)
         /\ \A j \in 0 .. Size - 1 : Get3(e, j) = Get3(t, j)
<1>1. a \in 0 .. Interior - 1 /\ b \in 0 .. Interior - 1
  BY PlacesExactEverywhere DEF PlacesExact
<1>2. PICK node :
        node = IF t[a] = Null THEN [i \in 0 .. Interior - 1 |-> Null] ELSE t[a]
  OBVIOUS
<1>3. PICK leaf :
        leaf = IF node[b] = Null THEN [i \in 0 .. Leaf3 - 1 |-> Null] ELSE node[b]
  OBVIOUS
<1>4. PICK node2 : node2 = [node EXCEPT ![b] = leaf]
  OBVIOUS
<1>5. e = [t EXCEPT ![a] = node2]
  BY <1>2, <1>3, <1>4, Zenon DEF Ensure3
<1>6. node \in Nodes3(V)
  <2>1. t[a] \in Nodes3(V) \cup {Null}
    BY <1>1 DEF Trees3
  <2>2. [i \in 0 .. Interior - 1 |-> Null] \in Nodes3(V)
    BY DEF Nodes3
  <2> QED  BY <1>2, <2>1, <2>2
<1>7. leaf \in Leaves3(V)
  <2>1. node[b] \in Leaves3(V) \cup {Null}
    BY <1>1, <1>6 DEF Nodes3
  <2>2. [i \in 0 .. Leaf3 - 1 |-> Null] \in Leaves3(V)
    BY DEF Leaves3
  <2> QED  BY <1>3, <2>1, <2>2
<1>8. /\ node2 \in Nodes3(V) /\ node2[b] = leaf
      /\ \A y \in 0 .. Interior - 1 : y # b => node2[y] = node[y]
  BY <1>1, <1>4, <1>6, <1>7 DEF Nodes3
<1>9. /\ e \in Trees3(V) /\ e[a] = node2
      /\ \A x \in 0 .. Interior - 1 : x # a => e[x] = t[x]
  BY <1>1, <1>5, <1>8 DEF Trees3
<1>10. node2 # Null /\ leaf # Null
  BY <1>7, <1>8
<1>11. ASSUME NEW j \in 0 .. Size - 1 PROVE Get3(e, j) = Get3(t, j)
  <2>1. PICK x, y, z : x = At3(j)[1] /\ y = At3(j)[2] /\ z = At3(j)[3]
    OBVIOUS
  <2>2. x \in 0 .. Interior - 1 /\ y \in 0 .. Interior - 1 /\ z \in 0 .. Leaf3 - 1
    BY <2>1, PlacesExactEverywhere DEF PlacesExact
  <2>3. /\ t[x] = Null => Get3(t, j) = Null
        /\ t[x] # Null /\ t[x][y] = Null => Get3(t, j) = Null
        /\ t[x] # Null /\ t[x][y] # Null => Get3(t, j) = t[x][y][z]
    BY <2>1, Get3Is
  <2>4. /\ e[x] = Null => Get3(e, j) = Null
        /\ e[x] # Null /\ e[x][y] = Null => Get3(e, j) = Null
        /\ e[x] # Null /\ e[x][y] # Null => Get3(e, j) = e[x][y][z]
    BY <2>1, Get3Is
  <2>5. CASE x # a
    BY <1>9, <2>2, <2>3, <2>4, <2>5
  <2>6. CASE x = a /\ y # b
    <3>1. e[x] # Null /\ e[x][y] = node[y]
      BY <1>8, <1>9, <1>10, <2>2, <2>6
    <3>2. CASE t[a] = Null
      <4>1. node[y] = Null
        BY <1>2, <2>2, <3>2
      <4> QED  BY <2>3, <2>4, <2>6, <3>1, <3>2, <4>1
    <3>3. CASE t[a] # Null
      BY <1>2, <2>3, <2>4, <2>6, <3>1, <3>3
    <3> QED  BY <3>2, <3>3
  <2>7. CASE x = a /\ y = b
    <3>1. e[x] # Null /\ e[x][y] = leaf /\ leaf # Null
      BY <1>8, <1>9, <1>10, <2>7
    <3>2. CASE node[b] = Null
      <4>1. leaf[z] = Null
        BY <1>3, <2>2, <3>2
      <4>2. Get3(t, j) = Null
        BY <1>2, <2>3, <2>7, <3>2
      <4> QED  BY <2>4, <3>1, <4>1, <4>2
    <3>3. CASE node[b] # Null
      <4>1. t[a] # Null
        BY <1>1, <1>2, <3>3
      <4>2. leaf = t[a][b] /\ t[a][b] # Null
        BY <1>2, <1>3, <3>3, <4>1
      <4> QED  BY <2>3, <2>4, <2>7, <3>1, <4>1, <4>2
    <3> QED  BY <3>2, <3>3
  <2> QED  BY <2>5, <2>6, <2>7
<1> QED  BY <1>7, <1>8, <1>9, <1>11

(* TCMalloc_PageMap3, which allocates in set what it needs: the same.      *)
THEOREM ThreeLevelsAreAMap ==
  ASSUME NEW V, Null \in V, Null \notin Leaves3(V), Null \notin Nodes3(V)
  PROVE  /\ New3 \in Trees3(V) /\ \A k \in 0 .. Size - 1 : Get3(New3, k) = Null
         /\ \A t \in Trees3(V), v \in V : \A k, j \in 0 .. Size - 1 :
              /\ Set3(t, k, v) \in Trees3(V)
              /\ Get3(Set3(t, k, v), j) = IF j = k THEN v ELSE Get3(t, j)
<1>1. New3 \in Trees3(V)
  BY DEF New3, Trees3
<1>2. ASSUME NEW k \in 0 .. Size - 1 PROVE Get3(New3, k) = Null
  <2>1. PICK x, y, z : x = At3(k)[1] /\ y = At3(k)[2] /\ z = At3(k)[3]
    OBVIOUS
  <2>2. x \in 0 .. Interior - 1
    BY <2>1, PlacesExactEverywhere DEF PlacesExact
  <2>3. New3[x] = Null
    BY <2>2, Zenon DEF New3
  <2> QED  BY <2>1, <2>3, Get3Is
<1>3. ASSUME NEW t \in Trees3(V), NEW v \in V,
             NEW k \in 0 .. Size - 1, NEW j \in 0 .. Size - 1
      PROVE  /\ Set3(t, k, v) \in Trees3(V)
             /\ Get3(Set3(t, k, v), j) = IF j = k THEN v ELSE Get3(t, j)
  <2>1. PICK a, b, c : a = At3(k)[1] /\ b = At3(k)[2] /\ c = At3(k)[3]
    OBVIOUS
  <2>2. PICK x, y, z : x = At3(j)[1] /\ y = At3(j)[2] /\ z = At3(j)[3]
    OBVIOUS
  <2>3. /\ a \in 0 .. Interior - 1 /\ b \in 0 .. Interior - 1 /\ c \in 0 .. Leaf3 - 1
        /\ x \in 0 .. Interior - 1 /\ y \in 0 .. Interior - 1 /\ z \in 0 .. Leaf3 - 1
    BY <2>1, <2>2, PlacesExactEverywhere DEF PlacesExact
  <2>4. PICK e : e = Ensure3(t, k)
    OBVIOUS
  <2>5. /\ e \in Trees3(V) /\ e[a] \in Nodes3(V) /\ e[a][b] \in Leaves3(V)
        /\ Get3(e, j) = Get3(t, j)
    BY <2>1, <2>4, Ensured
  <2>6. PICK leaf, node, r :
          /\ leaf = [e[a][b] EXCEPT ![c] = v]
          /\ node = [e[a] EXCEPT ![b] = leaf]
          /\ r = [e EXCEPT ![a] = node]
    OBVIOUS
  <2>7. Set3(t, k, v) = r
    BY <2>1, <2>4, <2>6, Zenon DEF Set3
  <2>8. leaf \in Leaves3(V) /\ leaf[z] = IF z = c THEN v ELSE e[a][b][z]
    BY <2>3, <2>5, <2>6 DEF Leaves3
  <2>9. node \in Nodes3(V) /\ node[y] = IF y = b THEN leaf ELSE e[a][y]
    BY <2>3, <2>5, <2>6, <2>8 DEF Nodes3
  <2>10. r \in Trees3(V) /\ r[x] = IF x = a THEN node ELSE e[x]
    BY <2>3, <2>5, <2>6, <2>9 DEF Trees3
  <2>11. node # Null /\ leaf # Null /\ e[a] # Null /\ e[a][b] # Null
    BY <2>5, <2>8, <2>9
  <2>12. /\ r[x] = Null => Get3(r, j) = Null
         /\ r[x] # Null /\ r[x][y] = Null => Get3(r, j) = Null
         /\ r[x] # Null /\ r[x][y] # Null => Get3(r, j) = r[x][y][z]
    BY <2>2, Get3Is
  <2>13. /\ e[x] = Null => Get3(e, j) = Null
         /\ e[x] # Null /\ e[x][y] = Null => Get3(e, j) = Null
         /\ e[x] # Null /\ e[x][y] # Null => Get3(e, j) = e[x][y][z]
    BY <2>2, Get3Is
  <2>14. j = k <=> x = a /\ y = b /\ z = c
    BY <2>1, <2>2, PlacesDiffer, Zenon
  <2>15. Get3(r, j) = IF j = k THEN v ELSE Get3(e, j)
    <3>1. CASE x # a
      BY <2>10, <2>12, <2>13, <2>14, <3>1
    <3>2. CASE x = a /\ y # b
      BY <2>9, <2>10, <2>11, <2>12, <2>13, <2>14, <3>2
    <3>3. CASE x = a /\ y = b
      BY <2>8, <2>9, <2>10, <2>11, <2>12, <2>13, <2>14, <3>3
    <3> QED  BY <3>1, <3>2, <3>3
  <2> QED  BY <2>5, <2>7, <2>10, <2>15
<1> QED  BY <1>1, <1>2, <1>3

-----------------------------------------------------------------------------
(* Where Ensure goes *)

(* A set of numbers that is not empty has a least one. *)
LEMMA LeastNumber ==
  ASSUME NEW T, T \subseteq Nat, T # {}
  PROVE  \E x \in T : \A y \in T : x <= y
<1>1. PICK R : R = OpToRel(<, Nat)
  BY Zenon
<1>2. PICK x \in T : \A y \in T : ~(<<y, x>> \in R)
  BY <1>1, NatLessThanWellFounded, WFMin, Zenon
<1>3. R = {ss \in Nat \X Nat : ss[1] < ss[2]}
  BY <1>1, Zenon DEF OpToRel
<1>4. ASSUME NEW y \in T PROVE x <= y
  <2>1. x \in Nat /\ y \in Nat
    OBVIOUS
  <2>2. <<y, x>> \in Nat \X Nat /\ <<y, x>>[1] = y /\ <<y, x>>[2] = x
    BY <2>1
  <2>3. ~(y < x)
    BY <1>2, <1>3, <2>1, <2>2
  <2> QED  BY <2>1, <2>3
<1> QED  BY <1>4

(* The key after this one, and what lies between them. *)
After(leafLength, key) == ((key \div leafLength) + 1) * leafLength
LeavesFrom(leafLength, leaves, key, last) ==
  {k \div leafLength : k \in key .. last} \cap 0 .. leaves - 1

(* From `key' the loop comes to `after', with one leaf between them.       *)
LeafBetween(leafLength, leaves, key, after, last) ==
  /\ after \in Nat /\ key < after /\ after <= key + leafLength
  /\ LeavesFrom(leafLength, leaves, key, last) =
       {key \div leafLength} \cup LeavesFrom(leafLength, leaves, after, last)

(* From a key that is not past the end and has a leaf, Ensure goes on to   *)
(* the next leaf and leaves none out.                                      *)
LEMMA OneLeafOn ==
  ASSUME NEW leafLength \in Nat \ {0}, NEW leaves \in Nat, NEW last \in Int, NEW key \in Nat, key <= last,
         key \div leafLength < leaves,
         NEW after, after = After(leafLength, key)
  PROVE  LeafBetween(leafLength, leaves, key, after, last)
<1>1. PICK q : q = key \div leafLength
  OBVIOUS
<1>2. q \in Nat /\ q * leafLength <= key /\ key < q * leafLength + leafLength
  BY <1>1, Quotient
<1>3. after = (q + 1) * leafLength
  BY <1>1, Zenon DEF After
<1>4. after = q * leafLength + leafLength /\ q * leafLength \in Nat
  BY <1>2, <1>3
<1>5. after \in Nat /\ key < after /\ after <= key + leafLength
  BY <1>2, <1>4
<1>6. ASSUME NEW k \in key .. last, k < after PROVE k \div leafLength = q
  <2>1. k \in Nat /\ q * leafLength <= k /\ k < (q + 1) * leafLength
    BY <1>2, <1>3, <1>6
  <2> QED  BY <1>2, <2>1, QuotientOnly
<1>7. ASSUME NEW x \in LeavesFrom(leafLength, leaves, key, last)
      PROVE  x = q \/ x \in LeavesFrom(leafLength, leaves, after, last)
  <2>1. PICK k \in key .. last : x = k \div leafLength
    BY DEF LeavesFrom
  <2>2. CASE k < after
    BY <1>6, <2>1, <2>2
  <2>3. CASE after <= k
    <3>1. k \in after .. last
      BY <1>5, <2>3
    <3>2. x \in 0 .. leaves - 1
      BY DEF LeavesFrom
    <3> QED  BY <2>1, <3>1, <3>2 DEF LeavesFrom
  <2> QED  BY <1>5, <2>2, <2>3
<1>8. q \in LeavesFrom(leafLength, leaves, key, last)
  <2>1. q \in 0 .. leaves - 1
    BY <1>1, <1>2
  <2> QED  BY <1>1, <2>1, key \in key .. last DEF LeavesFrom
<1>9. LeavesFrom(leafLength, leaves, after, last) \subseteq LeavesFrom(leafLength, leaves, key, last)
  <2>1. after .. last \subseteq key .. last
    BY <1>5
  <2> QED  BY <2>1 DEF LeavesFrom
<1>10. LeavesFrom(leafLength, leaves, key, last) = {q} \cup LeavesFrom(leafLength, leaves, after, last)
  BY <1>7, <1>8, <1>9
<1> QED  BY <1>1, <1>5, <1>10 DEF LeafBetween

(* Where the loop ends, past the last page or at one without a leaf, there *)
(* is nothing left to go to.                                               *)
LEMMA NoLeafLeft ==
  ASSUME NEW leafLength \in Nat \ {0}, NEW leaves \in Nat, NEW last \in Int,
         NEW key \in Nat, key > last \/ key \div leafLength >= leaves
  PROVE  LeavesFrom(leafLength, leaves, key, last) = {}
<1> SUFFICES ASSUME NEW k \in key .. last, k \div leafLength \in 0 .. leaves - 1
             PROVE  FALSE
  BY DEF LeavesFrom
<1>1. k \in Nat /\ key <= k /\ key <= last
  OBVIOUS
<1>2. PICK q, r : q = key \div leafLength /\ r = k \div leafLength
  OBVIOUS
<1>3. /\ q \in Nat /\ q * leafLength <= key
      /\ r \in Nat /\ k < r * leafLength + leafLength
  BY <1>1, <1>2, Quotient
<1>4. q >= leaves /\ r <= leaves - 1
  BY <1>1, <1>2
<1>5. (r + 1) * leafLength <= q * leafLength
  BY <1>3, <1>4, TimesMonotonic
<1>6. (r + 1) * leafLength = r * leafLength + leafLength
  BY <1>3
<1>7. r * leafLength \in Nat /\ q * leafLength \in Nat
  BY <1>3
<1> QED  BY <1>1, <1>3, <1>5, <1>6, <1>7

(* What f says of the loop's turns: nothing at the end, else a leaf more.  *)
Loop(leafLength, leaves, last, f) ==
  f = [key \in 0 .. last + leafLength |->
         IF key > last \/ key \div leafLength >= leaves THEN {}
         ELSE {key \div leafLength} \cup f[After(leafLength, key)]]

(* The loop has one solution, and this is it.                              *)
LEMMA LoopSolved ==
  ASSUME NEW leafLength \in Nat \ {0}, NEW leaves \in Nat, NEW last \in Int,
         NEW f, Loop(leafLength, leaves, last, f)
  PROVE  \A key \in 0 .. last + leafLength : f[key] = LeavesFrom(leafLength, leaves, key, last)
<1> DEFINE Wrong == {key \in 0 .. last + leafLength :
                       f[key] # LeavesFrom(leafLength, leaves, key, last)}
           Far == {last + leafLength - key : key \in Wrong}
<1> SUFFICES ASSUME Wrong # {} PROVE FALSE
  OBVIOUS
<1>0. Far # {}
  <2>1. PICK key \in Wrong : TRUE
    OBVIOUS
  <2>2. last + leafLength - key \in Far
    BY <2>1
  <2> QED  BY <2>2
<1>1. Far \subseteq Nat
  OBVIOUS
<1>2. PICK m \in Far : \A x \in Far : m <= x
  BY <1>0, <1>1, LeastNumber, Zenon
<1>3. PICK key \in Wrong : m = last + leafLength - key
  OBVIOUS
<1>4. key \in Nat /\ key <= last + leafLength
  OBVIOUS
<1> DEFINE ended == key > last \/ key \div leafLength >= leaves
<1>5. f[key] = IF ended THEN {}
               ELSE {key \div leafLength} \cup f[After(leafLength, key)]
  BY <1>4, key \in 0 .. last + leafLength, Zenon DEF Loop
<1>6. CASE ended
  <2>1. LeavesFrom(leafLength, leaves, key, last) = {}
    BY <1>4, <1>6, NoLeafLeft
  <2> QED  BY <1>5, <1>6, <2>1
<1>7. CASE ~ended
  <2>0. key <= last /\ key \div leafLength < leaves
    <3>1. key \div leafLength \in Nat
      BY <1>4, Quotient
    <3> QED  BY <1>4, <1>7, <3>1
  <2>1. PICK after : after = After(leafLength, key)
    OBVIOUS
  <2>2. /\ after \in Nat /\ key < after /\ after <= key + leafLength
        /\ LeavesFrom(leafLength, leaves, key, last) =
             {key \div leafLength} \cup LeavesFrom(leafLength, leaves, after, last)
    <3>1. LeafBetween(leafLength, leaves, key, after, last)
      BY <1>4, <2>0, <2>1, OneLeafOn
    <3> QED  BY <3>1 DEF LeafBetween
  <2>3. after \in 0 .. last + leafLength
    BY <1>4, <2>0, <2>2
  <2>4. last + leafLength - after < last + leafLength - key
    BY <1>4, <2>2
  <2>5. after \notin Wrong
    <3>1. ASSUME after \in Wrong PROVE FALSE
      <4>1. last + leafLength - after \in Far
        BY <3>1
      <4>2. last + leafLength - key <= last + leafLength - after
        BY <1>2, <1>3, <4>1
      <4> QED  BY <1>4, <2>2, <2>4, <4>2
    <3> QED  BY <3>1
  <2>6. f[after] = LeavesFrom(leafLength, leaves, after, last)
    BY <2>3, <2>5
  <2> QED  BY <1>4, <1>5, <1>7, <2>1, <2>2, <2>6
<1> QED  BY <1>6, <1>7

(* TCMalloc_PageMap3::Ensure(start, count) goes to the leaf of every page  *)
(* it is asked for and to no other, wherever the pages start and end in    *)
(* their leaves.                                                           *)
THEOREM EnsureExactEverywhere ==
  \A leafLength \in Nat \ {0}, leaves \in Nat, start \in Nat, count \in Nat :
    EnsureExact(leafLength, leaves, start, count)
<1> SUFFICES ASSUME NEW leafLength \in Nat \ {0}, NEW leaves \in Nat,
                    NEW start \in Nat, NEW count \in Nat
             PROVE  EnsureExact(leafLength, leaves, start, count)
  OBVIOUS
<1>1. PICK last : last = start + count - 1
  OBVIOUS
<1>2. last \in Int /\ start \in 0 .. last + leafLength
  BY <1>1
<1> DEFINE Turn(g) == [key \in 0 .. last + leafLength |->
                         IF key > last \/ key \div leafLength >= leaves THEN {}
                         ELSE {key \div leafLength} \cup g[After(leafLength, key)]]
           closed == [key \in 0 .. last + leafLength |->
                        LeavesFrom(leafLength, leaves, key, last)]
<1>3. PICK f : /\ Visits(leafLength, leaves, start, count) = f[start]
               /\ f = CHOOSE g : g = Turn(g)
  BY <1>1, Zenon DEF Visits, After
<1>4. closed = Turn(closed)
  <2> SUFFICES ASSUME NEW key \in 0 .. last + leafLength
               PROVE  LeavesFrom(leafLength, leaves, key, last)
                        = IF key > last \/ key \div leafLength >= leaves THEN {}
                          ELSE {key \div leafLength} \cup closed[After(leafLength, key)]
    BY Zenon
  <2>0. key \in Nat /\ key \div leafLength \in Nat
    BY <1>2, Quotient
  <2>1. CASE key > last \/ key \div leafLength >= leaves
    BY <1>2, <2>0, <2>1, NoLeafLeft
  <2>2. CASE ~(key > last \/ key \div leafLength >= leaves)
    <3>0. key <= last /\ key \div leafLength < leaves
      BY <1>2, <2>0, <2>2
    <3>1. PICK after : after = After(leafLength, key)
      OBVIOUS
    <3>2. /\ after \in Nat /\ after <= key + leafLength
          /\ LeavesFrom(leafLength, leaves, key, last) =
               {key \div leafLength} \cup LeavesFrom(leafLength, leaves, after, last)
      <4>1. LeafBetween(leafLength, leaves, key, after, last)
        BY <1>2, <2>0, <3>0, <3>1, OneLeafOn
      <4> QED  BY <4>1 DEF LeafBetween
    <3>3. after \in 0 .. last + leafLength
      BY <1>2, <3>0, <3>2
    <3>4. closed[after] = LeavesFrom(leafLength, leaves, after, last)
      BY <3>3
    <3> QED  BY <1>2, <2>2, <3>1, <3>2, <3>4
  <2> QED  BY <1>2, <2>1, <2>2
<1>5. f = Turn(f)
  <2> HIDE DEF Turn, closed
  <2> QED  BY <1>3, <1>4, Zenon
<1>6. f[start] = LeavesFrom(leafLength, leaves, start, last)
  <2>1. Loop(leafLength, leaves, last, f)
    BY <1>5, Zenon DEF Loop
  <2> QED  BY <1>2, <2>1, LoopSolved, Zenon
<1> QED  BY <1>1, <1>3, <1>6 DEF EnsureExact, LeavesFrom

(* What the walk looks at page by page, at every page the map has.         *)
THEOREM PageMapSoundEverywhere == number \in 1 .. Size - 1 => PageMapSound
<1> SUFFICES ASSUME number \in 1 .. Size - 1 PROVE PageMapSound
  OBVIOUS
<1>1. Size \in Nat
  BY LengthsAssumption DEF Size
<1>2. number \in 0 .. Size - 1 /\ Size - number \in 0 .. Size - 1
  BY <1>1
<1>3. number % 64 \in Nat /\ (number - 1) \div 64 + 1 \in Nat
  <2>1. number \in Nat /\ number - 1 \in Nat /\ 64 \in Nat \ {0}
    OBVIOUS
  <2>2. (number - 1) \div 64 \in Nat
    BY <2>1, Quotient
  <2>3. number % 64 \in 0 .. 64 - 1
    BY <2>1, Remainder
  <2> QED  BY <2>2, <2>3
<1>4. EnsureExact(8, 12, number % 64, (number - 1) \div 64 + 1)
  BY <1>3, EnsureExactEverywhere
<1> QED  BY <1>2, <1>4, PlacesExactEverywhere DEF PageMapSound
=============================================================================
