------------------------------ MODULE SizeClass ------------------------------
(***************************************************************************)
(* The arithmetic every layer of ConcurrentMemoryPool hangs on (SizeClass  *)
(* of Common.h): to which size a request is rounded, on which of the       *)
(* NFREELISTS lists objects of that size live, how many of them and how    *)
(* many pages move between the caches at a time; with it the count of      *)
(* objects that GetOneSpan cuts from those pages.                          *)
(***************************************************************************)
EXTENDS Integers

CONSTANT Word   \* how many values size_t has

MAX_BYTES  == 262144
NFREELISTS == 208
NPAGES     == 129
PageSize   == 8192      \* 1 << PAGE_SHIFT

ASSUME WordAssumption == /\ Word \in Nat
                         /\ Word > 2 * MAX_BYTES
                         /\ Word % PageSize = 0

(* The five tiers of sizes, the last with MAX_BYTES at its end, and the    *)
(* sizes beyond, which are made whole pages.                               *)
Tier(bytes) ==
  IF bytes <= 128 THEN 1
  ELSE IF bytes <= 1024 THEN 2
  ELSE IF bytes <= 8192 THEN 3
  ELSE IF bytes <= 65536 THEN 4
  ELSE IF bytes <= MAX_BYTES THEN 5
  ELSE 6

Align == <<8, 16, 128, 1024, 8192, PageSize>>  \* what a tier rounds to
Below == <<0, 128, 1024, 8192, 65536>>         \* the end of the tier before it
First == <<0, 16, 72, 128, 184>>               \* its first list: sums of groupArray

\* Wrong form: a multiple of align is rounded to the next.
RoundToNext(bytes, align) == bytes + align - (bytes % align)

(* _RoundUp: the sum wraps at the end of size_t, the mask clears what is   *)
(* over a multiple of align, a power of two.                               *)
RoundTo(bytes, align) ==
  LET sum == (bytes + align - 1) % Word IN sum - (sum % align)

RoundUp(bytes) == RoundTo(bytes, Align[Tier(bytes)])

(* _Index: unsigned, so that nothing is below 0. *)
IndexIn(bytes, align) == (((bytes + align - 1) \div align) - 1) % Word

\* Wrong form: the tiers before are not taken off.
IndexFromZero(bytes) ==
  LET t == Tier(bytes) IN IndexIn(bytes, Align[t]) + First[t]

(* Index, for the sizes that have a list. *)
Index(bytes) ==
  LET t == Tier(bytes) IN IndexIn(bytes - Below[t], Align[t]) + First[t]

(* The most objects of a size that move at a time: between 2 and 512. *)
NumMoveSize(size) ==
  LET num == MAX_BYTES \div size
  IN  IF num < 2 THEN 2 ELSE IF num > 512 THEN 512 ELSE num

(* The pages the central cache asks for when it has no objects left. *)
NumMovePage(size) ==
  LET pages == (NumMoveSize(size) * size) \div PageSize
  IN  IF pages = 0 THEN 1 ELSE pages

SpanBytes(size) == NumMovePage(size) * PageSize

(* The objects GetOneSpan cuts from such a span: one at its start and one  *)
(* at every size-th byte before its end.                                   *)
CarvedObjects(size) == (SpanBytes(size) + size - 1) \div size

(* kPage of ConcurrentAlloc *)
LargePages(bytes) == RoundUp(bytes) \div PageSize

-----------------------------------------------------------------------------
(* What the rest of the pool needs of these numbers. *)

Sizes == 1 .. MAX_BYTES

(* An object goes back to the list it came from: Allocate takes it from    *)
(* the list of the size asked for, Deallocate puts it on the list of the   *)
(* size in its span's descriptor, which is the rounded one.                *)
SameList(bytes) == Index(RoundUp(bytes)) = Index(bytes)

(* The list is one of the NFREELISTS there are. *)
ListExists(bytes) == Index(bytes) \in 0 .. NFREELISTS - 1

(* The caller gets what it asked for, and past the first tier loses less   *)
(* than a ninth of it to rounding (the code's "about 10%").                *)
LittleWaste(bytes) ==
  /\ RoundUp(bytes) >= bytes
  /\ bytes > 128 => 9 * (RoundUp(bytes) - bytes) < RoundUp(bytes)

(* A list holds objects of one size only. *)
OneSizePerList(a, b) == (Index(a) = Index(b)) <=> (RoundUp(a) = RoundUp(b))

(* A span for the central cache can hold an object, and is short enough    *)
(* for the lists of the page cache, so that every page of it is mapped.    *)
SpanSuits(bytes) ==
  /\ NumMovePage(RoundUp(bytes)) \in 1 .. NPAGES - 1
  /\ RoundUp(bytes) <= SpanBytes(RoundUp(bytes))
  /\ NumMoveSize(RoundUp(bytes)) \in 2 .. 512

(* The last object cut from a span begins in it; it ends in it exactly     *)
(* when the size divides the span.                                         *)
LastCut(bytes) ==
  LET size == RoundUp(bytes)
  IN  /\ (CarvedObjects(size) - 1) * size < SpanBytes(size)
      /\ (CarvedObjects(size) * size <= SpanBytes(size)) <=> (SpanBytes(size) % size = 0)

(* A large request asks the page cache for at least one page. *)
AsksForPages(bytes) == LargePages(bytes) > 0
=============================================================================
