SPECIFICATION Spec
CONSTANTS
  NPAGES = 3
  Pages <- OneAndTwo
  Granularity = 1
  Spans = {s1, s2, s3}
  NoSpan = NoSpan
  LargeRequests <- Two
  Threads = {t1, t2}
  PageUnits = 2
  Classes <- OneAndTwo
  ObjSize <- OneAndFour
  MoveLimit <- BothTwo
  MovePages <- OnesAndTwos
  Large = Large
  NoThread = NoThread
INVARIANTS
  TypeOK
  OneOwner
  UseCountExact
  NoObjectLost
  HomeListed
  NothingHoarded
  CacheBounded
PROPERTIES
  ImplementsMalloc
  UsesPageCache
\* A refused SystemAlloc leaves _pageMtx locked, an assertion ends the program.
CHECK_DEADLOCK FALSE
SYMMETRY Symmetric
