SPECIFICATION FairSpec
CONSTANTS
  NPAGES = 3
  Pages <- ThreeToFive
  Granularity = 3
  Spans = {s1, s2, s3}
  NoSpan = NoSpan
  LargeRequests <- Three
  Threads = {t1, t2}
  PageUnits = 2
  Classes <- One
  ObjSize <- Ones
  MoveLimit <- Twos
  MovePages <- Ones
  Large = Large
  NoThread = NoThread
PROPERTY CallsEnd
\* A refused SystemAlloc leaves _pageMtx locked, an assertion ends the program.
CHECK_DEADLOCK FALSE

