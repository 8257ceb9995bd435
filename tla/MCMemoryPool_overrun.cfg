SPECIFICATION Spec
CONSTANTS
  NPAGES = 3
  Pages <- OneAndTwo
  Granularity = 1
  Spans = {s1, s2, s3}
  NoSpan = NoSpan
  LargeRequests <- Two
  Threads = {t1, t2}
  PageUnits = 4
  Classes <- One
  ObjSize <- Threes
  MoveLimit <- Twos
  MovePages <- Ones
  Large = Large
  NoThread = NoThread
INVARIANT HeldApart
\* ceil(4/3) = 2 objects of 3 units are cut from a page of 4.
CHECK_DEADLOCK FALSE
SYMMETRY Symmetric
