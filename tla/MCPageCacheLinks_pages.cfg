SPECIFICATION SpecLinked
CONSTANTS
  NPAGES = 4
  Pages <- ThreeToEight
  Granularity = 3
  Spans = {s1, s2, s3, s4, s5, s6, s7}
  NoSpan = NoSpan
  CentralRequests <- OneAndTwo
  LargeRequests <- TwoThreeFour
INVARIANTS
  TypeOK
  SpansDisjoint
  NoPageLost
  LookupExact
  FreeSpansFound
  DescriptorsAccounted
  RingsAgree
  PoolExact
PROPERTIES
  CorruptOnlyByLarge
  ReleaseMergesFully
  ImplementsAllocator
\* A refused SystemAlloc leaves _pageMtx locked for good.
CHECK_DEADLOCK FALSE
SYMMETRY Symmetric
