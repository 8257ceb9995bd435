\* A large span that is held is taken for free by its neighbour's release.
SPECIFICATION Spec
CONSTANTS
  NPAGES = 4
  Pages <- OneToSix
  Granularity = 1
  Spans = {s1, s2, s3, s4}
  NoSpan = NoSpan
  CentralRequests <- One
  LargeRequests <- Two
INVARIANT Intact
CHECK_DEADLOCK FALSE
SYMMETRY Symmetric
