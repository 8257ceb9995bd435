\* The map entry of a huge span outlives the span and its descriptor.
SPECIFICATION Spec
CONSTANTS
  NPAGES = 3
  Pages <- TwoToSeven
  Granularity = 2
  Spans = {s1, s2, s3, s4}
  NoSpan = NoSpan
  CentralRequests <- One
  LargeRequests <- Three
PROPERTY MergesOnlyNeighbours
CHECK_DEADLOCK FALSE
SYMMETRY Symmetric
