\* RunPageRankEdgePerLine: num_pages bounds every PageId of the input.
CONSTANTS
  N = 3
  MaxDeg = 2
  Iterations = 2
  Width = 2
  MaxLines = 2
  Modes = {"edge"}
SPECIFICATION Spec
CHECK_DEADLOCK FALSE
INVARIANT
  KeyRange
