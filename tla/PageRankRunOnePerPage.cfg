\* RunJoinPageRankEdgePerLine: one output line per page of the input.
CONSTANTS
  N = 3
  MaxDeg = 2
  Iterations = 2
  Width = 2
  MaxLines = 2
  Modes = {"join_edge"}
SPECIFICATION Spec
CHECK_DEADLOCK FALSE
INVARIANT
  OnePerPage
