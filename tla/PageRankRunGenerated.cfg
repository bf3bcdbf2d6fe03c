\* RunPageRankGenerated on every graph of 3 pages with out-degree <= 2.
CONSTANTS
  N = 3
  MaxDeg = 2
  Iterations = 2
  Width = 2
  MaxLines = 2
  Modes = {"gen"}
SPECIFICATION Spec
CHECK_DEADLOCK FALSE
INVARIANT
  OutputIsPageRank
