\* RunPageRankEdgePerLine and RunJoinPageRankEdgePerLine on every input of
\* up to 2 lines over 2-bit PageIds, and RunPageRankJoinGenerated on every
\* graph of 3 pages with out-degree <= 2.
CONSTANTS
  N = 3
  MaxDeg = 2
  Iterations = 2
  Width = 2
  MaxLines = 2
  Modes = {"edge", "join_edge", "join_gen"}
SPECIFICATION Spec
\* The Run function returns (or dies) after writing the output.
CHECK_DEADLOCK FALSE
INVARIANT
  OutputIsPageRank
