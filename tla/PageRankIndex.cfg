\* PageRank index-based shape over every graph of 3 pages with out-degree <= 2.
CONSTANTS
  N = 3
  MaxDeg = 2
  Iterations = 3
SPECIFICATION Spec
\* PageRank returns after the last iteration: the final state has no successor.
CHECK_DEADLOCK FALSE
INVARIANTS
  TypeOK
  RankMass
PROPERTIES
  ImplementsPageRankSpec
