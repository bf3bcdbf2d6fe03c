\* The three shapes on every graph of 3 pages with out-degree <= 2, 3 iterations.
CONSTANTS
  N = 3
  MaxDeg = 2
  Iterations = 3
SPECIFICATION Spec
\* The loops end after the fixed iteration count.
CHECK_DEADLOCK FALSE
INVARIANTS
  TypeOK
  JoinNeverExceedsIndex
