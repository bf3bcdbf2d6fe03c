\* Scenario D of spec.md: the join shape agrees with the index shape.
CONSTANTS
  N = 3
  MaxDeg = 2
  Iterations = 3
SPECIFICATION Spec
CHECK_DEADLOCK FALSE
INVARIANT
  JoinAgreesWithIndex
