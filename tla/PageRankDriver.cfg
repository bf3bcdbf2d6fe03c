CONSTANTS
  Workers = {0, 1}
  MaxIter = 3
  Drivers = {"edge", "gen", "join_edge", "join_gen"}
SPECIFICATION Spec
INVARIANTS
  TypeOK
  NoUseAfterConsume
  LinksDrawnOnce
PROPERTIES
  AllWorkersFinish
