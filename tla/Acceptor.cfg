SPECIFICATION FairSpec
CONSTANTS
  Conns = {c1, c2, c3}
  Hops = {"pool", "back"}
INVARIANTS ReturnsAfterHandlers
PROPERTIES SpinEnds
CHECK_DEADLOCK FALSE
