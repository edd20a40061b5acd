CONSTANTS
  Worker = {main, w1}
  Main = main
  Urcu = urcu
  Obj = {o1, o2, o3}
  NONE = NONE
  Programs <- BarrierPrograms
SPECIFICATION Spec
CHECK_DEADLOCK FALSE
INVARIANT BarrierWaitsForAll
