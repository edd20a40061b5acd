CONSTANTS
  Worker = {main, w1}
  Main = main
  Urcu = urcu
  Obj = {o1, o2, o3}
  NONE = NONE
  Programs <- RcuPrograms
SPECIFICATION FairSpec
CHECK_DEADLOCK FALSE
INVARIANTS
  TypeOK
  CallbacksInOrder
  BarrierWaitsForOwn
PROPERTIES
  RcuSpec
  CallbacksRun
  ThreadsEnd
