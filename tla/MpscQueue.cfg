CONSTANTS
  Producer = {p1, p2}
  Consumer = consumer
  Node = {a, b, c}
  Stub = stub
  NULL = NULL
  MaxFront = 1
SPECIFICATION FairSpec
INVARIANTS
  TypeOK
  NoLateLink
  IterationInOrder
PROPERTIES
  FifoSpec
  EmptyUnlessBusy
  Delivered
