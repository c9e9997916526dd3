SPECIFICATION Spec
CONSTANTS
  None = None
  x = x
  y = y
  c1 = c1
  c2 = c2
  Callers = {c1, c2}
  Policy <- Limits
  Configs <- Queues
SYMMETRY Symmetry
CHECK_DEADLOCK FALSE
INVARIANTS StoreValid AnswersTrue DrainedForGood ResourcesOwned
PROPERTY FencedAcks
