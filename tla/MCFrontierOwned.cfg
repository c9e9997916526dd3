CONSTANTS
  p1 = p1
  p2 = p2
  c1 = c1
  c2 = c2
  o1 = o1
  o2 = o2
  Producers = {p1, p2}
  Consumers = {c1, c2}
  Observers = {o1, o2}
  Capacity = 2
  Word = 16
  Constructions <- Queues
  recordLookahead = 2
  recordLookaheadMinStride = 1
  Start = 15
  AfterReset = 1
SPECIFICATION Spec
SYMMETRY Symmetry
PROPERTIES
  ShortfallIsFresh
  CountSound
  ImplementsEngine
