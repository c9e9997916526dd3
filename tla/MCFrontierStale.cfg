SPECIFICATION Spec
CONSTANTS
  Producers = {p1}
  Consumers = {c1,c2}
  Capacity = 4
  MaxBatch = 3
  EnqueueCalls <- EnqueueBulks
  DequeueCalls <- DequeueBulks
  recordLookahead = 2
  recordLookaheadMinStride = 8
  MaxPosition = 5
SYMMETRY Symmetry
INVARIANT ShortfallIsFresh
