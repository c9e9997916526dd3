SPECIFICATION Spec
CONSTANTS
  Producers = {p1}
  Consumers = {c1,c2}
  Capacity = 2
  MaxBatch = 2
  EnqueueCalls <- EnqueueMix
  DequeueCalls <- DequeueMix
  recordLookahead = 2
  recordLookaheadMinStride = 1
  MaxPosition = 3
SYMMETRY Symmetry
INVARIANTS PositionsOrdered FrontiersSound SlotsExclusive FreshUnlessOvertaken
PROPERTY ImplementsEngine
