SPECIFICATION Spec
CONSTANTS
  p1 = p1
  p2 = p2
  p3 = p3
  c1 = c1
  c2 = c2
  Producers = {p1, p2, p3}
  Consumers = {c1}
  Capacity = 4
  Word = 32
  Constructions <- RelaxedRings
  EnqueueLengths = {}
  DequeueLengths = {}
  Start = 30
  MaxMoved = 4
SYMMETRY Symmetry
INVARIANTS TailsSound QuiescentVisible
