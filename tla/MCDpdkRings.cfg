SPECIFICATION Spec
CONSTANTS
  p1 = p1
  p2 = p2
  p3 = p3
  c1 = c1
  c2 = c2
  Producers = {p1,p2}
  Consumers = {c1,c2}
  Capacity = 2
  Word = 16
  Constructions <- Rings
  EnqueueLengths = {2}
  DequeueLengths = {0,2}
  Start = 14
  MaxMoved = 3
SYMMETRY Symmetry
INVARIANTS WaitsEnd TailsSound QuiescentVisible
PROPERTIES CacheCostsNothing ImplementsEngine
