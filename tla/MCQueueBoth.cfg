SPECIFICATION Spec
CONSTANTS
  Consumers = {c1, c2}
  Producers = {p1, p2}
  Closers = {}
  Capacity = 1
  MaxPushBatch = 1
  MaxReceiveBatch = 1
  MaxItems = 1
  WakeCap = 1
  ConsumerWait <- ParkAtOnce
  ProducerWait <- ParkAtOnce
  ConsumerCalls = {"Receive"}
  ProducerCalls = {"Push"}
  Cancellable = {p1, p2}
SYMMETRY Symmetry
INVARIANTS ItemsWatched RoomWatched
