SPECIFICATION Spec
CONSTANTS
  Consumers = {c1, c2}
  Producers = {p1}
  Closers = {}
  Capacity = 2
  MaxPushBatch = 2
  MaxReceiveBatch = 1
  MaxItems = 2
  WakeCap = 2
  ConsumerWait <- ParkAtOnce
  ProducerWait <- KeepPolling
  ConsumerCalls = {"Receive"}
  ProducerCalls = {"PushBatch", "TryPush"}
  Cancellable = {c1, c2}
SYMMETRY Symmetry
INVARIANTS ItemsWatched ReturnLeavesWait
