SPECIFICATION Spec
CONSTANTS
  Consumers = {c1}
  Producers = {p1}
  Closers = {k1}
  Capacity = 2
  MaxPushBatch = 2
  MaxReceiveBatch = 1
  MaxItems = 3
  WakeCap = 1
  ConsumerWait <- SpinThenPark
  ProducerWait <- SpinThenPark
  ConsumerCalls = {"Receive", "TryReceive", "Consume"}
  ProducerCalls = {"PushBatch", "TryPushBatch"}
  Cancellable = {c1, p1}
INVARIANTS DrainedMeansEmpty PushOutcome LateCalls CloseReachesWaiters
