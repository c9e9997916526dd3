SPECIFICATION FairSpec
CONSTANTS
  Consumers = {c1}
  Producers = {p1}
  Closers = {k1}
  Capacity = 1
  MaxPushBatch = 1
  MaxReceiveBatch = 1
  MaxItems = 1
  WakeCap = 1
  ConsumerWait <- ParkAtOnce
  ProducerWait <- ParkAtOnce
  ConsumerCalls = {"Receive"}
  ProducerCalls = {"Push"}
  Cancellable = {c1, p1}
PROPERTIES CloseReleases CancelReturns SleepersWoken
