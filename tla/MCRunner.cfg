SPECIFICATION FairSpec
CONSTANTS
  s1 = s1
  s2 = s2
  s3 = s3
  w1 = w1
  w2 = w2
  o1 = o1
  o2 = o2
  None = None
  Submitters = {s1, s2, s3}
  Workers = {w1, w2}
  Owners = {o1, o2}
  Coordinator = c
  Batch <- Batches
  Configs <- Runners
CHECK_DEADLOCK FALSE
INVARIANTS Reconciled OutcomeFinal AbandonedAfterAborting
PROPERTY StopCompletes
