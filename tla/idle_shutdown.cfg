SPECIFICATION Spec
CONSTANTS
  warm = warm
  batch = batch
  Tasks <- WarmAndBatch
  Timeout = 2
  Delay = 1
  PreemptedDrops = FALSE
PROPERTIES
  NeverAbandonsWork
  CountdownRestarts
  DormantLeaves
