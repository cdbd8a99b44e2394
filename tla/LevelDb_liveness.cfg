SPECIFICATION FairSpec
CONSTANTS
  Writes = {w1, w2, w3}
  Synced = {w3}
  WriteBufferSize = 1
  MaxGroup = 2
  kL0_CompactionTrigger = 2
  kL0_StopWritesTrigger = 3
  MaxErrors = 1
  MaxDamage = 0
  MaxKills = 1
  MaxCrashes = 1
INVARIANT RestartChangesNothing
PROPERTIES EveryWriteIsAnswered StoreSpec
CHECK_DEADLOCK FALSE
