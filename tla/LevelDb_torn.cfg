SPECIFICATION Spec
CONSTANTS
  Writes = {w1, w2}
  Synced = {}
  WriteBufferSize = 1
  MaxGroup = 2
  kL0_CompactionTrigger = 2
  kL0_StopWritesTrigger = 2
  MaxErrors = 0
  MaxDamage = 1
  MaxKills = 1
  MaxCrashes = 0
INVARIANT ProcessCrashLosesNothing
CHECK_DEADLOCK FALSE
