SPECIFICATION Spec
CONSTANTS
  Writes = {w1, w2, w3, w4}
  Synced = {}
  WriteBufferSize = 1
  MaxGroup = 2
  kL0_CompactionTrigger = 2
  kL0_StopWritesTrigger = 3
  MaxErrors = 1
  MaxDamage = 1
  MaxKills = 1
  MaxCrashes = 1
INVARIANTS AckedSurvives RestartChangesNothing SequencesUnique OpensAgain
SYMMETRY Symmetry
CHECK_DEADLOCK FALSE
