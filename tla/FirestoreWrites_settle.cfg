SPECIFICATION FairSpec
CONSTANTS
  Writes = {w1, w2}
  Users = {mum, dad}
  Waiters = {x1}
  Handshake = Handshake
  NoBatch = NoBatch
  kMaxPendingWrites = 1
  MaxFaults = 1
  MaxChanges = 2
  MaxToggles = 0
PROPERTIES AnswersSpec Drains
CHECK_DEADLOCK FALSE
