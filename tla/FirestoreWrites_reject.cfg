SPECIFICATION Spec
CONSTANTS
  Writes = {w1, w2}
  Users = {mum}
  Waiters = {}
  Handshake = Handshake
  NoBatch = NoBatch
  kMaxPendingWrites = 2
  MaxFaults = 1
  MaxChanges = 0
  MaxToggles = 1
INVARIANT RejectedWasRefused
CHECK_DEADLOCK FALSE
