SPECIFICATION Spec
CONSTANTS
  Writes = {w1, w2, w3}
  Users = {mum, dad}
  Waiters = {x1}
  Handshake = Handshake
  NoBatch = NoBatch
  kMaxPendingWrites = 2
  MaxFaults = 1
  MaxChanges = 1
  MaxToggles = 1
INVARIANTS PipelineIsPrefix ResponsesInOrder OkMeansCommitted
           CallbacksAreQueued WaitersHold NothingLost CommittedInOrder
           TokenOfStream AssertsHold
SYMMETRY Symmetry
CHECK_DEADLOCK FALSE
