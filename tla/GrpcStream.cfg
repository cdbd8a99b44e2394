SPECIFICATION FairSpec
CONSTANTS
  MaxSent = 4
  MaxWritten = 4
INVARIANTS OneOfEachType FinishedProperly NothingDangles AlwaysListening
PROPERTIES ChannelSpec EndIsNoticed WorkerReturns
CHECK_DEADLOCK FALSE
