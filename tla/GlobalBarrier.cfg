\* Three flows, up to two flushes among ordinary writes, failures at any time.
CONSTANTS
  NumShards = 3
  MaxRecords = 2
  MaxFlushes = 2
SPECIFICATION FairSpec
INVARIANTS SamePoint RendezvousInv
PROPERTIES SessionEnds FlowsCatchUp
CHECK_DEADLOCK FALSE
