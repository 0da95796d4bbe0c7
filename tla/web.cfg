CONSTANTS
  LISTENER = LISTENER
  Conns = {c1, c2}
  Requests <- AllRequests
  LISTEN_BACKLOG = 2
  MaxInserts = 1
SPECIFICATION FairSpec
INVARIANTS TypeOK LoopNeverBlocks PagesProtected
PROPERTIES AcceptedAreServed
CHECK_DEADLOCK FALSE
