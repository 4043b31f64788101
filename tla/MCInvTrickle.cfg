CONSTANTS
  v1 = v1
  v2 = v2
  v3 = v3
  Invs <- MCInvs
  BlockInvs <- MCTxOnly
  Callers = {c1, c2}
  KnownCap = 2
  MaxInvTrickleSize = 2
  InvChanCap = 2
  MaxQueue = 3
SPECIFICATION Spec
INVARIANTS
  TypeOK
  InvBatchBound
\* the peer stops after Disconnect, and the callers stop at MaxQueue
CHECK_DEADLOCK FALSE
PROPERTIES
  ReannouncedOnlyAfterEviction
  InvAnnounced
  QueueInventoryReturns
