CONSTANTS
  SendCmds <- MCSendCmds
  RecvCmds <- MCRecvCmds
  ResponseTimeout = 2
  MaxTime = 5
  MaxSends = 2
  MaxRecv = 2
SPECIFICATION Spec
\* a stall disconnect ends the peer, and the clock stops at MaxTime
CHECK_DEADLOCK FALSE


INVARIANT HeldUntilAnswered
