CONSTANTS
  c1 = c1
  Callers <- MCCallers
  OutputBufferSize <- MCOutputBufferSize
  MaxPings <- MCMaxPings
  MaxRecv <- MCMaxRecv
SPECIFICATION Spec
\* every goroutine of the peer ends after Disconnect: a terminal state is
\* the peer's normal end, not a deadlock
CHECK_DEADLOCK FALSE
INVARIANT TypeOK
INVARIANT SendPipelineBalanced
PROPERTY ImplementsOutbound
