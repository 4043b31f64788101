CONSTANTS
  c1 = c1
  Callers <- MCCallers
  OutputBufferSize = 1
  MaxPings = 1
  MaxRecv = 0
SPECIFICATION Spec
\* every goroutine of the peer ends after Disconnect: a terminal state is
\* the peer's normal end, not a deadlock
CHECK_DEADLOCK FALSE
PROPERTY HandlersTerminate
