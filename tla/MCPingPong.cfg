\* Pings every 2 clock ticks, so a pong can come back within the interval
\* or after the next ping; 3 pings overlap; the remote repeats one pong.
CONSTANTS
  PingInterval = 2
  MaxTime = 7
  MaxPings = 3
  MaxRepeats = 1
SPECIFICATION Spec
\* The clock stops at MaxTime; pingHandler never stops on its own.
CHECK_DEADLOCK FALSE
INVARIANT TypeOK
INVARIANT LatencyIsRoundTrip
