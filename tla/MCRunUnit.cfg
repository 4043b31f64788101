CONSTANTS
  MaxCmds = 3
  MaxLogs = 1
SPECIFICATION Spec
\* the unit stops for good after Shutdown, and the user stops at MaxCmds
CHECK_DEADLOCK FALSE
INVARIANT StoppedMeansNoChild
