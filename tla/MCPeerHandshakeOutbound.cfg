CONSTANT Inbound = FALSE
CONSTANT NonceCap = 2
CONSTANT MaxOthers = 3
SPECIFICATION Spec
\* the handshake ends: start returns and the goroutine exits or blocks
CHECK_DEADLOCK FALSE
INVARIANT HandshakeSound
