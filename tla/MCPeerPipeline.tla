--------------------------- MODULE MCPeerPipeline ---------------------------
(* PeerPipeline instantiated for TLC: one external caller, an outputQueue *)
(* of two slots so that a full queue, a queued message waiting in          *)
(* pendingMsgs and a message behind the queue drain all occur.             *)
EXTENDS PeerPipeline

CONSTANTS c1

MCCallers == {c1}
MCOutputBufferSize == 2
MCMaxPings == 1
MCMaxRecv == 1
=============================================================================
