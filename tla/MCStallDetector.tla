-------------------------- MODULE MCStallDetector ---------------------------
(* StallDetector for TLC: a getdata (four deadlines, one group) and a      *)
(* version (a single deadline); answers from both groups; a response      *)
(* timeout of two ticks so that handler time can straddle several ticks.  *)
EXTENDS StallDetector

MCSendCmds == {"getdata", "version"}
MCRecvCmds == {"tx", "block", "verack"}
=============================================================================
