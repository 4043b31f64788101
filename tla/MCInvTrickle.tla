---------------------------- MODULE MCInvTrickle ----------------------------
EXTENDS InvTrickle

CONSTANTS v1, v2, v3

\* Three transaction invs; no block invs.
MCInvs == {v1, v2, v3}
MCTxOnly == {}
=============================================================================
