---------------------------- MODULE PeerOutbound ----------------------------
(***************************************************************************)
(* What a peer promises for the messages given to QueueMessage (spec.md,  *)
(* section 5, "Ordering guarantees" and "Cancellation"): an accepted       *)
(* message is written to the connection after every message accepted      *)
(* before it, exactly once, unless the peer is disconnecting, in which     *)
(* case any of the messages not yet written may be discarded.  A write     *)
(* that fails disconnects the peer and loses the message being written.    *)
(***************************************************************************)
EXTENDS Naturals, Sequences, SequencesExt

CONSTANT Ids   \* message identities

VARIABLES
  queue,  \* accepted messages not yet written or discarded, oldest first
  sent,   \* messages written to the connection, in order
  down    \* the peer is disconnecting

\* The sequences left of s when any of its elements are removed, in order.
Remaining(s) ==
  { LET kept == SetToSortSeq(D, <) IN [j \in DOMAIN kept |-> s[kept[j]]]
    : D \in SUBSET DOMAIN s }

Accept(m) ==
  /\ queue' = Append(queue, m)
  /\ UNCHANGED <<sent, down>>

Transmit ==
  /\ ~down
  /\ queue # <<>>
  /\ sent' = Append(sent, Head(queue))
  /\ queue' = Tail(queue)
  /\ UNCHANGED down

FailedWrite ==
  /\ ~down
  /\ queue # <<>>
  /\ queue' = Tail(queue)
  /\ down' = TRUE
  /\ UNCHANGED sent

Disconnect ==
  /\ ~down
  /\ down' = TRUE
  /\ UNCHANGED <<queue, sent>>

Discard ==
  /\ down
  /\ queue' \in Remaining(queue) \ {queue}
  /\ UNCHANGED <<sent, down>>

Init == queue = <<>> /\ sent = <<>> /\ down = FALSE

Next ==
  \/ \E m \in Ids : Accept(m)
  \/ Transmit \/ FailedWrite \/ Disconnect \/ Discard

Spec == Init /\ [][Next]_<<queue, sent, down>>
=============================================================================
