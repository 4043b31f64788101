----------------------------- MODULE InvTrickle -----------------------------
(***************************************************************************)
(* Inventory announcement to one peer (src/pkg/ecc/precomp/genprecomps.go):*)
(* QueueInventory, AddKnownInventory, and the outputInvChan and trickle    *)
(* cases of queueHandler, with the per-peer known-inventory MRU map.       *)
(* An inv message handed to queuePacket is recorded in `emitted`; its way  *)
(* to the wire is the send pipeline of PeerPipeline.                       *)
(***************************************************************************)
EXTENDS Naturals, Sequences, SequencesExt

CONSTANTS
  Invs,              \* inventory vectors
  BlockInvs,         \* those of type InvTypeBlock or InvTypeWitnessBlock
  Callers,           \* goroutines calling QueueInventory (server relay)
  KnownCap,          \* capacity of knownInventory (maxKnownInventory = 30000)
  MaxInvTrickleSize, \* maxInvTrickleSize = 5000
  InvChanCap,        \* capacity of outputInvChan (outputBufferSize = 1000)
  MaxQueue           \* bound on QueueInventory calls

ASSUME BlockInvs \subseteq Invs
ASSUME KnownCap \in Nat \ {0} /\ MaxInvTrickleSize \in Nat \ {0}
ASSUME InvChanCap \in Nat \ {0} /\ MaxQueue \in Nat

VARIABLES
  known,         \* knownInventory: most recently used first
  invChan,       \* outputInvChan
  invSendQueue,  \* queueHandler's invSendQueue list
  invMsg,        \* the inv message the trickle is filling
  tpc,           \* queueHandler: "idle" in its select, "loop" in the
                 \* trickle, "drain" in its cleanup, "exited"
  emitted,       \* inv messages handed to queuePacket, in order
  cpc, cinv,     \* per caller: where it is in QueueInventory, and the inv
  queued,        \* QueueInventory calls so far
  disconnect,    \* the peer's disconnect flag
  \* For property checking:
  learned,       \* invs the server marked known through AddKnownInventory
  evictedSince   \* invs knownInventory evicted since the trickle last put
                 \* them in an inv message

vars == <<known, invChan, invSendQueue, invMsg, tpc, emitted, cpc, cinv, queued,
          disconnect, learned, evictedSince>>

-----------------------------------------------------------------------------
(* The MRU inventory map (mruInventoryMap, not in this repository).        *)

\* Exists does not change the recency order.
MruExists(m, v) == \E i \in 1..Len(m) : m[i] = v

\* Add moves an existing entry to the front; a new entry at capacity evicts
\* the least recently used one.
MruAdd(m, v) ==
  IF MruExists(m, v)
    THEN <<v>> \o SelectSeq(m, LAMBDA x : x # v)
    ELSE IF Len(m) >= KnownCap THEN <<v>> \o SubSeq(m, 1, Len(m) - 1)
                               ELSE <<v>> \o m

\* The entry Add(m, v) evicts, if any.
MruEvicted(m, v) ==
  IF ~MruExists(m, v) /\ Len(m) >= KnownCap THEN {m[Len(m)]} ELSE {}

-----------------------------------------------------------------------------
(* Callers.                                                                *)

\* QueueInventory: ignore inventory the peer is known to have, and do nothing
\* once disconnected; otherwise go on to the send on outputInvChan.
QICheck(c, v) ==
  /\ cpc[c] = "idle"
  /\ queued < MaxQueue
  /\ queued' = queued + 1
  /\ IF MruExists(known, v) \/ disconnect
       THEN UNCHANGED <<cpc, cinv>>
       ELSE /\ cpc' = [cpc EXCEPT ![c] = "send"]
            /\ cinv' = [cinv EXCEPT ![c] = v]
  /\ UNCHANGED <<known, invChan, invSendQueue, invMsg, tpc, emitted,
                 disconnect, learned, evictedSince>>

\* Mutant: the send does not wait for room in the channel.
QISendNoBlock(c) ==
  /\ cpc[c] = "send"
  /\ invChan' = Append(invChan, cinv[c])
  /\ cpc' = [cpc EXCEPT ![c] = "idle"]
  /\ UNCHANGED <<known, invSendQueue, invMsg, tpc, emitted, cinv, queued,
                 disconnect, learned, evictedSince>>

\* p.outputInvChan <- invVect
QISend(c) ==
  /\ cpc[c] = "send"
  /\ Len(invChan) < InvChanCap
  /\ invChan' = Append(invChan, cinv[c])
  /\ cpc' = [cpc EXCEPT ![c] = "idle"]
  /\ UNCHANGED <<known, invSendQueue, invMsg, tpc, emitted, cinv, queued,
                 disconnect, learned, evictedSince>>

\* AddKnownInventory from the server, e.g. for inventory the peer announced;
\* the server's calls are bounded to one per inv.
AddKnown(v) ==
  /\ v \notin learned
  /\ known' = MruAdd(known, v)
  /\ learned' = learned \cup {v}
  /\ evictedSince' = evictedSince \cup MruEvicted(known, v)
  /\ UNCHANGED <<invChan, invSendQueue, invMsg, tpc, emitted, cpc, cinv, queued,
                 disconnect>>

Disconnect ==
  /\ ~disconnect
  /\ disconnect' = TRUE
  /\ UNCHANGED <<known, invChan, invSendQueue, invMsg, tpc, emitted, cpc, cinv,
                 queued, learned, evictedSince>>

-----------------------------------------------------------------------------
(* queueHandler.  The version is known once the handlers run.              *)

\* case iv := <-p.outputInvChan: a block is announced at once, in an inv of
\* its own; anything else waits for the trickle.
InvRecv ==
  /\ tpc = "idle"
  /\ invChan # <<>>
  /\ invChan' = Tail(invChan)
  /\ IF Head(invChan) \in BlockInvs
       THEN /\ emitted' = Append(emitted, <<Head(invChan)>>)
            /\ UNCHANGED invSendQueue
       ELSE /\ invSendQueue' = Append(invSendQueue, Head(invChan))
            /\ UNCHANGED emitted
  /\ UNCHANGED <<known, invMsg, tpc, cpc, cinv, queued, disconnect, learned,
                 evictedSince>>

\* case <-trickleTicker.C: nothing to do when disconnecting or when there is
\* no queued inventory; otherwise start a new inv message.
TrickleTick ==
  /\ tpc = "idle"
  /\ ~disconnect
  /\ invSendQueue # <<>>
  /\ invMsg' = <<>>
  /\ tpc' = "loop"
  /\ UNCHANGED <<known, invChan, invSendQueue, emitted, cpc, cinv, queued,
                 disconnect, learned, evictedSince>>

\* Mutant: the drain loop does not re-check knownInventory.
TrickleElemNoRecheck ==
  /\ tpc = "loop"
  /\ invSendQueue # <<>>
  /\ invSendQueue' = Tail(invSendQueue)
  /\ LET iv == Head(invSendQueue)
         m  == Append(invMsg, iv)
     IN /\ IF Len(m) >= MaxInvTrickleSize
             THEN /\ emitted' = Append(emitted, m)
                  /\ invMsg' = <<>>
             ELSE /\ invMsg' = m
                  /\ UNCHANGED emitted
        /\ known' = MruAdd(known, iv)
        /\ evictedSince' = (evictedSince \cup MruEvicted(known, iv)) \ {iv}
  /\ UNCHANGED <<invChan, tpc, cpc, cinv, queued, disconnect, learned>>

\* Mutant: the batch is cut one entry too late (> for >=).
TrickleElemLate ==
  /\ tpc = "loop"
  /\ invSendQueue # <<>>
  /\ invSendQueue' = Tail(invSendQueue)
  /\ LET iv == Head(invSendQueue)
         m  == Append(invMsg, iv)
     IN IF MruExists(known, iv)
          THEN UNCHANGED <<invMsg, emitted, known, evictedSince>>
          ELSE /\ IF Len(m) > MaxInvTrickleSize
                    THEN /\ emitted' = Append(emitted, m)
                         /\ invMsg' = <<>>
                    ELSE /\ invMsg' = m
                         /\ UNCHANGED emitted
               /\ known' = MruAdd(known, iv)
               /\ evictedSince' = (evictedSince \cup MruEvicted(known, iv)) \ {iv}
  /\ UNCHANGED <<invChan, tpc, cpc, cinv, queued, disconnect, learned>>

\* One iteration of the drain loop: skip inventory that became known; add
\* the rest, queue the message when it reaches maxInvTrickleSize, and mark
\* the inventory known.
TrickleElem ==
  /\ tpc = "loop"
  /\ invSendQueue # <<>>
  /\ invSendQueue' = Tail(invSendQueue)
  /\ LET iv == Head(invSendQueue)
         m  == Append(invMsg, iv)
     IN IF MruExists(known, iv)
          THEN UNCHANGED <<invMsg, emitted, known, evictedSince>>
          ELSE /\ IF Len(m) >= MaxInvTrickleSize
                    THEN /\ emitted' = Append(emitted, m)
                         /\ invMsg' = <<>>
                    ELSE /\ invMsg' = m
                         /\ UNCHANGED emitted
               /\ known' = MruAdd(known, iv)
               /\ evictedSince' = (evictedSince \cup MruEvicted(known, iv)) \ {iv}
  /\ UNCHANGED <<invChan, tpc, cpc, cinv, queued, disconnect, learned>>

\* Mutant: the remainder after the loop is not queued.
TrickleFlushNoRemainder ==
  /\ tpc = "loop"
  /\ invSendQueue = <<>>
  /\ invMsg' = <<>>
  /\ tpc' = "idle"
  /\ UNCHANGED <<known, invChan, invSendQueue, emitted, cpc, cinv, queued,
                 disconnect, learned, evictedSince>>

\* After the loop: queue what is left, if anything.
TrickleFlush ==
  /\ tpc = "loop"
  /\ invSendQueue = <<>>
  /\ IF Len(invMsg) > 0 THEN emitted' = Append(emitted, invMsg)
                        ELSE UNCHANGED emitted
  /\ invMsg' = <<>>
  /\ tpc' = "idle"
  /\ UNCHANGED <<known, invChan, invSendQueue, cpc, cinv, queued, disconnect,
                 learned, evictedSince>>

\* Mutant: queueHandler exits without draining outputInvChan.
InvQuitNoDrain ==
  /\ tpc = "idle"
  /\ disconnect
  /\ tpc' = "exited"
  /\ UNCHANGED <<known, invChan, invSendQueue, invMsg, emitted, cpc, cinv, queued,
                 disconnect, learned, evictedSince>>

\* case <-p.quit.Wait(): break out of the loop; the trickle queue is
\* abandoned.
InvQuit ==
  /\ tpc = "idle"
  /\ disconnect
  /\ tpc' = "drain"
  /\ UNCHANGED <<known, invChan, invSendQueue, invMsg, emitted, cpc, cinv,
                 queued, disconnect, learned, evictedSince>>

\* The cleanup loop: receive from outputInvChan until it is empty
\* (default), which also lets blocked senders through; then exit.
InvDrain ==
  /\ tpc = "drain"
  /\ IF invChan # <<>> THEN /\ invChan' = Tail(invChan)
                            /\ UNCHANGED tpc
                       ELSE /\ tpc' = "exited"
                            /\ UNCHANGED invChan
  /\ UNCHANGED <<known, invSendQueue, invMsg, emitted, cpc, cinv, queued,
                 disconnect, learned, evictedSince>>

Init ==
  /\ known = <<>>
  /\ invChan = <<>>
  /\ invSendQueue = <<>>
  /\ invMsg = <<>>
  /\ tpc = "idle"
  /\ emitted = <<>>
  /\ cpc = [c \in Callers |-> "idle"]
  /\ cinv = [c \in Callers |-> CHOOSE v \in Invs : TRUE]
  /\ queued = 0
  /\ disconnect = FALSE
  /\ learned = {}
  /\ evictedSince = {}

Next ==
  \/ \E c \in Callers, v \in Invs : QICheck(c, v)
  \/ \E c \in Callers : QISend(c)
  \/ \E v \in Invs : AddKnown(v)
  \/ Disconnect
  \/ InvRecv \/ TrickleTick \/ TrickleElem \/ TrickleFlush \/ InvQuit \/ InvDrain

\* queueHandler and the callers blocked in QueueInventory are goroutines the
\* scheduler runs; select picks among ready cases at random, and the
\* trickle ticker's tick stays ready until taken. The server's calls and
\* Disconnect get no fairness.
Spec ==
  /\ Init /\ [][Next]_vars
  /\ \A c \in Callers : WF_vars(QISend(c))
  /\ WF_vars(InvRecv) /\ WF_vars(TrickleTick) /\ WF_vars(TrickleElem)
  /\ WF_vars(TrickleFlush) /\ WF_vars(InvQuit) /\ WF_vars(InvDrain)

-----------------------------------------------------------------------------
(* Properties.                                                             *)

TypeOK ==
  /\ known \in Seq(Invs) /\ Len(known) <= KnownCap
  /\ invChan \in Seq(Invs) /\ Len(invChan) <= InvChanCap
  /\ invSendQueue \in Seq(Invs)
  /\ invMsg \in Seq(Invs)
  /\ tpc \in {"idle", "loop", "drain", "exited"}
  /\ cpc \in [Callers -> {"idle", "send"}]
  /\ queued \in 0..MaxQueue

\* Number of times v was announced to the peer.
Announced(v) ==
  Len(SelectSeq(emitted, LAMBDA msg : \E i \in 1..Len(msg) : msg[i] = v))


\* Times the trickle has put v in an inv message: announced, or in the
\* message it is filling.
Marked(v) ==
  Announced(v) + Len(SelectSeq(invMsg, LAMBDA x : x = v))

\* Spec section 8 and knownInventory's role: a transaction inv the trickle
\* has put in an inv message is put in one again only after knownInventory
\* evicted it, however the callers of QueueInventory and AddKnownInventory
\* interleave with the trickle (QueueInventory checks knownInventory long
\* before the trickle marks the inv known; the trickle re-checks).
ReannouncedOnlyAfterEviction ==
  [][\A v \in Invs \ BlockInvs :
       Marked(v) > 0 /\ Marked(v)' > Marked(v) => v \in evictedSince]_vars

\* Spec section 8 boundary behaviour: the trickle splits its inventory into
\* inv messages of at most maxInvTrickleSize entries and never queues an
\* empty inv message.
InvBatchBound ==
  \A i \in 1..Len(emitted) : Len(emitted[i]) \in 1..MaxInvTrickleSize

\* An inventory vector on its way through QueueInventory and queueHandler:
\* a caller about to send it, in outputInvChan, or in invSendQueue.
InFlight(v) ==
  \/ \E c \in Callers : cpc[c] = "send" /\ cinv[c] = v
  \/ \E i \in DOMAIN invChan : invChan[i] = v
  \/ \E i \in DOMAIN invSendQueue : invSendQueue[i] = v

\* Spec section 4.4 (a trickle tick drains inv_send_queue into inv messages): an
\* inventory vector QueueInventory accepted is eventually announced, unless
\* the peer disconnects or the server marks it known (the trickle's
\* re-check then drops it on purpose). A trickle that leaves a remainder
\* behind, or a tick that skips a non-empty queue, loses it.
InvAnnounced ==
  \A v \in Invs : InFlight(v) ~> (Announced(v) > 0 \/ disconnect \/ v \in learned)

\* QueueInventory's comment: queueHandler drains outputInvChan after it
\* knows the peer is disconnected, so a caller that passed the Connected()
\* check never blocks for ever on its send.
QueueInventoryReturns ==
  \A c \in Callers : (cpc[c] = "send") ~> (cpc[c] = "idle")
=============================================================================
