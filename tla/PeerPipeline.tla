---------------------------- MODULE PeerPipeline ----------------------------
(***************************************************************************)
(* The goroutines of one established peer (package peer, in               *)
(* src/pkg/ecc/precomp/genprecomps.go) and the channels between them:     *)
(*                                                                         *)
(*   callers --QueueMessage--> outputQueue --queueHandler--> sendQueue     *)
(*   --outHandler--> wire, outHandler --sendDoneQueue--> queueHandler,     *)
(*   inHandler/outHandler --stallControl--> stallHandler,                  *)
(*   pingHandler --QueueMessage--> outputQueue.                            *)
(*                                                                         *)
(* and the shutdown protocol: Disconnect closes quit; queueHandler drains  *)
(* and closes queueQuit; outHandler waits for queueQuit, drains and closes *)
(* outQuit; inHandler closes inQuit; stallHandler exits on inQuit/outQuit. *)
(*                                                                         *)
(* Message payloads are abstracted to an id, the goroutine that queued it *)
(* (the owner of its done channel) and whether a done channel was given.  *)
(* The stall deadlines are modelled in StallDetector; here stallHandler    *)
(* only consumes control messages and decides when to exit.               *)
(***************************************************************************)
EXTENDS Naturals, Sequences, SequencesExt

CONSTANTS
  Callers,          \* external goroutines calling QueueMessage (server, sync manager)
  OutputBufferSize, \* capacity of outputQueue (outputBufferSize = 1000 in the code)
  MaxPings,         \* bound on ping ticks of pingHandler
  MaxRecv           \* bound on messages the remote peer sends to inHandler

ASSUME OutputBufferSize \in Nat \ {0}
ASSUME MaxPings \in Nat /\ MaxRecv \in Nat

\* Goroutines that call QueueMessage: the callers, inHandler (pong, reject)
\* and pingHandler.
Actors == Callers \cup {"in", "ping"}

\* Kinds of message the remote peer may send that matter to inHandler.
RecvKinds == {"other", "ping", "version"}

VARIABLES
  outputQueue,  \* chan outMsg, buffered OutputBufferSize
  sendQueue,    \* chan outMsg, buffered 1
  sendDone,     \* sendDoneQueue, buffered 1: number of pending signals
  stallControl, \* chan stallControlMsg, buffered 1
  pending,      \* queueHandler's pendingMsgs list
  waiting,      \* queueHandler's waiting flag
  qpc, qnext,   \* queueHandler's control point and the message it is handing over
  opc, ocur,    \* outHandler's control point and the message it is sending
  spc, ioStopped, \* stallHandler's control point and its ioStopped flag
  ipc, pings,   \* inHandler's control point; pingHandler's tick count
  ppc,          \* pingHandler's control point
  qstate, qmsg, \* per actor: where it is in QueueMessage, and the message
  doneSig,      \* per actor: its done channel holds a signal
  submitted,    \* per caller: it has queued its message
  disconnect,   \* the disconnect flag (set once by Disconnect)
  quit, inQuit, queueQuit, outQuit, \* closed quit channels
  nextId,       \* id given to the next message entering outputQueue
  wire,         \* ids of the messages written to the connection, in order
  recv          \* messages received so far

vars == <<outputQueue, sendQueue, sendDone, stallControl, pending, waiting,
          qpc, qnext, opc, ocur, spc, ioStopped, ipc, pings, ppc, qstate, qmsg,
          doneSig, submitted, disconnect, quit, inQuit, queueQuit, outQuit,
          nextId, wire, recv>>

NoMsg == [id |-> 0, owner |-> "none", done |-> FALSE, cmd |-> "none"]

Msg == [id: Nat, owner: Actors, done: BOOLEAN, cmd: {"msg", "ping", "pong", "reject"}]

-----------------------------------------------------------------------------
(* Helpers shared by the goroutines.                                       *)

\* Disconnect: the first call sets the flag, closes the connection and closes
\* quit; later calls return at once.
DoDisconnect ==
  /\ disconnect' = TRUE
  /\ quit' = TRUE

\* Connected(): connected != 0 && disconnect == 0; connected is 1 for the
\* whole life of an established peer.
Connected == ~disconnect

\* Signal the done channels of the messages in the set ms (a send on a
\* done channel buffered 1, as PushRejectMsg and the server allocate).
SignalAll(ms) ==
  doneSig' = [a \in Actors |-> doneSig[a] \/ \E m \in ms : m.done /\ m.owner = a]

Signal(m) == SignalAll({m})

\* Actor a starts QueueMessage(msg, doneChan) for a message of kind cmd.
StartQueue(a, cmd, done) ==
  /\ qstate' = [qstate EXCEPT ![a] = "check"]
  /\ qmsg' = [qmsg EXCEPT ![a] = [id |-> 0, owner |-> a, done |-> done, cmd |-> cmd]]

-----------------------------------------------------------------------------
(* QueueMessageWithEncoding: check Connected(), then a blocking send on    *)
(* outputQueue; PushRejectMsg(wait) and the callers then wait on doneChan. *)

\* Variables QueueMessage does not touch.
QMOther == <<sendQueue, sendDone, stallControl, pending, waiting, qpc, qnext,
             opc, ocur, spc, ioStopped, ipc, pings, ppc, submitted, disconnect,
             quit, inQuit, queueQuit, outQuit, wire, recv>>

QMCheck(a) ==
  /\ qstate[a] = "check"
  /\ IF Connected
       THEN /\ qstate' = [qstate EXCEPT ![a] = "send"]
            /\ UNCHANGED doneSig
       ELSE \* not connected: a goroutine signals doneChan, nothing is queued
            /\ qstate' = [qstate EXCEPT ![a] = IF qmsg[a].done THEN "wait" ELSE "idle"]
            /\ Signal(qmsg[a])
  /\ UNCHANGED <<outputQueue, nextId, qmsg>>
  /\ UNCHANGED QMOther

\* Mutant: the send does not block on a full outputQueue.
QMSendNoBlock(a) ==
  /\ qstate[a] = "send"
  /\ outputQueue' = Append(outputQueue, [qmsg[a] EXCEPT !.id = nextId])
  /\ nextId' = nextId + 1
  /\ qstate' = [qstate EXCEPT ![a] = IF qmsg[a].done THEN "wait" ELSE "idle"]
  /\ UNCHANGED <<doneSig, qmsg>>
  /\ UNCHANGED QMOther

QMSend(a) ==
  /\ qstate[a] = "send"
  /\ Len(outputQueue) < OutputBufferSize
  /\ outputQueue' = Append(outputQueue, [qmsg[a] EXCEPT !.id = nextId])
  /\ nextId' = nextId + 1
  /\ qstate' = [qstate EXCEPT ![a] = IF qmsg[a].done THEN "wait" ELSE "idle"]
  /\ UNCHANGED <<doneSig, qmsg>>
  /\ UNCHANGED QMOther

QMWait(a) ==
  /\ qstate[a] = "wait"
  /\ doneSig[a]
  /\ doneSig' = [doneSig EXCEPT ![a] = FALSE]
  /\ qstate' = [qstate EXCEPT ![a] = "idle"]
  /\ UNCHANGED <<outputQueue, nextId, qmsg>>
  /\ UNCHANGED QMOther

QMStep(a) == QMCheck(a) \/ QMSend(a) \/ QMWait(a)

\* An external caller (server, sync manager) queues one message, with or
\* without a done channel.
CallerSubmit(c) ==
  /\ ~submitted[c]
  /\ qstate[c] = "idle"
  /\ \E done \in BOOLEAN : StartQueue(c, "msg", done)
  /\ submitted' = [submitted EXCEPT ![c] = TRUE]
  /\ UNCHANGED <<outputQueue, sendQueue, sendDone, stallControl, pending,
                 waiting, qpc, qnext, opc, ocur, spc, ioStopped, ipc, pings,
                 ppc, doneSig, disconnect, quit, inQuit, queueQuit, outQuit,
                 nextId, wire, recv>>
-----------------------------------------------------------------------------
(* queueHandler: the select loop over outputQueue, sendDoneQueue and quit, *)
(* its queuePacket helper, and the drains after the loop.                  *)

\* case msg := <-p.outputQueue: waiting = queuePacket(msg, pendingMsgs, waiting)
\* Mutant: queuePacket hands the message over without setting waiting.
QueueOutputNoWaiting ==
  /\ qpc = "loop"
  /\ outputQueue # <<>>
  /\ outputQueue' = Tail(outputQueue)
  /\ IF ~waiting
       THEN /\ qnext' = Head(outputQueue)
            /\ qpc' = "pushSend"
            /\ UNCHANGED <<pending, waiting>>
       ELSE /\ pending' = Append(pending, Head(outputQueue))
            /\ UNCHANGED <<qnext, qpc, waiting>>
  /\ UNCHANGED <<sendQueue, sendDone, stallControl, opc, ocur, spc, ioStopped,
                 ipc, pings, ppc, qstate, qmsg, doneSig, submitted, disconnect,
                 quit, inQuit, queueQuit, outQuit, nextId, wire, recv>>

QueueOutput ==
  /\ qpc = "loop"
  /\ outputQueue # <<>>
  /\ outputQueue' = Tail(outputQueue)
  /\ IF ~waiting
       THEN /\ qnext' = Head(outputQueue)
            /\ qpc' = "pushSend"
            /\ UNCHANGED pending
       ELSE /\ pending' = Append(pending, Head(outputQueue))
            /\ UNCHANGED <<qnext, qpc>>
  /\ waiting' = TRUE
  /\ UNCHANGED <<sendQueue, sendDone, stallControl, opc, ocur, spc, ioStopped,
                 ipc, pings, ppc, qstate, qmsg, doneSig, submitted, disconnect,
                 quit, inQuit, queueQuit, outQuit, nextId, wire, recv>>

\* The blocking send p.sendQueue <- msg inside queuePacket or the sendDone case.
QueuePushSend ==
  /\ qpc = "pushSend"
  /\ sendQueue = <<>>
  /\ sendQueue' = <<qnext>>
  /\ qpc' = "loop"
  /\ qnext' = NoMsg
  /\ UNCHANGED <<outputQueue, sendDone, stallControl, pending, waiting, opc,
                 ocur, spc, ioStopped, ipc, pings, ppc, qstate, qmsg, doneSig,
                 submitted, disconnect, quit, inQuit, queueQuit, outQuit,
                 nextId, wire, recv>>

\* case <-p.sendDoneQueue.Wait(): hand over the next pending message, or
\* stop waiting when there is none.
\* Mutant: the sendDone case takes the newest pending message (Back).
QueueSendDoneBack ==
  /\ qpc = "loop"
  /\ sendDone = 1
  /\ sendDone' = 0
  /\ IF pending = <<>>
       THEN /\ waiting' = FALSE
            /\ UNCHANGED <<pending, qnext, qpc>>
       ELSE /\ qnext' = Last(pending)
            /\ pending' = Front(pending)
            /\ qpc' = "pushSend"
            /\ UNCHANGED waiting
  /\ UNCHANGED <<outputQueue, sendQueue, stallControl, opc, ocur, spc,
                 ioStopped, ipc, pings, ppc, qstate, qmsg, doneSig, submitted,
                 disconnect, quit, inQuit, queueQuit, outQuit, nextId, wire,
                 recv>>

QueueSendDone ==
  /\ qpc = "loop"
  /\ sendDone = 1
  /\ sendDone' = 0
  /\ IF pending = <<>>
       THEN /\ waiting' = FALSE
            /\ UNCHANGED <<pending, qnext, qpc>>
       ELSE /\ qnext' = Head(pending)
            /\ pending' = Tail(pending)
            /\ qpc' = "pushSend"
            /\ UNCHANGED waiting
  /\ UNCHANGED <<outputQueue, sendQueue, stallControl, opc, ocur, spc,
                 ioStopped, ipc, pings, ppc, qstate, qmsg, doneSig, submitted,
                 disconnect, quit, inQuit, queueQuit, outQuit, nextId, wire,
                 recv>>

\* case <-p.quit.Wait(): break out, then signal the done channels of all
\* pending messages.
QueueQuit ==
  /\ qpc = "loop"
  /\ quit
  /\ SignalAll(ToSet(pending))
  /\ pending' = <<>>
  /\ qpc' = "cleanup"
  /\ UNCHANGED <<outputQueue, sendQueue, sendDone, stallControl, waiting, qnext,
                 opc, ocur, spc, ioStopped, ipc, pings, ppc, qstate, qmsg,
                 submitted, disconnect, quit, inQuit, queueQuit, outQuit,
                 nextId, wire, recv>>

\* The cleanup loop: take what is in outputQueue and signal it, until the
\* channel is empty (default), then close queueQuit.
QueueCleanup ==
  /\ qpc = "cleanup"
  /\ IF outputQueue # <<>>
       THEN /\ Signal(Head(outputQueue))
            /\ outputQueue' = Tail(outputQueue)
            /\ UNCHANGED <<qpc, queueQuit>>
       ELSE /\ qpc' = "exited"
            /\ queueQuit' = TRUE
            /\ UNCHANGED <<outputQueue, doneSig>>
  /\ UNCHANGED <<sendQueue, sendDone, stallControl, pending, waiting, qnext,
                 opc, ocur, spc, ioStopped, ipc, pings, ppc, qstate, qmsg,
                 submitted, disconnect, quit, inQuit, outQuit, nextId, wire,
                 recv>>

QueueStep == QueueOutput \/ QueuePushSend \/ QueueSendDone \/ QueueQuit \/ QueueCleanup

-----------------------------------------------------------------------------
(* outHandler and writeMessage.                                            *)

\* case msg := <-p.sendQueue
OutTake ==
  /\ opc = "loop"
  /\ sendQueue # <<>>
  /\ ocur' = Head(sendQueue)
  /\ sendQueue' = Tail(sendQueue)
  /\ opc' = "stallSend"
  /\ UNCHANGED <<outputQueue, sendDone, stallControl, pending, waiting, qpc,
                 qnext, spc, ioStopped, ipc, pings, ppc, qstate, qmsg, doneSig,
                 submitted, disconnect, quit, inQuit, queueQuit, outQuit,
                 nextId, wire, recv>>

\* p.stallControl <- stallControlMsg{sccSendMessage, msg.msg}
OutStallSend ==
  /\ opc = "stallSend"
  /\ stallControl = <<>>
  /\ stallControl' = <<"send">>
  /\ opc' = "write"
  /\ UNCHANGED <<outputQueue, sendQueue, sendDone, pending, waiting, qpc, qnext,
                 ocur, spc, ioStopped, ipc, pings, ppc, qstate, qmsg, doneSig,
                 submitted, disconnect, quit, inQuit, queueQuit, outQuit,
                 nextId, wire, recv>>

\* writeMessage: the outcomes it can have, as the error returned and the
\* frames the connection carries afterwards. It returns nil without
\* writing when disconnecting; otherwise WriteMessageN succeeds or fails.
WriteMessage(m) ==
  IF disconnect THEN {[e |-> "nil", wire |-> wire]}
  ELSE {[e |-> "nil", wire |-> Append(wire, m.id)], [e |-> "io", wire |-> wire]}

\* On nil the done channel is signalled and sendDoneQueue is signalled
\* next; on an error the peer disconnects, the done channel is signalled
\* and the loop continues without sendDone.
OutWrite ==
  /\ opc = "write"
  /\ \E r \in WriteMessage(ocur) :
       /\ wire' = r.wire
       /\ IF r.e = "nil"
            THEN /\ opc' = "sendDone"
                 /\ UNCHANGED <<disconnect, quit>>
            ELSE /\ DoDisconnect
                 /\ opc' = "loop"
  /\ Signal(ocur)
  /\ UNCHANGED <<outputQueue, sendQueue, sendDone, stallControl, pending,
                 waiting, qpc, qnext, ocur, spc, ioStopped, ipc, pings, ppc,
                 qstate, qmsg, submitted, inQuit, queueQuit, outQuit, nextId,
                 recv>>

\* p.sendDoneQueue <- struct{}{}
OutSendDone ==
  /\ opc = "sendDone"
  /\ sendDone = 0
  /\ sendDone' = 1
  /\ opc' = "loop"
  /\ UNCHANGED <<outputQueue, sendQueue, stallControl, pending, waiting, qpc,
                 qnext, ocur, spc, ioStopped, ipc, pings, ppc, qstate, qmsg,
                 doneSig, submitted, disconnect, quit, inQuit, queueQuit,
                 outQuit, nextId, wire, recv>>

\* case <-p.quit.Wait(): break out, then <-p.queueQuit.
OutQuit ==
  /\ opc = "loop"
  /\ quit
  /\ opc' = "waitQueueQuit"
  /\ UNCHANGED <<outputQueue, sendQueue, sendDone, stallControl, pending,
                 waiting, qpc, qnext, ocur, spc, ioStopped, ipc, pings, ppc,
                 qstate, qmsg, doneSig, submitted, disconnect, quit, inQuit,
                 queueQuit, outQuit, nextId, wire, recv>>

\* After queueQuit: drain sendQueue signalling done channels, close outQuit.
OutDrain ==
  /\ opc = "waitQueueQuit"
  /\ queueQuit
  /\ SignalAll(ToSet(sendQueue))
  /\ sendQueue' = <<>>
  /\ outQuit' = TRUE
  /\ opc' = "exited"
  /\ UNCHANGED <<outputQueue, sendDone, stallControl, pending, waiting, qpc,
                 qnext, ocur, spc, ioStopped, ipc, pings, ppc, qstate, qmsg,
                 submitted, disconnect, quit, inQuit, queueQuit, nextId, wire,
                 recv>>

OutStep == OutTake \/ OutStallSend \/ OutWrite \/ OutSendDone \/ OutQuit \/ OutDrain

-----------------------------------------------------------------------------
(* stallHandler: consuming control messages and exiting.                   *)

StallOther == <<outputQueue, sendQueue, sendDone, pending, waiting, qpc, qnext,
                opc, ocur, ipc, pings, ppc, qstate, qmsg, doneSig, submitted,
                disconnect, quit, inQuit, queueQuit, outQuit, nextId, wire, recv>>

\* case msg := <-p.stallControl (its effect on deadlines is in StallDetector)
StallRecv ==
  /\ spc = "loop"
  /\ stallControl # <<>>
  /\ stallControl' = Tail(stallControl)
  /\ UNCHANGED <<spc, ioStopped>>
  /\ UNCHANGED StallOther

\* case <-p.inQuit.Wait() and case <-p.outQuit.Wait(): a closed channel is
\* always ready, so either case may be taken again after it set ioStopped.
StallIOQuit ==
  /\ spc = "loop"
  /\ inQuit \/ outQuit
  /\ IF ioStopped
       THEN /\ spc' = "drain"
            /\ UNCHANGED ioStopped
       ELSE /\ ioStopped' = TRUE
            /\ UNCHANGED spc
  /\ UNCHANGED stallControl
  /\ UNCHANGED StallOther

\* The cleanup loop: receive from stallControl until it is empty.
StallDrain ==
  /\ spc = "drain"
  /\ stallControl' = <<>>
  /\ spc' = "exited"
  /\ UNCHANGED ioStopped
  /\ UNCHANGED StallOther

StallStep == StallRecv \/ StallIOQuit \/ StallDrain
-----------------------------------------------------------------------------
(* inHandler: read a message, report it to stallHandler, handle it.        *)
(* ipc is a record: the control point and the kind of message in hand.     *)

InOther == <<outputQueue, sendQueue, sendDone, pending, waiting, qpc, qnext,
             opc, ocur, spc, ioStopped, pings, ppc, doneSig, submitted,
             queueQuit, outQuit, nextId, wire>>

At(l) == [at |-> l, kind |-> "none"]

\* for atomic.LoadInt32(&p.disconnect) == 0
InTop ==
  /\ ipc.at = "top"
  /\ ipc' = IF disconnect THEN At("exit") ELSE At("read")
  /\ UNCHANGED <<stallControl, qstate, qmsg, disconnect, quit, inQuit, recv>>
  /\ UNCHANGED InOther

\* Errors of readMessage: the remote closed the connection (io.EOF), a
\* net.OpError that is not temporary (the connection Disconnect closed),
\* or a malformed frame.
ReadErrors == {"eof", "closed", "malformed"}

\* shouldHandleReadError: not while disconnecting, not for io.EOF, not for
\* a permanent network error.
ShouldHandleReadError(e) == ~disconnect /\ e \notin {"eof", "closed"}

\* readMessage: the remote sends a message (never once the connection is
\* closed), or the read fails; a failure to handle is answered with
\* PushRejectMsg(wait=true) before the loop ends.
InRead ==
  /\ ipc.at = "read"
  /\ \/ /\ ~disconnect
        /\ recv < MaxRecv
        /\ recv' = recv + 1
        /\ \E k \in RecvKinds : ipc' = [at |-> "ctlRecv", kind |-> k]
        /\ UNCHANGED <<qstate, qmsg>>
     \/ \E e \in ReadErrors :
          /\ IF ShouldHandleReadError(e) THEN StartQueue("in", "reject", TRUE)
                                         ELSE UNCHANGED <<qstate, qmsg>>
          /\ ipc' = At("exit")
          /\ UNCHANGED recv
  /\ UNCHANGED <<stallControl, disconnect, quit, inQuit>>
  /\ UNCHANGED InOther

\* p.stallControl <- sccReceiveMessage, then sccHandlerStart.
InCtl(from, to) ==
  /\ ipc.at = from
  /\ stallControl = <<>>
  /\ stallControl' = <<from>>
  /\ ipc' = [ipc EXCEPT !.at = to]
  /\ UNCHANGED <<qstate, qmsg, disconnect, quit, inQuit, recv>>
  /\ UNCHANGED InOther

\* handlePingMsg: a peer whose protocol version is above BIP0031 gets a
\* pong; an older one gets nothing.
HandlePingMsg(newer) ==
  IF newer THEN StartQueue("in", "pong", FALSE) ELSE UNCHANGED <<qstate, qmsg>>

\* The type switch: a second version is rejected (waiting for the reject to
\* be sent) and ends the loop without sccHandlerDone; a ping queues a pong.
InHandle ==
  /\ ipc.at = "handle"
  /\ CASE ipc.kind = "version" -> /\ StartQueue("in", "reject", TRUE)
                                  /\ ipc' = At("exit")
       [] ipc.kind = "ping"    -> /\ \E newer \in BOOLEAN : HandlePingMsg(newer)
                                  /\ ipc' = At("ctlDone")
       [] OTHER                -> /\ ipc' = At("ctlDone")
                                  /\ UNCHANGED <<qstate, qmsg>>
  /\ UNCHANGED <<stallControl, disconnect, quit, inQuit, recv>>
  /\ UNCHANGED InOther

\* p.stallControl <- sccHandlerDone, then back to the loop condition.
InDone ==
  /\ ipc.at = "ctlDone"
  /\ qstate["in"] = "idle"
  /\ stallControl = <<>>
  /\ stallControl' = <<"ctlDone">>
  /\ ipc' = At("top")
  /\ UNCHANGED <<qstate, qmsg, disconnect, quit, inQuit, recv>>
  /\ UNCHANGED InOther

\* After the loop: stop the idle timer, Disconnect, close inQuit.
InExit ==
  /\ ipc.at = "exit"
  /\ qstate["in"] = "idle"
  /\ DoDisconnect
  /\ inQuit' = TRUE
  /\ ipc' = At("exited")
  /\ UNCHANGED <<stallControl, qstate, qmsg, recv>>
  /\ UNCHANGED InOther

InStep ==
  \/ InTop \/ InRead \/ InCtl("ctlRecv", "ctlStart") \/ InCtl("ctlStart", "handle")
  \/ InHandle \/ InDone \/ InExit

-----------------------------------------------------------------------------
(* pingHandler and the other sources of Disconnect.                        *)

PingOther == <<outputQueue, sendQueue, sendDone, stallControl, pending, waiting,
               qpc, qnext, opc, ocur, spc, ioStopped, ipc, doneSig, submitted,
               disconnect, quit, inQuit, queueQuit, outQuit, nextId, wire, recv>>

\* case <-pingTicker.C: QueueMessage(ping, nil) (synchronously)
PingTick ==
  /\ ppc = "loop"
  /\ qstate["ping"] = "idle"
  /\ pings < MaxPings
  /\ pings' = pings + 1
  /\ StartQueue("ping", "ping", FALSE)
  /\ UNCHANGED ppc
  /\ UNCHANGED PingOther

\* case <-p.quit.Wait()
PingQuit ==
  /\ ppc = "loop"
  /\ qstate["ping"] = "idle"
  /\ quit
  /\ ppc' = "exited"
  /\ UNCHANGED <<pings, qstate, qmsg>>
  /\ UNCHANGED PingOther

PingStep == PingTick \/ PingQuit

\* Disconnect called by the idle timer, the stall ticker or the server.
ExternalDisconnect ==
  /\ ~disconnect
  /\ DoDisconnect
  /\ UNCHANGED <<outputQueue, sendQueue, sendDone, stallControl, pending,
                 waiting, qpc, qnext, opc, ocur, spc, ioStopped, ipc, pings,
                 ppc, qstate, qmsg, doneSig, submitted, inQuit, queueQuit,
                 outQuit, nextId, wire, recv>>

-----------------------------------------------------------------------------
(* The specification.  Init is the state right after start() launched the  *)
(* five goroutines of an established peer.                                 *)

Init ==
  /\ outputQueue = <<>>
  /\ sendQueue = <<>>
  /\ sendDone = 0
  /\ stallControl = <<>>
  /\ pending = <<>>
  /\ waiting = FALSE
  /\ qpc = "loop"
  /\ qnext = NoMsg
  /\ opc = "loop"
  /\ ocur = NoMsg
  /\ spc = "loop"
  /\ ioStopped = FALSE
  /\ ipc = At("top")
  /\ pings = 0
  /\ ppc = "loop"
  /\ qstate = [a \in Actors |-> "idle"]
  /\ qmsg = [a \in Actors |-> NoMsg]
  /\ doneSig = [a \in Actors |-> FALSE]
  /\ submitted = [c \in Callers |-> FALSE]
  /\ disconnect = FALSE
  /\ quit = FALSE
  /\ inQuit = FALSE
  /\ queueQuit = FALSE
  /\ outQuit = FALSE
  /\ nextId = 1
  /\ wire = <<>>
  /\ recv = 0

Next ==
  \/ \E c \in Callers : CallerSubmit(c)
  \/ \E a \in Actors : QMStep(a)
  \/ QueueStep
  \/ OutStep
  \/ StallStep
  \/ InStep
  \/ PingStep
  \/ ExternalDisconnect

\* Every goroutine of the peer is scheduled; the remote peer eventually
\* sends, closes or is cut off by the idle timer, so a read completes.
\* The external callers and Disconnect need not happen.
Fairness ==
  /\ WF_vars(QueueStep)
  /\ WF_vars(OutStep)
  /\ WF_vars(StallStep)
  /\ WF_vars(InStep)
  /\ WF_vars(PingStep)
  /\ \A a \in Actors : WF_vars(QMStep(a))

Spec == Init /\ [][Next]_vars /\ Fairness

-----------------------------------------------------------------------------
(* Properties.                                                             *)

Phases == {"idle", "check", "send", "wait"}

TypeOK ==
  /\ outputQueue \in Seq(Msg) /\ Len(outputQueue) <= OutputBufferSize
  /\ sendQueue \in Seq(Msg) /\ Len(sendQueue) <= 1
  /\ sendDone \in 0..1
  /\ stallControl \in Seq({"send", "ctlRecv", "ctlStart", "ctlDone"})
  /\ Len(stallControl) <= 1
  /\ pending \in Seq(Msg)
  /\ waiting \in BOOLEAN
  /\ qpc \in {"loop", "pushSend", "cleanup", "exited"}
  /\ opc \in {"loop", "stallSend", "write", "sendDone", "waitQueueQuit", "exited"}
  /\ spc \in {"loop", "drain", "exited"}
  /\ ipc.at \in {"top", "read", "ctlRecv", "ctlStart", "handle", "ctlDone", "exit", "exited"}
  /\ ppc \in {"loop", "exited"}
  /\ qstate \in [Actors -> Phases]
  /\ doneSig \in [Actors -> BOOLEAN]
  /\ wire \in Seq(Nat)

\* Messages handed from queueHandler to outHandler and not yet acknowledged
\* on sendDoneQueue.
InFlight ==
  Len(sendQueue) + sendDone
    + (IF qpc = "pushSend" THEN 1 ELSE 0)
    + (IF opc \in {"stallSend", "write", "sendDone"} THEN 1 ELSE 0)

\* queueHandler's waiting flag keeps at most one message between it and
\* outHandler, and none when it is not waiting: so queuePacket's
\* p.sendQueue <- msg and outHandler's p.sendDoneQueue <- never block, and a
\* message is never handed over while another is still in flight.
SendPipelineBalanced ==
  /\ InFlight <= 1
  /\ ~waiting => InFlight = 0

\* The messages between QueueMessage and the connection, oldest first: the
\* one outHandler holds before its write, the one in sendQueue or being
\* pushed there, pendingMsgs, then outputQueue.
IdsOf(s) == [i \in 1..Len(s) |-> s[i].id]

InTransit ==
  IdsOf(  (IF opc \in {"stallSend", "write"} THEN <<ocur>> ELSE <<>>)
      \o sendQueue
      \o (IF qpc = "pushSend" THEN <<qnext>> ELSE <<>>)
      \o pending
      \o outputQueue)

\* Every caller queues one message; inHandler one per message received
\* (pong or reject) and a reject for a malformed frame; pingHandler one
\* per tick.  Ids start at 1.
MsgIds == 1..(Cardinality(Callers) + MaxRecv + 1 + MaxPings)

Outbound == INSTANCE PeerOutbound
              WITH Ids <- MsgIds, queue <- InTransit, sent <- wire, down <- disconnect

\* The pipeline implements the abstract outbound queue of a peer: under
\* every interleaving of the callers, queueHandler's hand-over through
\* pendingMsgs, outHandler's writes and the shutdown drains, a message
\* reaches the connection once, after every message queued before it, and
\* is lost only when the peer is disconnecting.
ImplementsOutbound == Outbound!Spec

\* Once quit is closed, every goroutine of the peer ends (the code comment
\* at stallHandler: it "can exit once both the input and output handler
\* goroutines are done").
HandlersTerminate ==
  quit ~> (/\ qpc = "exited" /\ opc = "exited" /\ spc = "exited"
           /\ ipc.at = "exited" /\ ppc = "exited")
=============================================================================
