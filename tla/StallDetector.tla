--------------------------- MODULE StallDetector ----------------------------
(***************************************************************************)
(* Stall detection of a peer (src/pkg/ecc/precomp/genprecomps.go):         *)
(* maybeAddDeadline and the stallControl and stallTicker cases of          *)
(* stallHandler, driven by the two goroutines that report to it: outHandler *)
(* (sccSendMessage before writeMessage) and inHandler (sccReceiveMessage,  *)
(* sccHandlerStart, the listener, sccHandlerDone).  The remote peer answers *)
(* or stays silent.  Time is discrete: one unit is one stallTickInterval.  *)
(*                                                                         *)
(* Ghost variables record what the deadlines promise: `answered` (a        *)
(* response of the group was read after the request was written) and the  *)
(* handler time that had elapsed when each deadline was set.               *)
(***************************************************************************)
EXTENDS Integers, Sequences

CONSTANTS
  SendCmds,          \* commands outHandler may send
  RecvCmds,          \* commands the remote peer may send
  ResponseTimeout,   \* stallResponseTimeout in ticks (360s = 6 ticks)
  MaxTime,           \* bound on the clock
  MaxSends,          \* bound on messages sent
  MaxRecv            \* bound on messages received

ASSUME ResponseTimeout \in Nat \ {0} /\ MaxTime \in Nat
ASSUME MaxSends \in Nat /\ MaxRecv \in Nat

\* The response groups of sccReceiveMessage: any of the four answers a getdata.
GetDataGroup == {"block", "merkleblock", "tx", "notfound"}

\* maybeAddDeadline: the responses a sent command expects.
Expects(c) ==
  CASE c = "version"                   -> {"verack"}
    [] c \in {"mempool", "getblocks"}   -> {"inv"}
    [] c = "getdata"                   -> GetDataGroup
    [] c = "getheaders"                -> {"headers"}
    [] OTHER                           -> {}

\* getheaders uses a deadline of 3 * stallResponseTimeout.
Timeout(c) == IF c = "getheaders" THEN 3 * ResponseTimeout ELSE ResponseTimeout

\* The entries sccReceiveMessage deletes for a received command.
Group(r) == IF r \in GetDataGroup THEN GetDataGroup ELSE {r}

Resp == UNION {Expects(c) : c \in SendCmds}

NoDeadline == -1

VARIABLES
  now,               \* the clock
  tickDue,           \* stallTicker.C holds a tick (a Go ticker buffers one)
  pendingResponses,  \* command -> deadline, NoDeadline when absent
  handlerActive, handlersStartTime, deadlineOffset,
  stallControl,      \* chan stallControlMsg, buffered 1
  disconnected,      \* the stall ticker disconnected the peer
  opc, ocmd, sends,  \* outHandler: control point, command, count
  inbound,           \* messages from the remote peer not yet read
  ipc, icmd, recvd,  \* inHandler: control point, command, count
  requested,         \* ghost: a request expecting the response was written
  answered           \* ghost: a response of the group was read after the request

vars == <<now, tickDue, pendingResponses, handlerActive, handlersStartTime,
          deadlineOffset, stallControl, disconnected, opc, ocmd, sends,
          inbound, ipc, icmd, recvd, requested, answered>>

-----------------------------------------------------------------------------
(* outHandler: p.stallControl <- {sccSendMessage, msg}, then writeMessage.  *)

OutPick ==
  /\ opc = "idle" /\ ~disconnected
  /\ sends < MaxSends
  /\ \E c \in SendCmds : ocmd' = c
  /\ sends' = sends + 1
  /\ opc' = "stallSend"
  /\ UNCHANGED <<now, tickDue, pendingResponses, handlerActive, handlersStartTime,
                 deadlineOffset, stallControl, disconnected, inbound, ipc, icmd,
                 recvd, requested, answered>>

\* Mutant: the control message is sent without waiting for the free slot.
OutStallSendNoBlock ==
  /\ opc = "stallSend"
  /\ stallControl' = Append(stallControl, [cmd |-> "send", msg |-> ocmd])
  /\ opc' = "write"
  /\ UNCHANGED <<now, tickDue, pendingResponses, handlerActive, handlersStartTime,
                 deadlineOffset, disconnected, ocmd, sends, inbound, ipc, icmd,
                 recvd, requested, answered>>

OutStallSend ==
  /\ opc = "stallSend"
  /\ stallControl = <<>>
  /\ stallControl' = <<[cmd |-> "send", msg |-> ocmd]>>
  /\ opc' = "write"
  /\ UNCHANGED <<now, tickDue, pendingResponses, handlerActive, handlersStartTime,
                 deadlineOffset, disconnected, ocmd, sends, inbound, ipc, icmd,
                 recvd, requested, answered>>

\* The request is on the wire: responses read from now on answer it.
OutWrite ==
  /\ opc = "write"
  /\ answered' = [r \in Resp |-> IF r \in Expects(ocmd) THEN FALSE ELSE answered[r]]
  /\ requested' = [r \in Resp |-> requested[r] \/ r \in Expects(ocmd)]
  /\ opc' = "idle"
  /\ UNCHANGED <<now, tickDue, pendingResponses, handlerActive, handlersStartTime,
                 deadlineOffset, stallControl, disconnected, ocmd, sends,
                 inbound, ipc, icmd, recvd>>

-----------------------------------------------------------------------------
(* The remote peer and inHandler.                                          *)

RemoteSend ==
  /\ ~disconnected
  /\ recvd + Len(inbound) < MaxRecv
  /\ \E r \in RecvCmds : inbound' = Append(inbound, r)
  /\ UNCHANGED <<now, tickDue, pendingResponses, handlerActive, handlersStartTime,
                 deadlineOffset, stallControl, disconnected, opc, ocmd, sends,
                 ipc, icmd, recvd, requested, answered>>

InRead ==
  /\ ipc = "read" /\ ~disconnected
  /\ inbound # <<>>
  /\ icmd' = Head(inbound)
  /\ inbound' = Tail(inbound)
  /\ recvd' = recvd + 1
  /\ answered' = [r \in Resp |-> answered[r] \/ r \in Group(Head(inbound))]
  /\ ipc' = "ctlRecv"
  /\ UNCHANGED <<now, tickDue, pendingResponses, handlerActive, handlersStartTime,
                 deadlineOffset, stallControl, disconnected, opc, ocmd, sends,
                 requested>>

\* p.stallControl <- sccReceiveMessage / sccHandlerStart / sccHandlerDone
InCtl(from, kind, to) ==
  /\ ipc = from
  /\ stallControl = <<>>
  /\ stallControl' = <<[cmd |-> kind, msg |-> icmd]>>
  /\ ipc' = to
  /\ UNCHANGED <<now, tickDue, pendingResponses, handlerActive, handlersStartTime,
                 deadlineOffset, disconnected, opc, ocmd, sends, inbound, icmd,
                 recvd, requested, answered>>

\* The listener callback returns; time passes while it runs (Advance).
InHandled ==
  /\ ipc = "handle"
  /\ ipc' = "ctlDone"
  /\ UNCHANGED <<now, tickDue, pendingResponses, handlerActive, handlersStartTime,
                 deadlineOffset, stallControl, disconnected, opc, ocmd, sends,
                 inbound, icmd, recvd, requested, answered>>

InStep ==
  \/ InRead
  \/ InCtl("ctlRecv", "recv", "ctlStart")
  \/ InCtl("ctlStart", "start", "handle")
  \/ InHandled
  \/ InCtl("ctlDone", "done", "read")

-----------------------------------------------------------------------------
(* stallHandler.                                                           *)

\* maybeAddDeadline(pendingResponses, cmd) at time now.
AddDeadlines(c) ==
  /\ pendingResponses' = [r \in Resp |->
                            IF r \in Expects(c) THEN now + Timeout(c)
                                                ELSE pendingResponses[r]]

\* case msg := <-p.stallControl, with its four commands; the start and done
\* commands are ignored when unbalanced (the `continue` after the warning).
\* Mutant: the receive case deletes only the received command (no
\* fallthrough over the getdata group).
StallControlNoGroup ==
  /\ stallControl # <<>>
  /\ LET m == Head(stallControl) IN
     CASE m.cmd = "send" ->
            /\ AddDeadlines(m.msg)
            /\ UNCHANGED <<handlerActive, handlersStartTime, deadlineOffset>>
       [] m.cmd = "recv" ->
            /\ pendingResponses' = [r \in Resp |->
                                      IF r = m.msg THEN NoDeadline ELSE pendingResponses[r]]
            /\ UNCHANGED <<handlerActive, handlersStartTime, deadlineOffset>>
       [] m.cmd = "start" ->
            /\ handlerActive' = TRUE
            /\ handlersStartTime' = IF handlerActive THEN handlersStartTime ELSE now
            /\ UNCHANGED <<pendingResponses, deadlineOffset>>
       [] m.cmd = "done" ->
            /\ handlerActive' = FALSE
            /\ deadlineOffset' = IF handlerActive
                                   THEN deadlineOffset + (now - handlersStartTime)
                                   ELSE deadlineOffset
            /\ UNCHANGED <<pendingResponses, handlersStartTime>>
  /\ stallControl' = Tail(stallControl)
  /\ UNCHANGED <<now, tickDue, disconnected, opc, ocmd, sends, inbound, ipc,
                 icmd, recvd, requested, answered>>

StallControl ==
  /\ stallControl # <<>>
  /\ LET m == Head(stallControl) IN
     CASE m.cmd = "send" ->
            /\ AddDeadlines(m.msg)
            /\ UNCHANGED <<handlerActive, handlersStartTime, deadlineOffset>>
       [] m.cmd = "recv" ->
            /\ pendingResponses' = [r \in Resp |->
                                      IF r \in Group(m.msg) THEN NoDeadline
                                                            ELSE pendingResponses[r]]
            /\ UNCHANGED <<handlerActive, handlersStartTime, deadlineOffset>>
       [] m.cmd = "start" ->
            /\ handlerActive' = TRUE
            /\ handlersStartTime' = IF handlerActive THEN handlersStartTime ELSE now
            /\ UNCHANGED <<pendingResponses, deadlineOffset>>
       [] m.cmd = "done" ->
            /\ handlerActive' = FALSE
            /\ deadlineOffset' = IF handlerActive
                                   THEN deadlineOffset + (now - handlersStartTime)
                                   ELSE deadlineOffset
            /\ UNCHANGED <<pendingResponses, handlersStartTime>>
  /\ stallControl' = Tail(stallControl)
  /\ UNCHANGED <<now, tickDue, disconnected, opc, ocmd, sends, inbound, ipc,
                 icmd, recvd, requested, answered>>

\* The offset the tick applies: handler time since the last tick.
TickOffset ==
  deadlineOffset + (IF handlerActive THEN now - handlersStartTime ELSE 0)

\* A deadline the tick finds passed.
Overdue(r) ==
  /\ pendingResponses[r] # NoDeadline
  /\ now >= pendingResponses[r] + TickOffset

\* case <-stallTicker.C: disconnect if any deadline, moved by the offset, has
\* passed; then reset the offset.
StallTick ==
  /\ tickDue
  /\ tickDue' = FALSE
  /\ disconnected' = (disconnected \/ \E r \in Resp : Overdue(r))
  /\ deadlineOffset' = 0
  /\ UNCHANGED <<now, pendingResponses, handlerActive, handlersStartTime,
                 stallControl, opc, ocmd, sends, inbound, ipc, icmd, recvd,
                 requested, answered>>

\* One stallTickInterval passes; the ticker's buffered tick is dropped if the
\* previous one was not taken.
Advance ==
  /\ ~disconnected
  /\ now < MaxTime
  /\ now' = now + 1
  /\ tickDue' = TRUE
  /\ UNCHANGED <<pendingResponses, handlerActive, handlersStartTime,
                 deadlineOffset, stallControl, disconnected, opc, ocmd, sends,
                 inbound, ipc, icmd, recvd, requested, answered>>

StallStep == StallControl \/ StallTick

Init ==
  /\ now = 0
  /\ tickDue = FALSE
  /\ pendingResponses = [r \in Resp |-> NoDeadline]
  /\ handlerActive = FALSE
  /\ handlersStartTime = 0
  /\ deadlineOffset = 0
  /\ stallControl = <<>>
  /\ disconnected = FALSE
  /\ opc = "idle"
  /\ ocmd = "none"
  /\ sends = 0
  /\ inbound = <<>>
  /\ ipc = "read"
  /\ icmd = "none"
  /\ recvd = 0
  /\ requested = [r \in Resp |-> FALSE]
  /\ answered = [r \in Resp |-> FALSE]

Next ==
  \/ OutPick \/ OutStallSend \/ OutWrite
  \/ RemoteSend
  \/ InStep
  \/ StallStep
  \/ Advance

Spec == Init /\ [][Next]_vars

-----------------------------------------------------------------------------
(* Properties.                                                             *)

TypeOK ==
  /\ now \in 0..MaxTime
  /\ tickDue \in BOOLEAN
  /\ pendingResponses \in [Resp -> {NoDeadline} \cup Nat]
  /\ handlerActive \in BOOLEAN
  /\ handlersStartTime \in 0..MaxTime
  /\ deadlineOffset \in 0..MaxTime
  /\ Len(stallControl) <= 1
  /\ opc \in {"idle", "stallSend", "write"}
  /\ ipc \in {"read", "ctlRecv", "ctlStart", "handle", "ctlDone"}
  /\ requested \in [Resp -> BOOLEAN]
  /\ answered \in [Resp -> BOOLEAN]

\* No control message is in transit from inHandler to stallHandler.
Quiescent == stallControl = <<>> /\ ipc # "ctlRecv"

\* A deadline never outlives its answer: once stallHandler has seen every
\* event and the request is on the wire, no deadline is pending for a response whose group was read after
\* the request went out. This rests on outHandler reporting sccSendMessage
\* before writeMessage and on the receive case deleting the whole getdata
\* group; otherwise an answered request would later stall the peer.
NoStaleDeadline ==
  (Quiescent /\ opc # "write") => \A r \in Resp : pendingResponses[r] # NoDeadline => ~answered[r]

\* Spec section 8: for every sent getdata (every request expecting a
\* response) the stall task holds its deadlines until one response of the
\* group is received.
HeldUntilAnswered ==
  (Quiescent /\ opc = "idle" /\ ~disconnected) =>
     \A r \in Resp : (requested[r] /\ ~answered[r]) => pendingResponses[r] # NoDeadline
=============================================================================
