--------------------------- MODULE PeerHandshake ----------------------------
(***************************************************************************)
(* The version handshake of one peer (src/pkg/ecc/precomp/genprecomps.go): *)
(* Peer.start, its negotiating goroutine, negotiateInboundProtocol /       *)
(* negotiateOutboundProtocol, readRemoteVersionMsg and writeLocalVersionMsg,*)
(* and the negotiate timeout.                                              *)
(*                                                                         *)
(* The remote version message is abstracted to the outcome of              *)
(* readRemoteVersionMsg: a read error, a first message that is not a       *)
(* version, a self connection (its nonce is in SentNonces), a reject from  *)
(* the OnVersion listener, an obsolete protocol version, or acceptance.    *)
(* Errors are abstracted to "nil" / "err" / "timeout".                     *)
(***************************************************************************)
EXTENDS Naturals, Sequences

CONSTANTS
  Inbound,    \* the peer was created by NewInboundPeer
  NonceCap,   \* capacity of SentNonces (newMruNonceMap(50))
  MaxOthers   \* bound on version messages other peers of the process send

ASSUME Inbound \in BOOLEAN /\ NonceCap \in Nat \ {0} /\ MaxOthers \in Nat

\* Nonces are numbered in the order the process draws them; 0 stands for a
\* nonce drawn by another node (a collision with rand.Int63 is left out).
MaxDraws == MaxOthers + 1
Foreign == 0

\* The remote's first message: a version with its nonce, or anything else.
Msgs == [cmd : {"version"}, nonce : 0..MaxDraws] \cup [cmd : {"other"}]

\* Outcomes of readRemoteVersionMsg; the last three have set versionKnown.
ReadOutcomes == {"readErr", "notVersion", "self", "rejected", "obsolete", "ok"}

\* Outcomes after which readRemoteVersionMsg wrote a reject message itself.
WritesReject == {"notVersion", "rejected", "obsolete"}

VARIABLES
  npc,          \* the negotiating goroutine's control point
  ee,           \* its local error variable
  e,            \* start's named result, also written by the goroutine
  negotiateErr, \* chan error, buffered 1
  msgChan,      \* chan *wire.MsgVersion, buffered 1: number of messages in it
  spc,          \* start's control point
  disconnect,   \* the disconnect flag
  wire,         \* commands written or queued to the remote peer, in order
  started,      \* the five handler goroutines have been started
  outcome,      \* outcome of readRemoteVersionMsg, "none" before the read
  sentNonces,   \* SentNonces, process-wide: most recently added first
  drawn,        \* nonces drawn so far by localVersionMsg of any peer
  myNonce,      \* the nonce of this peer's own version message, 0 before
  inbox,        \* messages from the remote not yet read
  readNonce     \* msg.Nonce of the version read (p.Nonce once accepted)

nonceVars == <<sentNonces, drawn, myNonce, inbox, readNonce>>
vars == <<npc, ee, e, negotiateErr, msgChan, spc, disconnect, wire, started,
          outcome, nonceVars>>

\* Disconnect: set once; the connection is closed.
DoDisconnect == disconnect' = TRUE

\* writeMessage returns nil without writing when disconnecting.
WriteMsg(cmd) == wire' = IF disconnect THEN wire ELSE Append(wire, cmd)

-----------------------------------------------------------------------------
(* The negotiating goroutine.                                              *)

\* The error of the negotiation goes to ee for an inbound peer and, through
\* `msg, e = p.negotiateOutboundProtocol()`, to start's e for an outbound one.
\* Mutant: the inbound branch also assigns start's e instead of its own ee.
SetResultShared(err) == /\ e' = err /\ UNCHANGED ee

SetResult(err) ==
  IF Inbound THEN /\ ee' = err /\ UNCHANGED e
             ELSE /\ e' = err /\ UNCHANGED ee

\* mruNonceMap (not in this repository; spec section 2): Add puts a new
\* nonce first and, at capacity, evicts the least recently used one.
NonceExists(m, n) == \E i \in 1..Len(m) : m[i] = n

NonceAdd(m, n) ==
  IF Len(m) >= NonceCap THEN <<n>> \o SubSeq(m, 1, Len(m) - 1) ELSE <<n>> \o m

\* localVersionMsg draws a nonce and adds it to SentNonces before the
\* message is built.
LocalVersionMsg(n) ==
  /\ drawn' = n
  /\ sentNonces' = NonceAdd(sentNonces, n)

\* writeLocalVersionMsg, first half: localVersionMsg fails only if
\* NewestBlock fails, before drawing the nonce.
LocalVersion ==
  /\ npc = "writeLocal"
  /\ \/ /\ LocalVersionMsg(drawn + 1)
        /\ myNonce' = drawn + 1
        /\ npc' = "writeVersion"
        /\ UNCHANGED <<ee, e>>
     \/ /\ npc' = "report"
        /\ SetResult("err")
        /\ UNCHANGED <<sentNonces, drawn, myNonce>>
  /\ UNCHANGED <<negotiateErr, msgChan, spc, disconnect, wire, started, outcome,
                 inbox, readNonce>>

\* writeLocalVersionMsg, second half: writeMessage (fails on a broken
\* connection, returns nil without writing once disconnected).
WriteVersion ==
  /\ npc = "writeVersion"
  /\ \/ /\ WriteMsg("version")
        /\ npc' = IF Inbound THEN "report" ELSE "readRemote"
        /\ SetResult("nil")
     \/ /\ UNCHANGED wire
        /\ npc' = "report"
        /\ SetResult("err")
  /\ UNCHANGED <<negotiateErr, msgChan, spc, disconnect, started, outcome,
                 nonceVars>>

\* readRemoteVersionMsg's checks of the message read, in the code's order:
\* not a version; a nonce in SentNonces (self connection); then the
\* OnVersion listener's reject, an obsolete version, or acceptance.
VersionOutcomes(m) ==
  IF m.cmd # "version" THEN {"notVersion"}
  ELSE IF NonceExists(sentNonces, m.nonce) THEN {"self"}
  ELSE {"rejected", "obsolete", "ok"}

\* readRemoteVersionMsg: the read fails (always, once disconnected), or it
\* returns the remote's first message. The not-version, OnVersion and
\* obsolete paths write a reject.
ReadRemote ==
  /\ npc = "readRemote"
  /\ \/ /\ outcome' = "readErr"
        /\ UNCHANGED <<inbox, readNonce>>
     \/ /\ ~disconnect
        /\ inbox # <<>>
        /\ inbox' = Tail(inbox)
        /\ readNonce' = IF Head(inbox).cmd = "version" THEN Head(inbox).nonce
                                                      ELSE Foreign
        /\ outcome' \in VersionOutcomes(Head(inbox))
  /\ IF outcome' \in WritesReject THEN WriteMsg("reject") ELSE UNCHANGED wire
  /\ IF outcome' = "ok"
       THEN /\ npc' = IF Inbound THEN "writeLocal" ELSE "report"
            /\ SetResult("nil")
       ELSE /\ npc' = "report"
            /\ SetResult("err")
  /\ UNCHANGED <<negotiateErr, msgChan, spc, disconnect, started, sentNonces,
                 drawn, myNonce>>

\* if ...; E.Chk(ee) { negotiateErr <- ee }  (blocks while the slot is full)
Report ==
  /\ npc = "report"
  /\ \/ /\ ee = "err"
        /\ negotiateErr = <<>>
        /\ negotiateErr' = <<ee>>
     \/ /\ ee # "err"
        /\ UNCHANGED negotiateErr
  /\ npc' = "sendMsg"
  /\ UNCHANGED <<ee, e, msgChan, spc, disconnect, wire, started, outcome,
                 nonceVars>>

\* msgChan <- msg
SendMsg ==
  /\ npc = "sendMsg"
  /\ msgChan = 0
  /\ msgChan' = 1
  /\ npc' = "sendNil"
  /\ UNCHANGED <<ee, e, negotiateErr, spc, disconnect, wire, started, outcome,
                 nonceVars>>

\* negotiateErr <- nil
\* Mutant: the final send does not wait for the slot.
SendNilNoBlock ==
  /\ npc = "sendNil"
  /\ negotiateErr' = Append(negotiateErr, "nil")
  /\ npc' = "done"
  /\ UNCHANGED <<ee, e, msgChan, spc, disconnect, wire, started, outcome,
                 nonceVars>>

SendNil ==
  /\ npc = "sendNil"
  /\ negotiateErr = <<>>
  /\ negotiateErr' = <<"nil">>
  /\ npc' = "done"
  /\ UNCHANGED <<ee, e, msgChan, spc, disconnect, wire, started, outcome,
                 nonceVars>>

NegStep == LocalVersion \/ WriteVersion \/ ReadRemote \/ Report \/ SendMsg \/ SendNil

-----------------------------------------------------------------------------
(* start's select, the handler start, and AssociateConnection's check of   *)
(* start's result.                                                         *)

\* AssociateConnection (called once per peer here): an inbound peer takes
\* its address from the connection through newNetAddress and, when that
\* fails, disconnects without starting; otherwise the goroutine running
\* start begins, and start launches the negotiating goroutine.
Associate ==
  /\ spc = "associate"
  /\ \/ /\ Inbound
        /\ DoDisconnect
        /\ spc' = "finished"
        /\ UNCHANGED npc
     \/ /\ spc' = "select"
        /\ npc' = IF Inbound THEN "readRemote" ELSE "writeLocal"
        /\ UNCHANGED disconnect
  /\ UNCHANGED <<ee, e, negotiateErr, msgChan, wire, started, outcome,
                 nonceVars>>

\* case e = <-negotiateErr: on an error Disconnect and return.
StartRecv ==
  /\ spc = "select"
  /\ negotiateErr # <<>>
  /\ e' = Head(negotiateErr)
  /\ negotiateErr' = Tail(negotiateErr)
  /\ IF Head(negotiateErr) # "nil"
       THEN /\ DoDisconnect
            /\ spc' = "returned"
       ELSE /\ spc' = "handlers"
            /\ UNCHANGED disconnect
  /\ UNCHANGED <<npc, ee, msgChan, wire, started, outcome,
                 nonceVars>>

\* case <-time.After(negotiateTimeout)
StartTimeout ==
  /\ spc = "select"
  /\ DoDisconnect
  /\ e' = "timeout"
  /\ spc' = "returned"
  /\ UNCHANGED <<npc, ee, negotiateErr, msgChan, wire, started, outcome,
                 nonceVars>>

\* go stallHandler() ... go pingHandler(); QueueMessage(verack) (nothing is
\* queued once the peer is disconnected).
StartHandlers ==
  /\ spc = "handlers"
  /\ started' = TRUE
  /\ WriteMsg("verack")
  /\ spc' = "returned"
  /\ UNCHANGED <<npc, ee, e, negotiateErr, msgChan, disconnect, outcome,
                 nonceVars>>

\* AssociateConnection: if e := p.start(msgChan); E.Chk(e) { p.Disconnect() }
AssocCheck ==
  /\ spc = "returned"
  /\ IF e # "nil" THEN DoDisconnect ELSE UNCHANGED disconnect
  /\ spc' = "finished"
  /\ UNCHANGED <<npc, ee, e, negotiateErr, msgChan, wire, started, outcome,
                 nonceVars>>

StartStep == Associate \/ StartRecv \/ StartTimeout \/ StartHandlers \/ AssocCheck

Init ==
  /\ npc = "idle"
  /\ ee = "nil"
  /\ e = "nil"
  /\ negotiateErr = <<>>
  /\ msgChan = 0
  /\ spc = "associate"
  /\ disconnect = FALSE
  /\ wire = <<>>
  /\ started = FALSE
  /\ outcome = "none"
  /\ sentNonces = <<>> /\ drawn = 0 /\ myNonce = 0
  /\ inbox = <<>> /\ readNonce = Foreign

-----------------------------------------------------------------------------
(* The rest of the process and the remote end.                             *)

\* Another peer of this process runs localVersionMsg (SentNonces is shared
\* by all peers).
OtherVersion ==
  /\ drawn < MaxOthers + (IF myNonce > 0 THEN 1 ELSE 0)
  /\ LocalVersionMsg(drawn + 1)
  /\ UNCHANGED <<npc, ee, e, negotiateErr, msgChan, spc, disconnect, wire,
                 started, outcome, myNonce, inbox, readNonce>>

\* The remote end sends its first message: anything but a version, a version
\* of another node, or the version of a peer of this process that dialled
\* its own listener (that peer drew its nonce before writing).
RemoteSend ==
  /\ outcome = "none" /\ inbox = <<>>
  /\ \E m \in {[cmd |-> "other"], [cmd |-> "version", nonce |-> Foreign]}
             \cup {[cmd |-> "version", nonce |-> n] : n \in (1..drawn) \ {myNonce}} :
       inbox' = <<m>>
  /\ UNCHANGED <<npc, ee, e, negotiateErr, msgChan, spc, disconnect, wire,
                 started, outcome, sentNonces, drawn, myNonce, readNonce>>

Next == NegStep \/ StartStep \/ OtherVersion \/ RemoteSend

\* Both goroutines are scheduled; the timer of time.After fires.
Spec == Init /\ [][Next]_vars /\ WF_vars(NegStep) /\ WF_vars(StartStep)

-----------------------------------------------------------------------------
(* Properties.                                                             *)

Errors == {"nil", "err", "timeout"}

TypeOK ==
  /\ npc \in {"idle", "writeLocal", "writeVersion", "readRemote", "report", "sendMsg", "sendNil", "done"}
  /\ spc \in {"associate", "select", "handlers", "returned", "finished"}
  /\ ee \in Errors /\ e \in Errors
  /\ negotiateErr \in Seq(Errors) /\ Len(negotiateErr) <= 1
  /\ msgChan \in 0..1
  /\ outcome \in ReadOutcomes \cup {"none"}
  /\ sentNonces \in Seq(1..MaxDraws) /\ Len(sentNonces) <= NonceCap
  /\ drawn \in 0..MaxDraws /\ myNonce \in 0..MaxDraws
  /\ inbox \in Seq(Msgs) /\ Len(inbox) <= 1 /\ readNonce \in 0..MaxDraws

\* Spec section 4.1 and scenarios 1 and 2: the handlers start (the peer is
\* established and a verack is queued) only after the remote version was
\* read and accepted: not a self connection, not rejected by OnVersion, not
\* obsolete.
HandshakeSound == started => outcome = "ok"

\* Every failed negotiation (read error, no version, self connection, reject,
\* obsolete version) ends with the peer disconnected.
NegotiationFailureDisconnects ==
  (outcome \notin {"none", "ok"}) ~> disconnect

\* The negotiating goroutine, once start has launched it, always finishes,
\* whether start took its result or timed out.
NegotiatorExits == (npc # "idle") ~> (npc = "done")
=============================================================================
