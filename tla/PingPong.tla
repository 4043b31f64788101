------------------------------- MODULE PingPong -------------------------------
(***************************************************************************)
(* Ping statistics of a peer (genprecomps.go).  pingHandler queues a ping  *)
(* with a fresh nonce at every tick of its ticker; outHandler, taking the  *)
(* ping from sendQueue, records lastPingNonce and lastPingTime under       *)
(* statsMtx before it writes the ping; inHandler passes every pong read to *)
(* handlePongMsg, which records the latency if the pong carries the        *)
(* pending nonce and clears it.  The send pipeline is taken as the FIFO    *)
(* queue of PeerOutbound, which PeerPipeline is shown to implement; the    *)
(* remote peer answers pings late, never, or more than once.               *)
(***************************************************************************)
EXTENDS Integers, Sequences

CONSTANTS
  PingInterval,  \* pingInterval, in clock ticks
  MaxTime,       \* bound on the clock
  MaxPings,      \* bound on the pings pingHandler queues
  MaxRepeats     \* bound on pongs the remote sends again

ASSUME PingInterval \in Nat \ {0} /\ MaxTime \in Nat /\ MaxPings \in Nat
ASSUME MaxRepeats \in Nat

\* A nonce is the number of its ping; wire.RandomUint64 returning 0, the
\* value that means "no pending ping", is left out (probability 2^-64).
Nonces == 1..MaxPings

VARIABLES
  now,            \* the clock
  newer,          \* ProtocolVersion() > wire.BIP0031Version, fixed at handshake
  tickC,          \* pingTicker.C: buffered, one tick
  quit,           \* the peer's quit channel is closed (Disconnect)
  pingDone,       \* pingHandler has left its loop
  pings,          \* pings queued so far (the last nonce drawn)
  sendQueue,      \* nonces of pings queued and not yet taken by outHandler
  opc,            \* outHandler: "loop", or "write" with the ping in cur
  cur,            \* the ping outHandler is writing
  toRemote,       \* pings on the connection
  fromRemote,     \* pongs on the connection
  repeats,        \* pongs sent again so far
  lastPingNonce, lastPingTime, lastPingMicros,
  \* For invariant-checking:
  sentAt,         \* per nonce: the time outHandler took the ping, or -1
  firstPongAt,    \* per nonce: the time inHandler read its first pong, or -1
  recorded        \* the latencies handlePongMsg recorded, with the pong's nonce

vars == <<now, newer, tickC, quit, pingDone, pings, sendQueue, opc, cur,
          toRemote, fromRemote, repeats, lastPingNonce, lastPingTime,
          lastPingMicros, sentAt, firstPongAt, recorded>>

TypeOK ==
  /\ now \in 0..MaxTime /\ newer \in BOOLEAN /\ tickC \in BOOLEAN
  /\ quit \in BOOLEAN /\ pingDone \in BOOLEAN
  /\ pings \in 0..MaxPings /\ sendQueue \in Seq(Nonces)
  /\ opc \in {"loop", "write"} /\ cur \in 0..MaxPings
  /\ toRemote \in Seq(Nonces) /\ fromRemote \in Seq(Nonces)
  /\ repeats \in 0..MaxRepeats
  /\ lastPingNonce \in 0..MaxPings /\ lastPingTime \in 0..MaxTime
  /\ lastPingMicros \in 0..MaxTime
  /\ sentAt \in [Nonces -> -1..MaxTime] /\ firstPongAt \in [Nonces -> -1..MaxTime]
  /\ recorded \in Seq([nonce : Nonces, micros : 0..MaxTime])

Init ==
  /\ now = 0 /\ newer \in BOOLEAN /\ tickC = FALSE
  /\ quit = FALSE /\ pingDone = FALSE
  /\ pings = 0 /\ sendQueue = <<>> /\ opc = "loop" /\ cur = 0
  /\ toRemote = <<>> /\ fromRemote = <<>> /\ repeats = 0
  /\ lastPingNonce = 0 /\ lastPingTime = 0 /\ lastPingMicros = 0
  /\ sentAt = [n \in Nonces |-> -1] /\ firstPongAt = [n \in Nonces |-> -1]
  /\ recorded = <<>>

\* Time passes; time.NewTicker(pingInterval) puts a tick in its one-slot
\* channel every pingInterval and drops it when the slot is full.
Tick ==
  /\ now < MaxTime
  /\ now' = now + 1
  /\ tickC' = (tickC \/ (now + 1) % PingInterval = 0)
  /\ UNCHANGED <<newer, quit, pingDone, pings, sendQueue, opc, cur, toRemote,
                 fromRemote, repeats, lastPingNonce, lastPingTime,
                 lastPingMicros, sentAt, firstPongAt, recorded>>

\* pingHandler: on a tick draw a nonce; if RandomUint64 fails, skip the
\* tick; otherwise QueueMessage(NewMsgPing(nonce), nil), which drops the
\* message once the peer is disconnected. On quit, leave the loop.
PingHandler ==
  /\ ~pingDone
  /\ \/ /\ tickC
        /\ tickC' = FALSE
        /\ \/ UNCHANGED <<pings, sendQueue>>
           \/ /\ pings < MaxPings
              /\ pings' = pings + 1
              /\ sendQueue' = IF quit THEN sendQueue ELSE Append(sendQueue, pings + 1)
        /\ UNCHANGED pingDone
     \/ /\ quit
        /\ pingDone' = TRUE
        /\ UNCHANGED <<tickC, pings, sendQueue>>
  /\ UNCHANGED <<now, newer, quit, opc, cur, toRemote, fromRemote, repeats,
                 lastPingNonce, lastPingTime, lastPingMicros, sentAt,
                 firstPongAt, recorded>>

\* outHandler takes a ping from sendQueue; for a peer above BIP0031 it
\* records the nonce and time.Now() under statsMtx before the write.
OutRecord ==
  /\ opc = "loop"
  /\ sendQueue # <<>>
  /\ cur' = Head(sendQueue)
  /\ sendQueue' = Tail(sendQueue)
  /\ IF newer
       THEN /\ lastPingNonce' = Head(sendQueue)
            /\ lastPingTime' = now
       ELSE UNCHANGED <<lastPingNonce, lastPingTime>>
  /\ sentAt' = [sentAt EXCEPT ![Head(sendQueue)] = now]
  /\ opc' = "write"
  /\ UNCHANGED <<now, newer, tickC, quit, pingDone, pings, toRemote, fromRemote,
                 repeats, lastPingMicros, firstPongAt, recorded>>

\* stallControl <- sccSendMessage, then writeMessage puts the ping on the
\* connection.
OutWrite ==
  /\ opc = "write"
  /\ toRemote' = Append(toRemote, cur)
  /\ opc' = "loop"
  /\ UNCHANGED <<now, newer, tickC, quit, pingDone, pings, sendQueue,
                 cur, fromRemote, repeats,
                 lastPingNonce, lastPingTime, lastPingMicros, sentAt,
                 firstPongAt, recorded>>

\* The peer is disconnected (by the server, a stall, or a failed write).
Disconnect ==
  /\ ~quit
  /\ quit' = TRUE
  /\ UNCHANGED <<now, newer, tickC, pingDone, pings, sendQueue, opc, cur,
                 toRemote, fromRemote, repeats, lastPingNonce, lastPingTime,
                 lastPingMicros, sentAt, firstPongAt, recorded>>

\* The remote peer answers a ping with a pong carrying its nonce, at any
\* later time, or not at all.
RemotePong ==
  /\ toRemote # <<>>
  /\ toRemote' = Tail(toRemote)
  /\ \/ fromRemote' = Append(fromRemote, Head(toRemote))
     \/ UNCHANGED fromRemote
  /\ UNCHANGED <<now, newer, tickC, quit, pingDone, pings, sendQueue,
                 opc, cur, repeats,
                 lastPingNonce, lastPingTime, lastPingMicros, sentAt,
                 firstPongAt, recorded>>

\* The remote peer sends again a pong for a ping it has read.
RemoteRepeat ==
  /\ repeats < MaxRepeats
  /\ \E n \in Nonces :
       /\ sentAt[n] # -1 /\ n \notin {toRemote[i] : i \in DOMAIN toRemote}
       /\ fromRemote' = Append(fromRemote, n)
  /\ repeats' = repeats + 1
  /\ UNCHANGED <<now, newer, tickC, quit, pingDone, pings, sendQueue,
                 opc, cur, toRemote,
                 lastPingNonce, lastPingTime, lastPingMicros, sentAt,
                 firstPongAt, recorded>>

\* Mutant: lastPingTime minus the time of the pong.
HandlePongMsgUntil(n) ==
  IF newer /\ lastPingNonce # 0 /\ n = lastPingNonce
    THEN /\ lastPingMicros' = lastPingTime - now
         /\ lastPingNonce' = 0
         /\ recorded' = Append(recorded, [nonce |-> n, micros |-> lastPingTime - now])
    ELSE UNCHANGED <<lastPingNonce, lastPingMicros, recorded>>

\* Mutant: the pending nonce is not cleared after a match.
HandlePongMsgNoClear(n) ==
  IF newer /\ lastPingNonce # 0 /\ n = lastPingNonce
    THEN /\ lastPingMicros' = now - lastPingTime
         /\ recorded' = Append(recorded, [nonce |-> n, micros |-> now - lastPingTime])
         /\ UNCHANGED lastPingNonce
    ELSE UNCHANGED <<lastPingNonce, lastPingMicros, recorded>>

\* Mutant: any pong while a ping is pending is taken as its answer.
HandlePongMsgAnyNonce(n) ==
  IF newer /\ lastPingNonce # 0
    THEN /\ lastPingMicros' = now - lastPingTime
         /\ lastPingNonce' = 0
         /\ recorded' = Append(recorded, [nonce |-> n, micros |-> now - lastPingTime])
    ELSE UNCHANGED <<lastPingNonce, lastPingMicros, recorded>>

\* handlePongMsg: for a peer above BIP0031, under statsMtx, a pong that
\* carries the pending nonce records time.Since(lastPingTime) and clears
\* the nonce; any other pong is ignored.
HandlePongMsg(n) ==
  IF newer /\ lastPingNonce # 0 /\ n = lastPingNonce
    THEN /\ lastPingMicros' = now - lastPingTime
         /\ lastPingNonce' = 0
         /\ recorded' = Append(recorded, [nonce |-> n, micros |-> now - lastPingTime])
    ELSE UNCHANGED <<lastPingNonce, lastPingMicros, recorded>>

\* inHandler reads a pong and passes it to handlePongMsg.
InPong ==
  /\ fromRemote # <<>>
  /\ fromRemote' = Tail(fromRemote)
  /\ HandlePongMsg(Head(fromRemote))
  /\ firstPongAt' = IF firstPongAt[Head(fromRemote)] = -1
                      THEN [firstPongAt EXCEPT ![Head(fromRemote)] = now]
                      ELSE firstPongAt
  /\ UNCHANGED <<now, newer, tickC, quit, pingDone, pings, sendQueue,
                 opc, cur, toRemote,
                 repeats, lastPingTime, sentAt>>

Next ==
  \/ Tick \/ PingHandler \/ OutRecord \/ OutWrite
  \/ RemotePong \/ RemoteRepeat \/ InPong \/ Disconnect

Spec == Init /\ [][Next]_vars

-----------------------------------------------------------------------------
(* Properties.                                                             *)

\* Spec section 4 ("pong: if it matches last_ping_nonce, record round-trip")
\* and handlePongMsg's comment: whatever pings overlap and whatever pongs
\* the remote repeats or delays, every latency outHandler and handlePongMsg
\* record is the round trip of one ping: the time from outHandler taking
\* the ping to inHandler reading the first pong that carries its nonce.
LatencyIsRoundTrip ==
  \A i \in DOMAIN recorded :
    recorded[i].micros = firstPongAt[recorded[i].nonce] - sentAt[recorded[i].nonce]
=============================================================================
