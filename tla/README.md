# TLA+ models of the parallelcoin peer engine and process supervisor

This directory holds TLA+ specifications of the concurrent parts of
`p9c/parallelcoin`, the TLC configurations that check them, and this account
of what they show. `PROJECT.json` lists the components, the runs, the
mutants, the mapping from every definition to the source lines it
translates, the findings, and the hazards of the code.

## 1. The system

### 1.1 The peer engine (`src/pkg/ecc/precomp/genprecomps.go`, package `peer`)

A `Peer` is one TCP connection. `start()` runs the handshake and then starts
five goroutines, which talk over channels:

```
callers ──QueueMessage──▶ outputQueue (cap 1000) ──▶ queueHandler ──sendQueue (cap 1)──▶ outHandler ──▶ conn
QueueInventory ──▶ outputInvChan ──▶ queueHandler (trickle ticker)      ◀──sendDoneQueue (cap 1)──┘
inHandler ◀── conn (readMessage) ; inHandler, outHandler ──stallControl (cap 1)──▶ stallHandler
pingHandler ──QueueMessage(ping)──▶ outputQueue
```

| Part | Code | State | Operations |
|---|---|---|---|
| QueueMessage / PushRejectMsg | 902-928, 1704-1728 | outputQueue, doneChan of the caller | Connected check, blocking send, wait on doneChan |
| queueHandler | 1478-1599 | `waiting`, `pendingMsgs`, `invSendQueue` | take from outputQueue, hand to outHandler, sendDone, inv, trickle, quit, drains, close queueQuit |
| outHandler | 1623-1680 | current message | stallControl send, writeMessage, done signal, sendDone, quit, wait for queueQuit, drain, close outQuit |
| stallHandler | 1142-1265 | pending deadlines, handler-time offset, `ioStopped` | control messages, stall tick, inQuit/outQuit, drain |
| inHandler | 1270-1470 | verAckReceived, sendHeadersPreferred, idle timer | read, stall control, dispatch, reject duplicate version, exit |
| pingHandler | 1683-1701 | — | ping on a ticker, quit |
| Disconnect | 1757-1766 | `disconnect` flag, `quit` | set once, close conn, close quit |
| handshake | 1770-2007 | SentNonces, negotiated version | version exchange, self-connection check, negotiate timeout |
| inventory | 525, 1518-1571, 1736-1747 | knownInventory (MRU 30000) | QueueInventory, block fast path, trickle |
| getblocks/getheaders filter | 820-894 | previous begin/stop hashes | duplicate suppression |

Shutdown protocol: `Disconnect` closes `quit`; queueHandler signals every
pending done channel, drains outputQueue and closes `queueQuit`; outHandler
waits for `queueQuit`, drains sendQueue and closes `outQuit`; inHandler
closes `inQuit` when its loop ends; stallHandler is meant to exit when both
`inQuit` and `outQuit` are closed.

### 1.2 The process supervisor and the pipe log protocol

`src/pkg/util/rununit/main.go` starts and stops a child process: a command
loop on an unbuffered `commandChan` (Start/Stop) and a one-shot watcher on
the parent's quit. The child is reached through a stdio pipe
(`src/unnamed/part_003`: `pipe.Consume`, `pipe.Serve`, `consume.Start`,
`Stop`, `Kill`, `SetLevel`) carrying four-byte commands (`run `, `stop`,
`slvl`, `kill`) to the child and `entr` log entries back; the child side is
`serve.Log` (`src/unnamed/part_001`).

### 1.3 Hard behaviours

Interleavings of five goroutines and external callers on bounded channels;
closing channels that stay ready for ever; disconnects at any point; a
failed write; a handshake racing its timeout; deadlines adjusted by handler
time; bounded MRU caches; a stream pipe without framing. The hazards are
listed, at the line where each bites, in `PROJECT.json` ("hazards").

## 2. Modules

### PeerPipeline (+ MCPeerPipeline)

Models the five goroutines after the handshake and the shutdown protocol.
Message payloads are abstracted to a record of an id (the order in which it
entered outputQueue), the goroutine that queued it (the owner of its done
channel), whether it has a done channel, and its command (`msg`, `ping`,
`pong`, `reject`).

* Channels are sequences (`outputQueue`, `sendQueue`, `stallControl`) or a
  count (`sendDone`); a closed quit channel is a boolean that stays TRUE.
  A blocking send is an action of its own whose guard is the free slot.
* Each goroutine has a control point (`qpc`, `opc`, `spc`, `ipc`, `ppc`)
  and one action per channel operation; a `select` is the disjunction of its
  cases, each guarded by the readiness of its channel.
* `QueueMessage` is three steps per calling goroutine (`QMCheck`: the
  `Connected()` test, `QMSend`: the blocking send, `QMWait`: the wait on the
  done channel that `PushRejectMsg(wait=true)` and the callers do), so that
  the gap between check and send is visible.
* inHandler's read nondeterministically returns a message of a kind that
  matters (`version`, `ping`, anything else), bounded by `MaxRecv`, or one
  of `ReadErrors` (EOF, a permanent network error, a malformed frame).
  `ShouldHandleReadError` decides, as the code does, whether the error is
  answered with `PushRejectMsg(wait=true)` before the loop ends.
  `HandlePingMsg` queues a pong only for a peer above BIP0031; the version
  is a free choice at each ping.
* `WriteMessage` is the set of outcomes of `writeMessage`: nil without a
  write while disconnecting, otherwise a write or an error.
* `ExternalDisconnect` is `Disconnect` from the idle timer, the stall ticker
  or the server.
* Left out here: inventory (`outputInvChan`, trickle: see InvTrickle), the
  deadlines of stallHandler (only its control-message consumption and exit
  are kept: see StallDetector), statistics, encoding.

Properties:

| Property | Kind | Statement |
|---|---|---|
| `TypeOK` | invariant | types and channel capacities |
| `SendPipelineBalanced` | invariant | at most one message between queueHandler and outHandler, none when not waiting, so the sends on sendQueue and sendDoneQueue never block |
| `ImplementsOutbound` | refinement | the pipeline implements PeerOutbound (below) under the mapping `InTransit` / `wire` / `disconnect` |
| `HandlersTerminate` | liveness | after quit every goroutine ends |

### PeerOutbound (abstract specification)

What a peer promises for the messages given to `QueueMessage`, stated
without goroutines: a FIFO `queue` of accepted messages, the sequence
`sent` of messages written, and a flag `down`. `Accept` appends (at any
time, as `QueueMessage` may still queue after a disconnect), `Transmit`
writes the head while up, `FailedWrite` loses the head and goes down,
`Disconnect` goes down, and `Discard` removes any messages, keeping the
order of the rest, once down (the drains of queueHandler and outHandler).
`Remaining(s)` is the set of order-preserving subsequences of `s`.

PeerPipeline refines it through `Outbound == INSTANCE PeerOutbound WITH
queue <- InTransit, sent <- wire, down <- disconnect`. `InTransit` lists
the ids of the messages between the callers and the connection, oldest
first: outHandler's current message before its write, sendQueue,
queueHandler's message being pushed to sendQueue, `pendingMsgs`, then
`outputQueue`. That this order is the age order is itself part of what
is checked. `MsgIds` bounds the ids: one message per caller, one per
message read by inHandler plus its final reject, one per ping tick.
`ImplementsOutbound == Outbound!Spec` is checked as a temporal property:
every step of the pipeline is a step of PeerOutbound or leaves its
variables unchanged. It subsumes the former invariant that the wire is
sorted by id, and adds that no message is written twice, skipped while
connected, or written after a later one, and that a write that is a silent
no-op (`writeMessage` after a concurrent `Disconnect`) happens only when
down.

### StallDetector (+ MCStallDetector)

Models the deadlines of stallHandler (`maybeAddDeadline`, the
`stallControl` cases, the `stallTicker` case) with the two goroutines that
feed it: outHandler (`sccSendMessage` before `writeMessage`) and inHandler
(`sccReceiveMessage`, `sccHandlerStart`, the listener, `sccHandlerDone`).
Time is discrete: one unit is one `stallTickInterval`, so
`ResponseTimeout = 2` stands for 360 s at a scaled tick. `pendingResponses`
maps a response command to its deadline or `NoDeadline`; `deadlineOffset`
and `handlersStartTime` are the handler-time adjustment. The receive case
deletes the whole getdata group (`block`, `merkleblock`, `tx`, `notfound`)
as the code does. The `continue` of the unbalanced handler-done case is
kept. Ghost variables `requested` and `answered` record what a deadline
promises. The offset a tick applies is the handler time since the last
tick, as the comment at line 1216 says; it is reset at every tick.

| Property | Kind | Statement |
|---|---|---|
| `TypeOK` | invariant | types, one-slot control channel |
| `NoStaleDeadline` | invariant | once stallHandler has seen every event, no deadline is pending for a response read after its request was written |
| `HeldUntilAnswered` | invariant | a sent request's deadline is held until a response arrives (spec section 8) |

### PeerHandshake

Models `AssociateConnection` (an inbound peer whose `newNetAddress` fails
disconnects without starting), `Peer.start`, its negotiating goroutine
(`negotiateInboundProtocol` / `negotiateOutboundProtocol`),
`localVersionMsg` and `writeLocalVersionMsg` (two steps: draw the nonce
and add it to `SentNonces`, then write), `readRemoteVersionMsg`, the
negotiate timeout and `AssociateConnection`'s check of start's result.
`SentNonces` is the process-wide MRU of capacity `NonceCap` (the code uses
50): a sequence, most recent first (`NonceAdd`, `NonceExists`; its type is
not in the repository, so it follows spec section 2). Nonces are numbered
in the order the process draws them. Two environment actions: `OtherVersion`
is another peer of the process running `localVersionMsg` (at most
`MaxOthers` times), and `RemoteSend` is the remote's first message, which
is not a version, a version of a foreign node, or the version of a peer of
this process that dialled its own listener. `readRemoteVersionMsg` checks,
in the code's order, not a version, a nonce in `SentNonces` (self
connection), then the OnVersion reject, an obsolete version or acceptance
(`VersionOutcomes`); a read error can happen at any time. Errors are
`nil`/`err`/`timeout`. The constant `Inbound` chooses the direction; the
two directions write to different error variables (`ee` and start's `e`),
as the code does.

| Property | Kind | Statement |
|---|---|---|
| `TypeOK` | invariant | types, one-slot channels |
| `HandshakeSound` | invariant | the handlers start only after the remote version was accepted |
| `NegotiationFailureDisconnects` | liveness | every failed negotiation ends disconnected |
| `NegotiatorExits` | liveness | the negotiating goroutine, once started, always finishes |

### RunUnit (+ MCRunUnit)

Models the run unit (`src/pkg/util/rununit/main.go`) together with the
process it supervises. Parent side: the command loop (`LoopStart`,
`LoopRun`, `LoopStop`, `LoopKillWait`, `LoopStopped`, `LoopQuit`), the
quit watcher step by step, since the command loop runs between its
lines (`WatchWake`; `WatchKill`, consume.Kill of the worker r.worker holds
at line 97; `WatchKillWait`, Kill's Cmd.Wait; `WatchWorkerWait`, line 99,
which reads r.worker afresh; `WatchStopped`, lines 101-102), the user's
`Start`/`Stop` calls (`UserCall`, a pending send on the unbuffered
`commandChan`), `Shutdown` and the parent's interrupt, and `pipe.Consume`'s
reader (`ConsumeRead`). `wcur` tells whether the worker the watcher read
is still `r.worker`; a spawn makes it false, and a replaced worker is dead
(line 53 SIGKILLed it), so a Wait on it returns. `Spawn` is `worker.Spawn`
(a start that fails leaves a worker with no Process, `child = "failed"`);
`LoopStart` first calls `r.worker.Kill()` on the previous worker, which
panics on a nil Process: the parent ends (`lpc = "panicked"`, and
`ParentUp` stops every parent action); `consume.Start` and
`consume.Kill` are `ConsumeStart` and `ConsumeKill` (write `run ` /
`kill`; Kill then waits for the process). Child side: `pipe.Serve`'s
reader (`ChildRead`) and `serve.Log`'s command handler
(`ServeLogHandler`), its log forwarder (`ForwardQuit`, `ForwardEntry`),
the child's own interrupt handling and exit (`ChildExit`, modelled from
the interrupt package, which is not in this repository) and its logging
(`ChildLog`). The stdin pipe is a sequence of the four-byte commands; a
read returns any non-empty prefix of what was written (the pipe has no
framing) and the handler acts on its first four bytes only. Log entries
are counted, not decoded.

| Property | Kind | Statement |
|---|---|---|
| `StoppedMeansNoChild` | invariant | when neither goroutine of the unit is mid-command and the unit says it is not running, its child has exited (violated: finding 7) |
| `StopCompletes` | liveness | once Stop has written `kill`, the child exits and the loop returns to its select |

### InvTrickle (+ MCInvTrickle)

Models `QueueInventory` (the known-inventory check, the `Connected()`
check, the blocking send on `outputInvChan`), `AddKnownInventory` from the
server, `Disconnect`, and the `outputInvChan`, trickle-ticker and quit cases
of queueHandler, and its cleanup loop that drains `outputInvChan` after quit
(`InvDrain`). The known-inventory map is a sequence in recency order of
at most `KnownCap` entries (`MruExists`, `MruAdd`); its type,
`mruInventoryMap`, is not in this repository and is modelled from the
spec. Inventory vectors are model values; `BlockInvs` are those of type
block or witness block. An inv message handed to `queuePacket` is appended
to `emitted`; the way from there to the wire is PeerPipeline's. The
history variable `learned` holds the invs the server marked known, and
`evictedSince` the invs the map evicted (`MruEvicted`, in `AddKnown` and
`TrickleElem`) since the trickle last put them in an inv message.

| Property | Kind | Statement |
|---|---|---|
| `TypeOK` | invariant | types, channel capacity, MRU capacity |
| `ReannouncedOnlyAfterEviction` | action | the trickle puts a transaction inv it has put in an inv message before into one again only if knownInventory evicted it since (spec section 3: a known InvVect is never queued or sent) |
| `InvBatchBound` | invariant | every inv message has between 1 and `maxInvTrickleSize` entries |
| `InvAnnounced` | liveness | an inv QueueInventory accepted is eventually announced, unless the peer disconnects or the server marks it known |
| `QueueInventoryReturns` | liveness | a caller in QueueInventory's send never blocks for ever (queueHandler drains the channel after quit), as long as the callers racing the disconnect do not outnumber the channel's free slots |

The last condition is real: a caller that passed `Connected()` and sends
after the one drain of the cleanup loop returns only if the buffer has
room. With `InvChanCap = 1` and two callers TLC finds a caller blocked for
ever (the defect the pipeline_terminate run shows for `outputQueue`; in
the code it needs more than `outputBufferSize` callers in the window). No
recorded run checks that instance.

### LocatorFilter (+ MCLocatorFilter)

Models `PushGetBlocksMsg` and `PushGetHeadersMsg` (lines 820-894) with
several calling goroutines, and the `MsgGetHeaders` codec of
`src/unnamed/part_004`. A call is three steps, as the code's critical
sections are: `PushCheck` (read the previous begin/stop pair of its kind
under the mutex and return on a duplicate), `PushQueue` (build the message,
return on an `AddBlockLocatorHash` error, `QueueMessage` it) and
`PushUpdate` (record the pair under the mutex). Hashes are model values;
the locators passed are `<<>>`, `<<h1>>` and `<<h1, h2>>`. The codec is a
set of operators: `AddBlockLocatorHash` with its `MaxBlockLocatorsPerMsg`
check, `BtcEncode` (the payload is the version, the count, the hashes and
the stop hash, one element each) and `BtcDecode` (the count check, then the
hashes through `AddBlockLocatorHash`). Frames leave in queue order
(PeerOutbound), so `wire` is the order the remote reads them.

| Property | Kind | Statement |
|---|---|---|
| `BackToBackSuppressed` | invariant | of two consecutive frames of one kind with a begin hash, the remote never decodes the same (begin, stop) pair twice (spec 4.7, scenario 3) |

### PingPong (checked with MCPingPong.cfg)

Models the ping statistics: `pingHandler`'s ticker (a one-slot channel that
drops ticks), the nonce draw that may fail, `QueueMessage` dropping pings
after a disconnect, outHandler recording `lastPingNonce` and
`lastPingTime` before the write (`OutRecord`, then `OutWrite`), inHandler
passing pongs to `HandlePongMsg`, and `Disconnect`. The way through the
send pipeline is a FIFO `sendQueue`, which is what PeerPipeline is shown to
implement (PeerOutbound). The remote answers each ping at any later time
or never, and may send a pong again (`RemoteRepeat`). Whether the peer is
above BIP0031 is chosen at `Init`. Nonces are the ping's number: a
`RandomUint64` of 0, the "no ping pending" value, is left out. History
variables `sentAt`, `firstPongAt` and `recorded` serve the property only.

| Property | Kind | Statement |
|---|---|---|
| `TypeOK` | invariant | types; a latency is never negative |
| `LatencyIsRoundTrip` | invariant | every latency recorded is the time from outHandler taking a ping to the first pong carrying its nonce |

## 3. Runs

| Run | Cfg | Expect | What it shows |
|---|---|---|---|
| pipeline_safety | MCPeerPipeline.cfg | pass | 2.67M states (about 2.5 min): the send pipeline never holds two messages, and the pipeline refines PeerOutbound |
| pipeline_terminate | MCPeerPipelineTerminate.cfg | violation | a message checked as connected enters outputQueue after the final drain; inHandler waits for ever on the done channel of its reject |
| stall_safety | MCStallDetector.cfg | pass | 1.5M states: no stale deadline |
| stall_lost_deadline | MCStallDetectorHeld.cfg | violation | a response read between the stall registration and the write deletes the new request's deadline |
| handshake_inbound | MCPeerHandshake.cfg | pass | inbound: handlers start only after acceptance, every failure (a self connection among them) disconnects |
| handshake_outbound | MCPeerHandshakeOutbound.cfg | violation | outbound: a failed negotiation still starts the handlers |
| handshake_leak | MCPeerHandshakeLeak.cfg | violation | after a timeout the inbound negotiator blocks for ever |
| inv_trickle | MCInvTrickle.cfg | pass | 373k states (about 100 s): transaction invs announced again only after eviction, batches within bounds, every accepted inv eventually announced, no caller blocked after quit |
| rununit_safety | MCRunUnit.cfg | violation | the quit watcher stores running = false after the loop stopped the old worker and started a new one: Running() says stopped while a child runs |
| rununit_lost_kill | MCRunUnitStop.cfg | violation | `run ` and `kill` read together: the kill is lost and Stop waits for ever |
| locator_duplicate | MCLocatorFilter.cfg | violation | two callers pushing the same getblocks request both pass the filter; the remote decodes two identical frames back to back |
| ping_latency | MCPingPong.cfg | pass | 392k states: overlapping pings, late, lost and repeated pongs never give a wrong latency |

Every pass run has a mutant per property (`PROJECT.json`, "mutants"): a
plausible bug in the mapped code, defined in the module next to the
original, for which TLC finds the property violated.

Bounds.
* PeerPipeline: `Callers = {c1}` (with inHandler and pingHandler there are
  three goroutines calling QueueMessage), `OutputBufferSize = 2` (a full
  queue, a message waiting in pendingMsgs and one behind the drain all
  occur), `MaxPings = 1`, `MaxRecv = 1` for safety. The liveness and
  violation runs use `OutputBufferSize = 1` and `MaxRecv = 0` (the
  malformed-read and EOF paths remain) to keep the liveness graph small.
* StallDetector: `ResponseTimeout = 2`, `MaxTime = 5` (a deadline can
  expire, and a getheaders deadline of 6 cannot), two sends and two
  receives, sent commands `getdata` and `version`, received `tx`, `block`
  (two members of one group) and `verack`.
* PeerHandshake: `NonceCap = 2`, `MaxOthers = 3`: other peers draw more
  nonces than `SentNonces` holds, so a self connection whose nonce was
  evicted and one whose nonce is still held both occur, with this peer's
  own nonce drawn before (outbound) or after (inbound) the read.
* InvTrickle: three invs, two callers, three QueueInventory calls (two
  callers queueing one inv, three invs in one trickle, and a third send
  blocked on a full channel all occur),
  `MaxInvTrickleSize = 2` (a full batch and a remainder both occur),
  `InvChanCap = 2` (a caller blocks on a full channel), `KnownCap = 2`
  (the map evicts; an inv evicted after it was announced, and one evicted
  between its marking and the flush of its message, are both announced
  again). `AddKnown` is taken at most once per inv, which is enough to
  evict any inv.

* RunUnit: `MaxCmds = 3` (start, stop, start: the restart that finding 7
  and the panic at line 53 need), `MaxLogs = 1` (an entry before and one after
  `run ` are both reachable across the unit's children).

* LocatorFilter: two callers, three calls (both callers can make the same
  request and one can repeat it), `MaxLocators = 1` (the two-hash locator
  fails `AddBlockLocatorHash` and is not sent), the empty locator (a nil
  begin hash, never filtered). With one caller and five calls the property
  holds (4101 states): the duplicate needs two callers.
* PingPong: `PingInterval = 2` clock ticks, `MaxTime = 7`, three pings,
  one repeated pong: a pong can come back within the interval, after the
  next ping was recorded, or twice.

`CHECK_DEADLOCK FALSE` is used where the system stops: a peer whose
goroutines have all exited, a stall disconnect, a clock at `MaxTime`, the
callers' bound.

Fairness. PeerPipeline: weak fairness for each goroutine of the peer and
for each goroutine's progress through QueueMessage: the Go scheduler runs
every runnable goroutine and `select` chooses uniformly among ready cases.
The remote peer's read completing is weakly fair (the idle timer
disconnects after 1 minute without a message). External callers and
Disconnect get no fairness. PeerHandshake: weak fairness for the
negotiating goroutine and for start (whose `time.After` always fires).
RunUnit: weak fairness for the command loop, the watcher, the child's
goroutines and the parent's reader, which are goroutines the scheduler
runs; none for the user's calls, the interrupt or the child's logging.
InvTrickle: weak fairness for each queueHandler case and for each caller
blocked in its send (runnable goroutines; `select` picks among ready cases
at random and a tick stays buffered until taken); none for the server's
calls or Disconnect. StallDetector, LocatorFilter and PingPong check safety
only and assume no fairness.

## 4. Findings

1. **Message after the final drain; inHandler never exits** (lines
   1719-1727, 927). The `Connected()` check and the send are not atomic
   with queueHandler's cleanup; inHandler's `PushRejectMsg(wait=true)` then
   waits for ever.
2. **Lost deadline** (line 1189). A response read after outHandler
   registered a new request but before the request was written deletes the
   new request's deadlines: the request is never stall-checked (spec §8).
3. **Outbound negotiation errors ignored** (line 1974). The outbound
   branch assigns start's `e` and tests the always-nil `ee`; a self
   connection or an obsolete outbound peer starts its handlers.
4. **Negotiator leak** (line 1981). After the negotiate timeout nobody
   reads `negotiateErr`; a failing inbound negotiation fills its slot and
   blocks on the second send.
5. **Lost kill** (`src/unnamed/part_001:28`). `consume.Start` writes
   `run ` and `consume.Kill` writes `kill` as separate writes on a stream
   pipe; a child that has not read `run ` yet reads `run kill` in one Read,
   `serve.Log`'s handler switches on the first four bytes only, and the
   kill is lost. The parent waits in `Cmd.Wait` for ever, and every later
   Start or Stop blocks on `commandChan`.
6. **Duplicate locator requests** (line 832). `PushGetBlocksMsg` and
   `PushGetHeadersMsg` are documented as safe for concurrent access and as
   ignoring back-to-back duplicates, but the check of the previous pair and
   its update are separate critical sections with `QueueMessage` between
   them: two callers with the same request both send it.
7. **Run unit reports stopped with a live child** (`rununit/main.go:101`).
   The quit watcher kills and waits for the worker, reads `r.worker` again
   at line 99 and stores `running = false` at line 101, unsynchronised
   with the command loop. If the loop handles a Stop and a Start after the
   watcher's Wait returned, line 101 clears `running` (and calls `stop()` a
   second time) while the new child runs; `Running()` is wrong and the
   next Start spawns another child.

Hazards the models reach that are not findings (`PROJECT.json`,
"hazards"): stallHandler taking a closed quit channel twice (line 1249),
which PeerPipeline allows but no run decides (the only run of
`HandlersTerminate` is the violation of finding 1); the panic of
`r.worker.Kill()` at `rununit/main.go:53` on a worker whose `Cmd.Start`
failed (Start, Stop, Start: TLC reaches `lpc = "panicked"`, but both
RunUnit runs are taken by findings 5 and 7); the block-inventory fast path (line 1522)
announcing a block twice, which the spec (section 4.4) describes; the
deadline offset reset at every tick (line 1240), which the code's comment
describes although spec scenario 5 promises more (the protection that
remains is `TickOffset` itself, so no property restates it); `SentNonces`
keeping only the last 50 nonces, after which a self connection is accepted; and pongs slower than
the 1 s `pingInterval` (line 955), which are never matched, so such a peer
never gets a latency recorded: handlePongMsg's comment accepts a best-effort
statistic.

## 5. Plan

Properties of the entries the log forwarder and `pipe.Consume` deliver
(hazards at `part_001:73`, `part_003:141`). PeerPipeline and PeerHandshake
could be composed (handshake then pipeline).

## 6. Not modelled

`consume.Stop`, `consume.SetLevel` and `Worker.Stop` have no callers in
the repository: the child's handling of `stop` is modelled but nothing
writes it, and `slvl` is never written. `pipe.Serve` spinning on a closed stdin (`part_003:88`)
needs the parent's own exit, which is not modelled. The peer's accessors
and statistics snapshot are reads under a mutex. Options processing is not
built: `_config.go`, `_lint.go` and `_help.go` begin with `_`, which the Go
tool ignores, and the spec lists command-line handling as a non-goal;
`genopts` is a code generator run at build time.
Configuration data (`part_000`), ECC precomputation, the build tool, version
strings, examples and tests: no concurrent or protocol state. Encoding of
wire messages is abstracted to message kinds.
`isAllowedReadError` (which read errors inHandler tolerates in regression
test mode) is left out: it only matters on the regression-test network from
localhost, and modelling it would double PeerPipeline's state space.
`PushAddrMsg`'s partial shuffle of at most `MaxAddrPerMsg` addresses is a
pure algorithm with no interaction with the handlers; checking its
uniformity would need a run of its own.
