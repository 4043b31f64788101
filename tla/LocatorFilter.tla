---------------------------- MODULE LocatorFilter ----------------------------
(***************************************************************************)
(* Duplicate suppression of locator requests (genprecomps.go,              *)
(* PushGetBlocksMsg and PushGetHeadersMsg) and the getheaders codec        *)
(* (src/unnamed/part_004, MsgGetHeaders).  Each call reads the previous    *)
(* (begin, stop) pair of its kind under the kind's mutex, releases it,     *)
(* builds and queues the message, and records its pair under the mutex    *)
(* again.  Frames leave the peer in the order QueueMessage accepted them   *)
(* (PeerOutbound); the way through the send pipeline is PeerPipeline's.    *)
(***************************************************************************)
EXTENDS Naturals, Sequences, SequencesExt

CONSTANTS
  Callers,      \* goroutines pushing locator requests (sync manager, RPC)
  Hashes,       \* block hashes
  Locators,     \* block locators the callers pass: sequences of Hashes
  Stops,        \* stop hashes the callers pass
  MaxLocators,  \* MaxBlockLocatorsPerMsg (500 in the wire package)
  MaxCalls,     \* bound on calls
  Nil           \* a nil *chainhash.Hash

ASSUME Stops \subseteq Hashes /\ Nil \notin Hashes
ASSUME MaxLocators \in Nat /\ MaxCalls \in Nat

Kinds == {"getblocks", "getheaders"}

VARIABLES
  prevBegin, prevStop, \* per kind: prevGetBlocksBegin/Stop, prevGetHdrsBegin/Stop
  pc,                  \* per caller: "idle", "queue" or "update"
  req,                 \* per caller: the call's kind, locator and stop hash
  calls,               \* calls so far
  wire                 \* frames queued, in order: command and payload

vars == <<prevBegin, prevStop, pc, req, calls, wire>>

-----------------------------------------------------------------------------
(* The getheaders message and its codec.  The varint count is one element *)
(* of the payload: the counts here are far below 0xfd, where a varint is  *)
(* one byte.  MsgGetBlocks (not in this repository) has the same layout.  *)

\* A message carries the error e of the last operation on it ("nil" or
\* "messageError"); an encoding carries it the same way.
NewMsgGetHeaders(stop) == [pver |-> 0, locator |-> <<>>, stop |-> stop, e |-> "nil"]

AddBlockLocatorHash(msg, h) ==
  IF Len(msg.locator) + 1 > MaxLocators THEN [msg EXCEPT !.e = "messageError"]
  ELSE [msg EXCEPT !.locator = Append(@, h)]

\* A loop of AddBlockLocatorHash that stops at the first error.
AddAll(msg, hs) ==
  FoldLeft(LAMBDA m, h : IF m.e # "nil" THEN m ELSE AddBlockLocatorHash(m, h), msg, hs)

\* The message PushGetHeadersMsg builds: the loop returns on the first
\* error of AddBlockLocatorHash.
BuildMsg(loc, stop) == AddAll(NewMsgGetHeaders(stop), loc)

BtcEncode(msg) ==
  IF Len(msg.locator) > MaxLocators THEN [e |-> "messageError", bytes |-> <<>>]
  ELSE [e |-> "nil",
        bytes |-> <<msg.pver, Len(msg.locator)>> \o msg.locator \o <<msg.stop>>]

\* readElement(pver), ReadVarInt(count), the count check, count hashes
\* (each through AddBlockLocatorHash), then HashStop.
BtcDecode(p) ==
  LET count == p[2] IN
  IF count > MaxLocators
    THEN [pver |-> p[1], locator |-> <<>>, stop |-> Nil, e |-> "messageError"]
    ELSE AddAll([pver |-> p[1], locator |-> <<>>, stop |-> p[3 + count], e |-> "nil"],
                SubSeq(p, 3, 2 + count))

-----------------------------------------------------------------------------
(* PushGetBlocksMsg / PushGetHeadersMsg.                                   *)

BeginHash(loc) == IF loc = <<>> THEN Nil ELSE loc[1]

\* Filter duplicate requests: read the previous pair under the mutex and
\* return at once if the new one equals it.
PushCheck(c) ==
  /\ pc[c] = "idle"
  /\ calls < MaxCalls
  /\ calls' = calls + 1
  /\ \E k \in Kinds, loc \in Locators, stop \in Stops :
       LET begin == BeginHash(loc)
           isDuplicate == /\ prevStop[k] # Nil /\ prevBegin[k] # Nil
                          /\ begin # Nil
                          /\ stop = prevStop[k] /\ begin = prevBegin[k]
       IN /\ req' = [req EXCEPT ![c] = [kind |-> k, loc |-> loc, stop |-> stop]]
          /\ pc' = [pc EXCEPT ![c] = IF isDuplicate THEN "idle" ELSE "queue"]
  /\ UNCHANGED <<prevBegin, prevStop, wire>>

\* Construct the request (an error from AddBlockLocatorHash is returned
\* before anything is queued or recorded) and QueueMessage it.
PushQueue(c) ==
  /\ pc[c] = "queue"
  /\ LET msg == BuildMsg(req[c].loc, req[c].stop) IN
         IF msg.e # "nil"
         THEN /\ pc' = [pc EXCEPT ![c] = "idle"]
              /\ UNCHANGED wire
         ELSE /\ wire' = Append(wire, [cmd |-> req[c].kind, payload |-> BtcEncode(msg).bytes])
              /\ pc' = [pc EXCEPT ![c] = "update"]
  /\ UNCHANGED <<prevBegin, prevStop, req, calls>>

\* Update the previous request information under the mutex.
PushUpdate(c) ==
  /\ pc[c] = "update"
  /\ prevBegin' = [prevBegin EXCEPT ![req[c].kind] = BeginHash(req[c].loc)]
  /\ prevStop' = [prevStop EXCEPT ![req[c].kind] = req[c].stop]
  /\ pc' = [pc EXCEPT ![c] = "idle"]
  /\ UNCHANGED <<req, calls, wire>>

Init ==
  /\ prevBegin = [k \in Kinds |-> Nil]
  /\ prevStop = [k \in Kinds |-> Nil]
  /\ pc = [c \in Callers |-> "idle"]
  /\ req = [c \in Callers |-> [kind |-> "getblocks", loc |-> <<>>, stop |-> Nil]]
  /\ calls = 0
  /\ wire = <<>>

Next == \E c \in Callers : PushCheck(c) \/ PushQueue(c) \/ PushUpdate(c)

Spec == Init /\ [][Next]_vars

-----------------------------------------------------------------------------
(* Properties.                                                             *)

\* The (begin, stop) pair the remote peer decodes from a frame.
DecodedPair(f) ==
  LET m == BtcDecode(f.payload) IN <<BeginHash(m.locator), m.stop>>

\* Spec section 4.7 and the comments of PushGetBlocksMsg/PushGetHeadersMsg:
\* a request with a begin hash that repeats the one sent just before it,
\* for the same kind, is not sent: of back-to-back duplicates exactly one
\* frame leaves the peer.  Frames are read as the remote peer decodes them.
BackToBackSuppressed ==
  \A k \in Kinds :
    LET fs == SelectSeq(wire, LAMBDA f : f.cmd = k) IN
    \A i \in 1..(Len(fs) - 1) :
      BeginHash(BtcDecode(fs[i].payload).locator) # Nil
        => DecodedPair(fs[i]) # DecodedPair(fs[i + 1])
=============================================================================
