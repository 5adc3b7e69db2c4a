------------------------------- MODULE WsRelay -------------------------------
(***************************************************************************)
(* The bridged connections of the WebSocket relay (ws-relay/server.ts) over *)
(* its outbox.  Each client message waits in the promise chain of its       *)
(* connection; its turn reads the policy, persists the message, wakes the   *)
(* delivery and forwards it.  Connections may close at any point of it.     *)
(*                                                                          *)
(* The handshake and the slot of a large connection are in RequestGate.     *)
(***************************************************************************)
EXTENDS WsOutbox

CONSTANTS
    Connections,
    Large,          \* connections whose limit is above the large threshold
    MaxSequence,    \* bound on the messages of a connection
    MaxBytes,       \* identity.maxBytes
    MaxPendingBytes \* MAX_PENDING_BYTES, for all small connections together

ASSUME RelayParameters ==
    /\ MaxSequence \in Nat /\ Messages = Connections \X (1..MaxSequence)
    /\ IsFiniteSet(Connections) /\ Large \subseteq Connections
    /\ MaxBytes \in Nat /\ MaxPendingBytes \in Nat

VARIABLES
    client, upstream,   \* readyState of either end
    closed,             \* the flag that finish sets
    paused,             \* client.isPaused
    stale,              \* the policy changed for the connection's user
    received,           \* messages taken from the client
    chain,              \* payloads of clientMessages, the first one running
    stage,              \* await that the running one has reached
    sequence,
    content,            \* payload stored under an id
    forwarded,          \* payloads handed to the upstream
    activeConnections, pendingBytes, connectionPendingBytes, pendingSmallBytes

linkVars == <<client, upstream, closed, activeConnections>>
counterVars == <<pendingBytes, connectionPendingBytes, pendingSmallBytes>>
chainVars == <<received, chain, stage, sequence, content, forwarded>>
relayVars == <<linkVars, counterVars, chainVars, paused, stale>>
vars == <<wsVars, relayVars>>

TypeOK ==
    /\ OutboxTypeOK
    /\ client \in [Connections -> {"none", "open", "closing", "closed"}]
    /\ upstream \in [Connections -> {"none", "open", "closing", "closed"}]
    /\ closed \in [Connections -> BOOLEAN]
    /\ paused \in [Connections -> BOOLEAN] /\ stale \in [Connections -> BOOLEAN]
    /\ received \in [Connections -> 0..MaxSequence]
    /\ chain \in [Connections -> Seq(1..MaxSequence)]
    /\ stage \in [Connections -> {"queued", "policy", "persist", "send"}]
    /\ sequence \in [Connections -> 0..MaxSequence]
    /\ content \in [Messages -> 0..MaxSequence]
    /\ forwarded \in [Connections -> Seq(1..MaxSequence)]
    /\ activeConnections \in Nat /\ pendingBytes \in Nat /\ pendingSmallBytes \in Nat
    /\ connectionPendingBytes \in [Connections -> Nat]

Init ==
    /\ OutboxInit
    /\ client = [c \in Connections |-> "none"]
    /\ upstream = [c \in Connections |-> "none"]
    /\ closed = [c \in Connections |-> FALSE]
    /\ paused = [c \in Connections |-> FALSE]
    /\ stale = [c \in Connections |-> FALSE]
    /\ received = [c \in Connections |-> 0]
    /\ chain = [c \in Connections |-> <<>>]
    /\ stage = [c \in Connections |-> "queued"]
    /\ sequence = [c \in Connections |-> 0]
    /\ content = [m \in Messages |-> 0]
    /\ forwarded = [c \in Connections |-> <<>>]
    /\ activeConnections = 0 /\ pendingBytes = 0 /\ pendingSmallBytes = 0
    /\ connectionPendingBytes = [c \in Connections |-> 0]

----------------------------------------------------------------------------
(* Either end.                                                              *)

ClosePeer(state) == IF state = "open" THEN "closing" ELSE state

\* Mutant: without the check of closed.
FinishAgain(c) ==
    /\ closed' = [closed EXCEPT ![c] = TRUE]
    /\ activeConnections' = activeConnections - 1

\* finish: the connection is no longer active, and its client reads again.
Finish(c) ==
    /\ closed' = [closed EXCEPT ![c] = TRUE]
    /\ activeConnections' = IF closed[c] THEN activeConnections ELSE activeConnections - 1

CloseBoth(c) ==
    /\ client' = [client EXCEPT ![c] = ClosePeer(@)]
    /\ upstream' = [upstream EXCEPT ![c] = ClosePeer(@)]

Bridge(c) ==
    /\ client[c] = "none"
    /\ client' = [client EXCEPT ![c] = "open"]
    /\ upstream' = [upstream EXCEPT ![c] = "open"]
    /\ activeConnections' = activeConnections + 1
    /\ UNCHANGED <<wsVars, closed, counterVars, chainVars, paused, stale>>

ClientClosed(c) ==
    /\ client[c] \in {"open", "closing"}
    /\ client' = [client EXCEPT ![c] = "closed"]
    /\ upstream' = [upstream EXCEPT ![c] = ClosePeer(@)]
    /\ Finish(c) /\ paused' = [paused EXCEPT ![c] = FALSE]
    /\ UNCHANGED <<wsVars, counterVars, chainVars, stale>>

UpstreamClosed(c) ==
    /\ upstream[c] \in {"open", "closing"}
    /\ upstream' = [upstream EXCEPT ![c] = "closed"]
    /\ client' = [client EXCEPT ![c] = ClosePeer(@)]
    /\ Finish(c) /\ paused' = [paused EXCEPT ![c] = FALSE]
    /\ UNCHANGED <<wsVars, counterVars, chainVars, stale>>

\* No answer to pings for STALE_MS, while the client was not paused.
HeartbeatTimeout(c) ==
    /\ client[c] = "open" /\ ~closed[c] /\ ~paused[c]
    /\ Finish(c) /\ CloseBoth(c)
    /\ UNCHANGED <<wsVars, counterVars, chainVars, paused, stale>>

\* The client does not take the upstream's messages fast enough.
DownstreamBackpressure(c) ==
    /\ client[c] = "open" /\ upstream[c] = "open"
    /\ CloseBoth(c)
    /\ UNCHANGED <<wsVars, closed, activeConnections, counterVars, chainVars,
                   paused, stale>>

ChangePolicy(c) ==
    /\ client[c] = "open" /\ ~stale[c]
    /\ stale' = [stale EXCEPT ![c] = TRUE]
    /\ UNCHANGED <<wsVars, linkVars, counterVars, chainVars, paused>>

----------------------------------------------------------------------------
(* The messages of a client.                                                *)

Bytes(c, payload) == Size[<<c, payload>>]

OverLimit(c, size) ==
    \/ connectionPendingBytes[c] + size > MaxBytes
    \/ c \notin Large /\ pendingSmallBytes + size > MaxPendingBytes

ClientMessage(c) ==
    /\ client[c] = "open" /\ ~closed[c] /\ received[c] < MaxSequence
    /\ LET payload == received[c] + 1
           size == Bytes(c, payload)
       IN  /\ received' = [received EXCEPT ![c] = payload]
           /\ \/ /\ OverLimit(c, size)
                 /\ Finish(c) /\ CloseBoth(c)
                 /\ paused' = [paused EXCEPT ![c] = FALSE]
                 /\ UNCHANGED <<chain, counterVars>>
              \/ /\ ~OverLimit(c, size)
                 /\ paused' = [paused EXCEPT ![c] = TRUE]
                 /\ chain' = [chain EXCEPT ![c] = Append(@, payload)]
                 /\ pendingBytes' = pendingBytes + size
                 /\ connectionPendingBytes' = [connectionPendingBytes EXCEPT ![c] = @ + size]
                 /\ pendingSmallBytes' = pendingSmallBytes + (IF c \in Large THEN 0 ELSE size)
                 /\ UNCHANGED linkVars
    /\ UNCHANGED <<wsVars, stage, sequence, content, forwarded, stale>>

Turn(c, s) == chain[c] # <<>> /\ stage[c] = s

\* finally: the payload leaves the chain and the counters.
Settled(c) ==
    LET size == Bytes(c, Head(chain[c]))
    IN  /\ chain' = [chain EXCEPT ![c] = Tail(@)]
        /\ stage' = [stage EXCEPT ![c] = "queued"]
        /\ pendingBytes' = pendingBytes - size
        /\ connectionPendingBytes' = [connectionPendingBytes EXCEPT ![c] = @ - size]
        /\ pendingSmallBytes' = pendingSmallBytes - (IF c \in Large THEN 0 ELSE size)
        /\ paused' = [paused EXCEPT ![c] = FALSE]

\* Mutant: the error path without its finally.
BreakOffOnly(c) ==
    Finish(c) /\ CloseBoth(c) /\ UNCHANGED <<chain, stage, counterVars, paused>>

\* The turn ends with an error or a changed policy.
BreakOff(c) == Finish(c) /\ CloseBoth(c) /\ Settled(c)

StartTurn(c) ==
    /\ Turn(c, "queued")
    /\ IF closed[c] THEN Settled(c)
       ELSE stage' = [stage EXCEPT ![c] = "policy"] /\ UNCHANGED <<chain, counterVars, paused>>
    /\ UNCHANGED <<wsVars, linkVars, received, sequence, content, forwarded, stale>>

\* The policy is unreadable or not the one the connection was admitted with.
RejectTurn(c) ==
    /\ Turn(c, "policy")
    /\ IF stale[c] THEN UNCHANGED failures ELSE Fail
    /\ BreakOff(c)
    /\ UNCHANGED <<outboxVars, deliveryVars, endpointVars, crashes, received,
                   sequence, content, forwarded, stale>>

\* Mutant: numbered by arrival.
ArrivalNumber(c) == received[c]

NextNumber(c) == sequence[c] + 1

PersistTurn(c) ==
    /\ Turn(c, "policy") /\ ~stale[c]
    /\ LET next == NextNumber(c)
       IN  /\ sequence' = [sequence EXCEPT ![c] = next]
           /\ Persist(<<c, next>>)
           /\ content' = [content EXCEPT ![<<c, next>>] = Head(chain[c])]
    /\ stage' = [stage EXCEPT ![c] = "persist"]
    /\ UNCHANGED <<files, disk, bytes, renamed, deliveryVars, endpointVars,
                   failures, crashes, linkVars, counterVars, received, chain,
                   forwarded, paused, stale>>

RefusedTurn(c) ==
    /\ Turn(c, "persist") /\ promise[<<c, sequence[c]>>] = "refused"
    /\ BreakOff(c)
    /\ UNCHANGED <<wsVars, received, sequence, content, forwarded, stale>>

Forwardable(c) == ~closed[c] /\ upstream[c] = "open"

\* The message is stored: wake the delivery, then forward unless an end has
\* closed or the upstream takes too little.
StoredTurn(c) ==
    /\ Turn(c, "persist") /\ promise[<<c, sequence[c]>>] = "stored"
    /\ Wake
    /\ \/ /\ Forwardable(c)
          /\ forwarded' = [forwarded EXCEPT ![c] = Append(@, Head(chain[c]))]
          /\ stage' = [stage EXCEPT ![c] = "send"]
          /\ UNCHANGED <<chain, counterVars, linkVars, paused>>
       \/ BreakOff(c) /\ UNCHANGED forwarded
    /\ UNCHANGED <<outboxVars, draining, batch, posted, answer, endpointVars,
                   failures, crashes, received, sequence, content, stale>>

SentTurn(c) ==
    /\ Turn(c, "send")
    /\ \/ Settled(c) /\ UNCHANGED linkVars
       \/ BreakOff(c)
    /\ UNCHANGED <<wsVars, received, sequence, content, forwarded, stale>>

TurnStep(c) ==
    \/ StartTurn(c) \/ RejectTurn(c) \/ PersistTurn(c)
    \/ RefusedTurn(c) \/ StoredTurn(c) \/ SentTurn(c)

----------------------------------------------------------------------------
Crash ==
    /\ OutboxCrash
    /\ LET opened == {c \in Connections : client[c] # "none"}
           down(state) == [c \in Connections |-> IF c \in opened THEN "closed" ELSE state[c]]
       IN  /\ client' = down(client) /\ upstream' = down(upstream)
           /\ closed' = [c \in Connections |-> c \in opened]
    /\ paused' = [c \in Connections |-> FALSE]
    /\ chain' = [c \in Connections |-> <<>>]
    /\ stage' = [c \in Connections |-> "queued"]
    /\ activeConnections' = 0 /\ pendingBytes' = 0 /\ pendingSmallBytes' = 0
    /\ connectionPendingBytes' = [c \in Connections |-> 0]
    /\ UNCHANGED <<received, sequence, content, forwarded, stale>>

Ends(c) ==
    \/ ClientClosed(c) \/ UpstreamClosed(c)
    \/ HeartbeatTimeout(c) \/ DownstreamBackpressure(c)

Next ==
    \/ (OutboxStep \/ DeliveryStep \/ EndpointStep) /\ UNCHANGED relayVars
    \/ \E c \in Connections :
          Bridge(c) \/ Ends(c) \/ ChangePolicy(c) \/ ClientMessage(c) \/ TurnStep(c)
    \/ Crash

Spec == Init /\ [][Next]_vars

\* Every await of the process ends: its continuation, and the timers, are run
\* by the event loop; the endpoint answers what reaches it.
FairSpec ==
    /\ Spec
    /\ WF_vars((OutboxStep \/ DeliveryStep \/ EndpointStep) /\ UNCHANGED relayVars)
    /\ \A c \in Connections : WF_vars(TurnStep(c))

----------------------------------------------------------------------------
(* Properties.                                                              *)

\* Docs 007: a message is stored before it is forwarded.  Whatever reached
\* the upstream is on disk, or recorded, even after the host went down.
ForwardedIsStored ==
    \A c \in Connections : \A i \in DOMAIN forwarded[c] :
        LET m == <<c, forwarded[c][i]>>
        IN  m \in Skipped \/ m \in disk \/ recorded[m] > 0

\* Messages reach the upstream in the client's order without a gap, and the
\* number in the id of a stored message is the number of its payload.
ForwardedInOrder ==
    /\ \A c \in Connections : \A i \in DOMAIN forwarded[c] : forwarded[c][i] = i
    /\ \A c \in Connections, n \in 1..MaxSequence : content[<<c, n>>] \in {0, n}

\* However often a message is delivered, it makes one row.
RecordedOnce == \A m \in Messages : recorded[m] <= 1

\* The counters that /health reports and the limits compare with are those of
\* the messages that wait, within the limits, and the usage of the outbox counts
\* no file that is gone: nothing leaks when connections close, calls fail or the
\* process ends.
Waiting(C) == {m \in Messages : m[1] \in C /\ \E i \in DOMAIN chain[m[1]] : chain[m[1]][i] = m[2]}
Active == {c \in Connections : client[c] # "none" /\ ~closed[c]}
CountersAgree ==
    /\ \A c \in Connections : connectionPendingBytes[c] = SizeOf(Waiting({c}))
    /\ pendingBytes = SizeOf(Waiting(Connections))
    /\ pendingSmallBytes = SizeOf(Waiting(Connections \ Large))
    /\ \A c \in Connections : connectionPendingBytes[c] <= MaxBytes
    /\ pendingSmallBytes <= MaxPendingBytes
    /\ activeConnections = Cardinality(Active)
    /\ ~renamed => bytes <= SizeOf(files)

\* Every message that was stored for its client leaves the outbox, and no client
\* waits for ever for its message to be stored.  (A file whose directory sync
\* failed waits, uncounted, for the next wake.)
EveryCaptureDelivered ==
    \A m \in Messages : m \in files /\ promise[m] = "stored" ~> m \notin files
EveryTurnEnds == \A c \in Connections : chain[c] # <<>> ~> chain[c] = <<>>

\* The relay, the outbox and the endpoint keep the promise of AuditTrail.
Trail == INSTANCE AuditTrail WITH
    Messages <- Messages \ Skipped,
    kept <- {m \in Messages \ Skipped : m \in disk \/ recorded[m] > 0},
    passed <- {m \in Messages \ Skipped :
                 \E i \in DOMAIN forwarded[m[1]] : forwarded[m[1]][i] = m[2]},
    rows <- [m \in Messages \ Skipped |-> recorded[m]]
TrailKept == Trail!Spec
=============================================================================
