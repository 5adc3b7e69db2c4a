------------------------------ MODULE RequestGate ------------------------------
(***************************************************************************)
(* The relay's gate for large requests (request-limits/guard.ts), taken by  *)
(* HTTP requests (http-gateway.ts, response-keepalive.ts) while they are    *)
(* forwarded and by WebSocket connections from their upgrade on             *)
(* (ws-relay/server.ts; what they carry then is in WsRelay).  The policy is *)
(* saved by RequestLimits; here it may change at any time.                  *)
(*                                                                          *)
(* Sizes are in abstract units.  Left out: decoding of compressed bodies    *)
(* (Body is the decoded size), headers and the log line.                    *)
(***************************************************************************)
EXTENDS Naturals, SequencesExt

CONSTANTS
    Requests, Sockets,      \* HTTP requests and WebSocket upgrades
    User,                   \* whose key each of them sends; None: not a valid one
    Body,                   \* size of a request's body
    Declared,               \* requests with a content-length
    Streams,                \* POSTs of /responses that accept an event stream
    Policies,               \* [default, overrides, threshold, concurrent]
    None,
    MaxPolicies, MaxFailures, MaxCrashes    \* bounds

Members == Requests \cup Sockets

GateParameters ==
    /\ Requests \cap Sockets = {} /\ None \notin Members
    /\ Declared \subseteq Requests /\ Streams \subseteq Requests
    /\ Body \in [Requests -> Nat] /\ MaxPolicies \in Nat \ {0}
    /\ MaxFailures \in Nat /\ MaxCrashes \in Nat
    /\ Policies # {}
    /\ \A p \in Policies : {p.default, p.threshold, p.concurrent} \subseteq Nat \ {0}

VARIABLES
    policies,   \* every policy saved so far, the last one in force
    arrived,    \* number of the policy in force when a request arrived
    stage,      \* await or event that each request or upgrade has reached
    identity,   \* number of the policy it was authorised with
    held,       \* does it hold a slot it has to release
    active,     \* LargeRequestGate.active
    spool,      \* requests with a directory of their own
    gone,       \* clients that have closed their socket
    response,   \* what the client of a request has been sent
    upstream,   \* the answer of Sub2API to a request
    failures, crashes

gateVars == <<held, active>>
vars == <<policies, arrived, stage, identity, held, active, spool, gone,
          response, upstream, failures, crashes>>

Stages == {"new", "arrived", "authorized", "upload", "uploaded", "forward", "answered", "finally",
           "handshake", "open", "refused", "done"}

TypeOK ==
    /\ policies \in Seq(Policies)
    /\ arrived \in [Requests -> Nat] /\ identity \in [Members -> 0..MaxPolicies]
    /\ stage \in [Members -> Stages]
    /\ held \subseteq Members /\ active \in Nat /\ spool \subseteq Requests
    /\ gone \subseteq Members
    /\ response \in [Requests -> {"none", "keepalive", "headers", "whole", "error",
                                  "errorEvent", "cut"}]
    /\ upstream \in [Requests -> {"none", "stream", "other", "ended"}]
    /\ failures \in 0..MaxFailures /\ crashes \in 0..MaxCrashes

Init ==
    /\ \E p \in Policies : policies = <<p>>
    /\ arrived = [r \in Requests |-> 0] /\ identity = [m \in Members |-> 0]
    /\ stage = [m \in Members |-> "new"]
    /\ held = {} /\ active = 0 /\ spool = {} /\ gone = {}
    /\ response = [r \in Requests |-> "none"] /\ upstream = [r \in Requests |-> "none"]
    /\ failures = 0 /\ crashes = 0

Fail == failures < MaxFailures /\ failures' = failures + 1
Goto(m, s) == stage' = [stage EXCEPT ![m] = s]

Policy == Last(policies)
Identity(m) == policies[identity[m]]
LimitForUser(p, u) == IF u \in DOMAIN p.overrides THEN p.overrides[u] ELSE p.default
MaxSize(m) == LimitForUser(Identity(m), User[m])

SavePolicy ==
    /\ Len(policies) < MaxPolicies
    /\ \E p \in Policies \ {Policy} : policies' = Append(policies, p)
    /\ UNCHANGED <<arrived, stage, identity, gateVars, spool, gone, response,
                   upstream, failures, crashes>>

----------------------------------------------------------------------------
(* The process.                                                             *)

\* Every socket closes; prepareHttpSpool empties the spool before the next
\* process listens.
ProcessEnds ==
    /\ stage' = [m \in Members |-> IF stage[m] = "new" THEN "new" ELSE "done"]
    /\ gone' = {m \in Members : stage[m] # "new"}
    /\ held' = {} /\ active' = 0
    /\ spool' = {}
    /\ UNCHANGED <<policies, arrived, identity, response, upstream>>

Crash ==
    /\ crashes < MaxCrashes /\ crashes' = crashes + 1
    /\ ProcessEnds /\ UNCHANGED failures

----------------------------------------------------------------------------
(* guard.ts                                                                 *)

Free(m) == active < Identity(m).concurrent

Acquire(m) ==
    /\ Free(m)
    /\ held' = held \cup {m} /\ active' = active + 1

\* Gives the slot back, if there is one and it was not given back before.
Release(m) ==
    IF m \in held THEN held' = held \ {m} /\ active' = active - 1
    ELSE UNCHANGED gateVars

\* authorize: the policy is read and the key resolved, each of which may fail.
Authorized(m) ==
    /\ User[m] # None
    /\ identity' = [identity EXCEPT ![m] = Len(policies)]
    /\ UNCHANGED failures

Unauthorized(m) ==
    /\ IF User[m] = None THEN UNCHANGED failures ELSE Fail
    /\ UNCHANGED identity

IsLarge(size, m) == size > Identity(m).threshold

----------------------------------------------------------------------------
(* http-gateway.ts                                                          *)

Respond(r, what) ==
    response' = [response EXCEPT ![r] = IF r \in gone THEN @ ELSE what]

\* Mutant: the error is written whatever was sent before.
AlwaysWriteError(r) == Respond(r, "error")

\* gatewayError: a response that has begun is cut off, never completed.
GatewayError(r) == Respond(r, IF response[r] = "none" THEN "error" ELSE "cut")

\* keepalive.fail: the event stream that the comments began ends with an error.
KeepaliveFail(r) == Respond(r, "errorEvent")

\* finally: the slot is given back; the directory is removed next.
Finally(r) == Release(r) /\ Goto(r, "finally")

Arrive(r) ==
    /\ stage[r] = "new" /\ Goto(r, "arrived")
    /\ arrived' = [arrived EXCEPT ![r] = Len(policies)]
    /\ UNCHANGED <<policies, identity, gateVars, spool, gone, response, upstream,
                   failures, crashes>>

AuthorizeRequest(r) ==
    /\ stage[r] = "arrived"
    /\ \/ Authorized(r) /\ Goto(r, "authorized") /\ UNCHANGED <<gateVars, response>>
       \/ Unauthorized(r) /\ GatewayError(r) /\ Finally(r)
    /\ UNCHANGED <<policies, arrived, spool, gone, upstream, crashes>>

\* The declared length and the space of the disk are checked, and a directory
\* is made for the body.
Check(r) ==
    /\ stage[r] = "authorized"
    /\ \/ /\ r \in gone /\ Finally(r) /\ UNCHANGED <<spool, response, failures>>
       \/ /\ r \notin gone /\ r \in Declared /\ Body[r] > MaxSize(r)
          /\ GatewayError(r) /\ Finally(r) /\ UNCHANGED <<spool, failures>>
       \/ r \notin gone /\ Fail /\ GatewayError(r) /\ Finally(r) /\ UNCHANGED spool
       \/ /\ r \notin gone /\ ~(r \in Declared /\ Body[r] > MaxSize(r))
          /\ spool' = spool \cup {r} /\ Goto(r, "upload")
          /\ UNCHANGED <<gateVars, response, failures>>
    /\ UNCHANGED <<policies, arrived, identity, gone, upstream, crashes>>

Fits(r) == Body[r] <= MaxSize(r)

Aborted(r) == r \in gone

UploadFails(r) ==
    /\ stage[r] = "upload"
    /\ \/ Aborted(r) /\ UNCHANGED <<response, failures>>
       \/ r \notin gone /\ ~Fits(r) /\ GatewayError(r) /\ UNCHANGED failures
       \/ r \notin gone /\ Fail /\ GatewayError(r)
    /\ Finally(r)
    /\ UNCHANGED <<policies, arrived, identity, spool, gone, upstream, crashes>>

\* The whole body is in the file: a large one takes a slot, and the request is
\* sent to Sub2API.
Forward(r) ==
    /\ stage[r] = "upload" /\ r \notin gone /\ Fits(r)
    /\ \/ /\ ~IsLarge(Body[r], r)
          /\ Goto(r, "forward") /\ UNCHANGED <<gateVars, response>>
       \/ /\ IsLarge(Body[r], r) /\ Acquire(r)
          /\ Goto(r, "forward") /\ UNCHANGED response
       \/ /\ IsLarge(Body[r], r) /\ ~Free(r)
          /\ GatewayError(r) /\ Finally(r)
    /\ UNCHANGED <<policies, arrived, identity, spool, gone, upstream, failures, crashes>>

Keepalive(r) ==
    /\ stage[r] = "forward" /\ r \in Streams \ gone /\ response[r] = "none"
    /\ Respond(r, "keepalive")
    /\ UNCHANGED <<policies, arrived, stage, identity, gateVars, spool, gone, upstream,
                   failures, crashes>>

\* An answer that is no successful event stream cannot follow the comments.
UpstreamHeaders(r) ==
    /\ stage[r] = "forward" /\ r \notin gone
    /\ \E kind \in {"stream", "other"} :
          /\ upstream' = [upstream EXCEPT ![r] = kind]
          /\ IF response[r] = "keepalive" /\ kind = "other"
             THEN KeepaliveFail(r) /\ Finally(r)
             ELSE Respond(r, "headers") /\ Goto(r, "answered") /\ UNCHANGED gateVars
    /\ UNCHANGED <<policies, arrived, identity, spool, gone, failures, crashes>>

\* Sub2API refuses, closes or times out, or the client's close destroyed it.
UpstreamFails(r) ==
    /\ stage[r] = "forward"
    /\ IF response[r] = "keepalive" THEN KeepaliveFail(r) ELSE GatewayError(r)
    /\ Finally(r)
    /\ UNCHANGED <<policies, arrived, identity, spool, gone, upstream, failures, crashes>>

UpstreamEnds(r) ==
    /\ stage[r] = "answered" /\ r \notin gone
    /\ upstream' = [upstream EXCEPT ![r] = "ended"]
    /\ Respond(r, "whole") /\ Finally(r)
    /\ UNCHANGED <<policies, arrived, identity, spool, gone, failures, crashes>>

\* The pipeline of a begun answer fails, at either end.
AnswerBreaks(r) ==
    /\ stage[r] = "answered"
    /\ GatewayError(r) /\ Finally(r)
    /\ UNCHANGED <<policies, arrived, identity, spool, gone, upstream, failures, crashes>>

Removed(r) == {r}

RemoveDirectory(r) ==
    /\ stage[r] = "finally"
    /\ spool' = spool \ Removed(r) /\ Goto(r, "done")
    /\ UNCHANGED <<policies, arrived, identity, gateVars, gone, response, upstream,
                   failures, crashes>>

\* An error of rm leaves the handler, where nobody waits for it: Node ends the
\* relay on a rejection that is not handled.
RemoveFails(r) == stage[r] = "finally" /\ Fail /\ ProcessEnds /\ UNCHANGED crashes

ClientGone(r) ==
    /\ stage[r] \notin {"new", "finally", "done"} /\ r \notin gone
    /\ gone' = gone \cup {r}
    /\ UNCHANGED <<policies, arrived, stage, identity, gateVars, spool, response,
                   upstream, failures, crashes>>

RequestStep(r) ==
    \/ AuthorizeRequest(r) \/ Check(r) \/ UploadFails(r) \/ Forward(r)
    \/ UpstreamHeaders(r) \/ UpstreamFails(r) \/ UpstreamEnds(r) \/ AnswerBreaks(r)
    \/ RemoveDirectory(r)

----------------------------------------------------------------------------
(* The upgrade of a WebSocket.                                              *)

AuthorizeUpgrade(c) ==
    /\ stage[c] = "new"
    /\ \/ Authorized(c) /\ Goto(c, "authorized")
       \/ Unauthorized(c) /\ Goto(c, "refused")
    /\ UNCHANGED <<policies, arrived, gateVars, spool, gone, response, upstream, crashes>>

\* Mutant: a socket that was closed during the authorisation goes on.
UpgradesAnyway(c) == TRUE

Upgrades(c) == c \notin gone

\* The slot is for what the user may send, and is given back when the socket
\* closes.
Upgrade(c) ==
    /\ stage[c] = "authorized"
    /\ \/ ~Upgrades(c) /\ Goto(c, "done") /\ UNCHANGED gateVars
       \/ /\ Upgrades(c) /\ ~IsLarge(MaxSize(c), c)
          /\ Goto(c, "handshake") /\ UNCHANGED gateVars
       \/ /\ Upgrades(c) /\ IsLarge(MaxSize(c), c) /\ Acquire(c) /\ Goto(c, "handshake")
       \/ /\ Upgrades(c) /\ IsLarge(MaxSize(c), c) /\ ~Free(c)
          /\ Goto(c, "refused") /\ UNCHANGED gateVars
    /\ UNCHANGED <<policies, arrived, identity, spool, gone, response, upstream,
                   failures, crashes>>

\* The upstream opens, and the socket is bridged; or it rejects, fails or does
\* not answer in 15 seconds, and the socket is ended with that status.
Handshake(c) ==
    /\ stage[c] = "handshake" /\ c \notin gone
    /\ Goto(c, "open") \/ Goto(c, "refused")
    /\ UNCHANGED <<policies, arrived, identity, gateVars, spool, gone, response,
                   upstream, failures, crashes>>

\* The listeners of "close": release, and the end of the handshake or bridge.
SocketCloses(c) ==
    /\ stage[c] # "done" /\ c \notin gone
    /\ gone' = gone \cup {c}
    /\ Release(c)
    /\ IF stage[c] \in {"new", "authorized"} THEN UNCHANGED stage ELSE Goto(c, "done")
    /\ UNCHANGED <<policies, arrived, identity, spool, response, upstream, failures, crashes>>

Next ==
    \/ SavePolicy
    \/ \E r \in Requests : Arrive(r) \/ RequestStep(r) \/ Keepalive(r) \/ ClientGone(r)
    \/ \E c \in Sockets :
          AuthorizeUpgrade(c) \/ Upgrade(c) \/ Handshake(c) \/ SocketCloses(c)
    \/ Crash \/ \E r \in Requests : RemoveFails(r)

Spec == Init /\ [][Next]_vars

\* Awaits end; Sub2API answers, fails or is timed out after an hour; a client
\* whose upgrade was refused closes its socket.
FairSpec ==
    /\ Spec
    /\ \A r \in Requests : WF_vars(RequestStep(r))
    /\ \A c \in Sockets :
          /\ WF_vars(AuthorizeUpgrade(c) \/ Upgrade(c) \/ Handshake(c))
          /\ WF_vars(stage[c] = "refused" /\ SocketCloses(c))

----------------------------------------------------------------------------
(* Properties.                                                              *)

\* The counter is the number of large requests being forwarded and of large
\* connections with an open socket, however they end and in what order.
SlotsCounted ==
    active = Cardinality(
        {r \in Requests : stage[r] \in {"forward", "answered"} /\ IsLarge(Body[r], r)}
        \cup {c \in Sockets : /\ c \notin gone /\ stage[c] \in {"handshake", "open", "refused"}
                              /\ c \in held})

\* Docs 012: the large channel is bounded by the configured number alone.
\* While slots are held, one of the holders was admitted with a policy that
\* allows as many as there are, although policies change under them.
ChannelBounded ==
    active > 0 => \E m \in held : active <= Identity(m).concurrent

\* Docs 012: a request is held to the limit of its user in a policy that was in
\* force after it arrived; nothing longer reaches Sub2API, and a WebSocket
\* with a large allowance has a slot.
LimitsEnforced ==
    /\ \A r \in Requests :
          stage[r] \in {"forward", "answered"} =>
             \E i \in arrived[r]..Len(policies) :
                Body[r] <= LimitForUser(policies[i], User[r])
    /\ \A c \in Sockets :
          stage[c] = "open" /\ IsLarge(MaxSize(c), c) => c \in held

\* Docs 012: an error is never joined to a begun response: comments are
\* followed by a stream or by an error event, a begun answer by its own end,
\* and only an answer that Sub2API completed looks complete.
OneResponse ==
    [][\A r \in Requests :
          /\ response'[r] = "whole" => upstream'[r] = "ended"
          /\ response[r] = "keepalive" => response'[r] \in {"keepalive", "headers", "errorEvent"}
          /\ response[r] = "headers" => response'[r] \in {"headers", "whole", "cut"}
          /\ response[r] \in {"whole", "error", "errorEvent", "cut"} =>
                response'[r] = response[r]]_vars

\* Docs 012: success, failure and cancellation remove the files of a request.
SpoolIsLive == \A r \in spool : stage[r] \notin {"new", "done"}

\* The slots taken are those of the large requests under way and never more than
\* a holder's policy allows, every request is held to the limit of its user,
\* and its files go with it (guard.ts, http-gateway.ts; docs 012).
GateAccounted == SlotsCounted /\ ChannelBounded /\ LimitsEnforced /\ SpoolIsLive

\* A request gives its slot back; a socket does when its upgrade was refused.
EverySlotReturned ==
    /\ \A r \in Requests : []<>(r \notin held)
    /\ \A c \in Sockets : []<>(stage[c] = "refused" => c \notin held)

\* Every request that arrived comes to its end.
EveryRequestEnds == \A r \in Requests : []<>(stage[r] \in {"new", "done"})
=============================================================================
