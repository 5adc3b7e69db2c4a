------------------------------ MODULE GateProofs ------------------------------
(***************************************************************************)
(* Proofs about the gate for large requests: for every number of requests,  *)
(* sockets, policies, failures and crashes, its slots are counted and       *)
(* bounded, a request is held to its limit, its files go with it, and its   *)
(* client gets one response.  And about the policy of the limits, for every *)
(* number of panels, settings, saves, failures and crashes: no save replaces *)
(* a policy that its administrator did not see, and every audit record names *)
(* a change of its own.                                                     *)
(***************************************************************************)
EXTENDS RequestGate, SequenceTheorems, FiniteSetTheorems, TLAPS

\* The policies of the gate are saved by an instance with variables of its own.
CONSTANTS Panels, Settings, InitialSettings, MaxSaves, MaxLost, MaxRestarts
VARIABLES policy, queue, writing, recorded, data, polled, draft, answers, saves, lost, restarts

Panel == INSTANCE RequestLimits WITH
    stage <- writing, failures <- lost, crashes <- restarts,
    MaxFailures <- MaxLost, MaxCrashes <- MaxRestarts

----------------------------------------------------------------------------
(* The gate: the inductive invariant.                                        *)

Working == {"forward", "answered"}

\* A request has arrived under a saved policy and is authorised with that one
\* or a later one; it holds a slot if it is large, from its forwarding to its
\* end; what is forwarded fits; and its client was sent what its stage says.
RequestOK(r) ==
    /\ stage[r] \notin {"new", "finally", "done"} => arrived[r] \in 1..Len(policies)
    /\ stage[r] \in {"authorized", "upload"} \cup Working =>
          identity[r] \in arrived[r]..Len(policies)
    /\ r \in held <=> stage[r] \in Working /\ IsLarge(Body[r], r)
    /\ stage[r] \in Working => Fits(r)
    /\ r \in spool => stage[r] \notin {"new", "done"}
    /\ stage[r] \in {"new", "arrived", "authorized", "upload"} => response[r] = "none"
    /\ stage[r] = "forward" => response[r] \in {"none", "keepalive"}
    /\ stage[r] = "answered" => response[r] = "headers"
    /\ response[r] = "whole" => upstream[r] = "ended"

\* A socket holds its slot until it closes, also when its handshake failed.
SocketOK(c) ==
    /\ stage[c] \in {"authorized", "handshake", "open"} => identity[c] \in 1..Len(policies)
    /\ c \in held => /\ c \notin gone /\ stage[c] \in {"handshake", "open", "refused"}
                     /\ identity[c] \in 1..Len(policies)
    /\ stage[c] \in {"handshake", "open"} /\ IsLarge(MaxSize(c), c) => c \in held

MembersOK ==
    /\ Len(policies) \in 1..MaxPolicies
    /\ \A r \in Requests : RequestOK(r)
    /\ \A c \in Sockets : SocketOK(c)

\* The holders can be numbered so that each was admitted with a policy that
\* allows its number.
Numbering(place) ==
    /\ \A m \in held : place[m] \in 1..active /\ place[m] <= Identity(m).concurrent
    /\ \A m, n \in held : place[m] = place[n] => m = n
    /\ \A k \in 1..active : \E m \in held : place[m] = k

SlotsOK ==
    /\ IsFiniteSet(held) /\ Cardinality(held) = active
    /\ \E place \in [held -> Nat] : Numbering(place)

GateInv == TypeOK /\ MembersOK /\ SlotsOK

----------------------------------------------------------------------------
(* The slots.                                                               *)

\* The policy of a holder does not change while it holds its slot.
LEMMA HolderKnown ==
    ASSUME GateParameters, TypeOK, MembersOK, NEW m \in held
    PROVE  /\ m \in Members /\ identity[m] \in 1..Len(policies)
           /\ Identity(m) \in Policies /\ Identity(m).concurrent \in Nat
<1>1. m \in Members /\ policies \in Seq(Policies)
    BY DEF TypeOK
<1>2. identity[m] \in 1..Len(policies)
  <2>1. CASE m \in Requests
    BY <1>1, <2>1, LenProperties DEF MembersOK, RequestOK, Working
  <2>2. CASE m \in Sockets
    BY <2>2 DEF MembersOK, SocketOK
  <2> QED BY <1>1, <2>1, <2>2 DEF Members
<1>3. Identity(m) \in Policies
    BY <1>1, <1>2, ElementOfSeq DEF Identity
<1> QED BY <1>1, <1>2, <1>3 DEF GateParameters

LEMMA SlotsStay ==
    ASSUME SlotsOK, UNCHANGED gateVars, \A m \in held : Identity(m)' = Identity(m)
    PROVE  SlotsOK'
<1>1. held' = held /\ active' = active
    BY DEF gateVars
<1>2. PICK place \in [held -> Nat] : Numbering(place)
    BY DEF SlotsOK
<1>3. Numbering(place)'
    BY <1>1, <1>2 DEF Numbering
<1> QED BY <1>1, <1>3 DEF SlotsOK

\* A new holder gets the last number, which its policy allows.
LEMMA SlotTaken ==
    ASSUME GateParameters, SlotsOK, active \in Nat, NEW m \in Members, m \notin held,
           Identity(m) \in Policies, Acquire(m), UNCHANGED <<policies, identity>>
    PROVE  SlotsOK' /\ active' \in Nat
<1>1. /\ held' = held \cup {m} /\ active' = active + 1
      /\ active < Identity(m).concurrent
      /\ \A n : Identity(n)' = Identity(n)
    BY DEF Acquire, Free, Identity
<1>2. IsFiniteSet(held') /\ Cardinality(held') = active'
    BY <1>1, FS_AddElement DEF SlotsOK
<1>3. PICK place \in [held -> Nat] : Numbering(place)
    BY DEF SlotsOK
<1>4. PICK next \in [held' -> Nat] :
        /\ next[m] = active + 1
        /\ \A n \in held : next[n] = place[n]
        /\ \A n \in held' : n \in held \/ n = m
  <2> DEFINE moved == [n \in held' |-> IF n = m THEN active + 1 ELSE place[n]]
  <2>1. /\ moved \in [held' -> Nat] /\ moved[m] = active + 1
        /\ \A n \in held : moved[n] = place[n]
    BY <1>1
  <2> QED BY <1>1, <2>1
<1>5. Identity(m).concurrent \in Nat
    BY DEF GateParameters
<1>6. \A n \in held : place[n] \in 1..active /\ place[n] <= Identity(n).concurrent
    BY <1>3 DEF Numbering
<1>7. \A n \in held' : next[n] \in 1..active' /\ next[n] <= Identity(n)'.concurrent
    BY <1>1, <1>4, <1>5, <1>6
<1>8. \A n, o \in held' : next[n] = next[o] => n = o
    BY <1>3, <1>4, <1>6 DEF Numbering
<1>9. \A k \in 1..active' : \E n \in held' : next[n] = k
  <2>1. ASSUME NEW k \in 1..active' PROVE k \in 1..active \/ k = active + 1
    BY <1>1
  <2> QED BY <1>1, <1>3, <1>4, <2>1 DEF Numbering
<1>10. Numbering(next)'
    BY <1>7, <1>8, <1>9 DEF Numbering
<1> QED BY <1>1, <1>2, <1>4, <1>10 DEF SlotsOK

\* Those with a number above that of the slot given back move down by one.
LEMMA SlotGiven ==
    ASSUME SlotsOK, active \in Nat, NEW m, Release(m),
           \A n \in held : Identity(n)' = Identity(n) /\ Identity(n).concurrent \in Nat
    PROVE  SlotsOK' /\ active' \in Nat
<1>1. CASE m \notin held
    BY <1>1, SlotsStay DEF Release, gateVars
<1>2. CASE m \in held
  <2>1. held' = held \ {m} /\ active' = active - 1
    BY <1>2 DEF Release
  <2>2. IsFiniteSet(held') /\ Cardinality(held') = active'
    BY <1>2, <2>1, FS_RemoveElement DEF SlotsOK
  <2>3. active' \in Nat
    BY <2>2, FS_CardinalityType
  <2>4. PICK place \in [held -> Nat] : Numbering(place)
    BY DEF SlotsOK
  <2>5. /\ \A n \in held : place[n] \in 1..active /\ place[n] <= Identity(n).concurrent
        /\ \A n, o \in held : place[n] = place[o] => n = o
        /\ \A k \in 1..active : \E n \in held : place[n] = k
    BY <2>4 DEF Numbering
  <2>6. \A n \in held' : n \in held /\ place[n] # place[m]
    BY <1>2, <2>1, <2>5
  <2>7. PICK next \in [held' -> Nat] :
          \A n \in held' : next[n] = IF place[n] > place[m] THEN place[n] - 1 ELSE place[n]
    <3> DEFINE moved == [n \in held' |-> IF place[n] > place[m] THEN place[n] - 1 ELSE place[n]]
    <3>1. moved \in [held' -> Nat]
        BY <1>2, <2>5, <2>6
    <3> QED BY <3>1
  <2>8. \A n \in held' : next[n] \in 1..active' /\ next[n] <= Identity(n)'.concurrent
    BY <1>2, <2>1, <2>5, <2>6, <2>7
  <2>9. \A n, o \in held' : next[n] = next[o] => n = o
    BY <1>2, <2>5, <2>6, <2>7
  <2>10. ASSUME NEW k \in 1..active' PROVE \E n \in held' : next[n] = k
    <3>1. CASE k < place[m]
      <4>1. PICK n \in held : place[n] = k
          BY <2>1, <2>5
      <4> QED BY <1>2, <2>1, <2>5, <2>7, <3>1, <4>1
    <3>2. CASE ~(k < place[m])
      <4>1. k + 1 \in 1..active
          BY <2>1
      <4>2. PICK n \in held : place[n] = k + 1
          BY <2>5, <4>1
      <4>3. place[n] > place[m]
          BY <1>2, <2>5, <3>2, <4>2
      <4> QED BY <1>2, <2>1, <2>5, <2>7, <4>2, <4>3
    <3> QED BY <3>1, <3>2
  <2>11. Numbering(next)'
    BY <2>8, <2>9, <2>10 DEF Numbering
  <2> QED BY <2>2, <2>3, <2>7, <2>11 DEF SlotsOK
<1> QED BY <1>1, <1>2

----------------------------------------------------------------------------
(* The requests.                                                            *)

\* A step of one member leaves the others alone.
OnlyOf(m) ==
    /\ policies' = policies
    /\ \A n \in Members \ {m} :
          /\ stage'[n] = stage[n] /\ identity'[n] = identity[n]
          /\ n \in gone' <=> n \in gone
          /\ n \in held' <=> n \in held
    /\ \A r \in Requests \ {m} :
          /\ arrived'[r] = arrived[r] /\ response'[r] = response[r]
          /\ upstream'[r] = upstream[r]
          /\ r \in spool' <=> r \in spool

\* What it may do to the slots.
SlotStep(m) ==
    \/ UNCHANGED gateVars /\ (m \in held => identity'[m] = identity[m])
    \/ Release(m) /\ UNCHANGED identity
    \/ Acquire(m) /\ m \notin held /\ Identity(m) \in Policies /\ UNCHANGED identity

\* What the client of a request may be sent next.
Answers(r) ==
    /\ response'[r] = "whole" => upstream'[r] = "ended"
    /\ response[r] = "keepalive" => response'[r] \in {"keepalive", "headers", "errorEvent"}
    /\ response[r] = "headers" => response'[r] \in {"headers", "whole", "cut"}
    /\ response[r] \in {"whole", "error", "errorEvent", "cut"} => response'[r] = response[r]

\* The types, once the counter is known to be a number of slots.
TypesKept == active' \in Nat => TypeOK'

LEMMA OthersOK ==
    ASSUME MembersOK, NEW m \in Members, OnlyOf(m),
           m \in Requests => RequestOK(m)', m \in Sockets => SocketOK(m)'
    PROVE  MembersOK'
<1>1. ASSUME NEW r \in Requests, r # m PROVE RequestOK(r)'
  <2>1. RequestOK(r) /\ r \in Members
    BY DEF MembersOK, Members
  <2> QED BY <1>1, <2>1 DEF OnlyOf, RequestOK, IsLarge, Fits, MaxSize, Identity
<1>2. ASSUME NEW c \in Sockets, c # m PROVE SocketOK(c)'
  <2>1. SocketOK(c) /\ c \in Members
    BY DEF MembersOK, Members
  <2> QED BY <1>2, <2>1 DEF OnlyOf, SocketOK, IsLarge, MaxSize, Identity
<1>3. Len(policies)' \in 1..MaxPolicies
    BY DEF MembersOK, OnlyOf
<1> QED BY <1>1, <1>2, <1>3 DEF MembersOK

LEMMA FailTyped ==
    ASSUME GateParameters, TypeOK, Fail
    PROVE  failures' \in 0..MaxFailures
BY DEF GateParameters, TypeOK, Fail

Responses == {"none", "keepalive", "headers", "whole", "error", "errorEvent", "cut"}

\* Every way a request ends: its slot is given back.
LEMMA RequestEnds ==
    ASSUME GateParameters, TypeOK, MembersOK, NEW r \in Requests,
           Finally(r), stage[r] \notin {"new", "done"},
           UNCHANGED <<policies, arrived, identity, spool, gone, crashes>>,
           failures' \in 0..MaxFailures,
           NEW what \in Responses, Respond(r, what) \/ response' = response,
           \/ upstream' = upstream
           \/ \E u \in {"stream", "other", "ended"} :
                 upstream' = [upstream EXCEPT ![r] = u],
           response'[r] = "whole" => upstream'[r] = "ended"
    PROVE  TypesKept /\ OnlyOf(r) /\ RequestOK(r)' /\ SlotStep(r)
<1>1. r \in Members /\ stage' = [stage EXCEPT ![r] = "finally"] /\ Release(r)
    BY DEF Finally, Goto, Members
<1>2. /\ held' \subseteq held /\ r \notin held'
      /\ \A n \in Members \ {r} : n \in held' <=> n \in held
  <2>1. held' = held \ {r}
    BY <1>1 DEF Release, gateVars
  <2> QED BY <2>1
<1>3. /\ response' \in [Requests -> Responses]
      /\ \A q \in Requests \ {r} : response'[q] = response[q]
    BY DEF TypeOK, Respond, Responses
<1>4. /\ upstream' \in [Requests -> {"none", "stream", "other", "ended"}]
      /\ \A q \in Requests \ {r} : upstream'[q] = upstream[q]
    BY DEF TypeOK
<1>5. /\ stage' \in [Members -> Stages] /\ stage'[r] = "finally"
      /\ \A n \in Members \ {r} : stage'[n] = stage[n]
    BY <1>1 DEF TypeOK, Stages
<1>6. TypesKept
    BY <1>2, <1>3, <1>4, <1>5 DEF TypesKept, TypeOK, Responses
<1>7. OnlyOf(r)
    BY <1>2, <1>3, <1>4, <1>5 DEF OnlyOf
<1>8. RequestOK(r)'
    BY <1>2, <1>5 DEF RequestOK, Working
<1> QED BY <1>1, <1>6, <1>7, <1>8 DEF SlotStep

\* What the lemma of a request's action says.
RequestKept(r) ==
    TypesKept /\ OnlyOf(r) /\ RequestOK(r)' /\ SlotStep(r) /\ Answers(r)

LEMMA ArriveKept ==
    ASSUME GateParameters, TypeOK, MembersOK, NEW r \in Requests, Arrive(r)
    PROVE  RequestKept(r)
<1>1. r \in Members /\ RequestOK(r) /\ Len(policies) \in 1..MaxPolicies
    BY DEF Members, MembersOK
<1>2. /\ stage[r] = "new" /\ stage' = [stage EXCEPT ![r] = "arrived"]
      /\ arrived' = [arrived EXCEPT ![r] = Len(policies)]
      /\ UNCHANGED <<policies, identity, held, active, spool, gone, response, upstream,
                     failures, crashes>>
    BY DEF Arrive, Goto, gateVars
<1>3. Len(policies) \in Nat /\ Len(policies) \in 1..Len(policies)
    BY <1>1 DEF GateParameters
<1>4. TypesKept
    BY <1>1, <1>2, <1>3 DEF TypesKept, TypeOK, Stages
<1>5. OnlyOf(r)
    BY <1>2 DEF OnlyOf, TypeOK, Members
<1>6. stage'[r] = "arrived" /\ arrived'[r] = Len(policies)
    BY <1>1, <1>2 DEF TypeOK
<1>7. RequestOK(r)'
    BY <1>1, <1>2, <1>3, <1>6 DEF RequestOK, Working
<1>8. SlotStep(r) /\ Answers(r)
    BY <1>1, <1>2 DEF SlotStep, Answers, RequestOK, gateVars
<1> QED BY <1>4, <1>5, <1>7, <1>8 DEF RequestKept

LEMMA AuthorizeKept ==
    ASSUME GateParameters, TypeOK, MembersOK, NEW r \in Requests, AuthorizeRequest(r)
    PROVE  RequestKept(r)
<1>1. r \in Members /\ RequestOK(r) /\ Len(policies) \in 1..MaxPolicies
    BY DEF Members, MembersOK
<1>2. /\ stage[r] = "arrived" /\ response[r] = "none" /\ r \notin held
      /\ arrived[r] \in 1..Len(policies) /\ arrived[r] \in Nat
      /\ UNCHANGED <<policies, arrived, spool, gone, upstream, crashes>>
    BY <1>1 DEF AuthorizeRequest, RequestOK, Working, TypeOK
<1>3. CASE Authorized(r) /\ Goto(r, "authorized") /\ UNCHANGED <<gateVars, response>>
  <2>1. /\ stage' = [stage EXCEPT ![r] = "authorized"]
        /\ identity' = [identity EXCEPT ![r] = Len(policies)]
        /\ UNCHANGED <<held, active, response, failures>>
    BY <1>3 DEF Authorized, Goto, gateVars
  <2>2. /\ Len(policies) \in 0..MaxPolicies
        /\ Len(policies) \in arrived[r]..Len(policies)
    BY <1>1, <1>2 DEF GateParameters
  <2>3. TypesKept
    BY <1>1, <1>2, <2>1, <2>2 DEF TypesKept, TypeOK, Stages
  <2>4. OnlyOf(r)
    BY <1>2, <2>1 DEF OnlyOf, TypeOK, Members
  <2>5. stage'[r] = "authorized" /\ identity'[r] = Len(policies)
    BY <1>1, <2>1 DEF TypeOK
  <2>6. RequestOK(r)'
    BY <1>1, <1>2, <2>1, <2>2, <2>5 DEF RequestOK, Working
  <2>7. SlotStep(r) /\ Answers(r)
    BY <1>2, <2>1 DEF SlotStep, Answers, gateVars
  <2> QED BY <2>3, <2>4, <2>6, <2>7 DEF RequestKept
<1>4. CASE Unauthorized(r) /\ GatewayError(r) /\ Finally(r)
  <2>1. Respond(r, "error") /\ identity' = identity
    BY <1>2, <1>4 DEF GatewayError, Unauthorized
  <2>2. failures' \in 0..MaxFailures
    BY <1>4, FailTyped DEF Unauthorized, TypeOK
  <2>3. response'[r] # "whole" /\ Answers(r)
    BY <1>2, <2>1 DEF Respond, TypeOK, Answers
  <2>4. TypesKept /\ OnlyOf(r) /\ RequestOK(r)' /\ SlotStep(r)
    BY <1>2, <1>4, <2>1, <2>2, <2>3, RequestEnds DEF Responses
  <2> QED BY <2>3, <2>4 DEF RequestKept
<1> QED BY <1>3, <1>4 DEF AuthorizeRequest

\* A request that ends with an error, or without a word to a client that left.
LEMMA ErrorKept ==
    ASSUME GateParameters, TypeOK, MembersOK, NEW r \in Requests, Finally(r),
           stage[r] \notin {"new", "done"}, response[r] \in {"none", "headers"},
           GatewayError(r) \/ response' = response,
           UNCHANGED <<policies, arrived, identity, spool, gone, upstream, crashes>>,
           failures' \in 0..MaxFailures
    PROVE  RequestKept(r)
<1> DEFINE what == IF response[r] = "none" THEN "error" ELSE "cut"
<1>1. Respond(r, what) \/ response' = response
    BY DEF GatewayError
<1>2. response'[r] # "whole" /\ Answers(r)
    BY <1>1 DEF Respond, TypeOK, Answers
<1>3. TypesKept /\ OnlyOf(r) /\ RequestOK(r)' /\ SlotStep(r)
    BY <1>1, <1>2, RequestEnds DEF Responses
<1> QED BY <1>2, <1>3 DEF RequestKept

LEMMA CheckKept ==
    ASSUME GateParameters, TypeOK, MembersOK, NEW r \in Requests, Check(r)
    PROVE  RequestKept(r)
<1>1. r \in Members /\ RequestOK(r)
    BY DEF Members, MembersOK
<1>2. /\ stage[r] = "authorized" /\ response[r] = "none" /\ r \notin held
      /\ arrived[r] \in 1..Len(policies) /\ identity[r] \in arrived[r]..Len(policies)
      /\ UNCHANGED <<policies, arrived, identity, gone, upstream, crashes>>
    BY <1>1 DEF Check, RequestOK, Working
<1>3. CASE /\ spool' = spool \cup {r} /\ Goto(r, "upload")
           /\ UNCHANGED <<gateVars, response, failures>>
  <2>1. stage' = [stage EXCEPT ![r] = "upload"] /\ UNCHANGED <<held, active>>
    BY <1>3 DEF Goto, gateVars
  <2>2. TypesKept
    BY <1>2, <1>3, <2>1 DEF TypesKept, TypeOK, Stages
  <2>3. OnlyOf(r)
    BY <1>2, <1>3, <2>1 DEF OnlyOf, TypeOK, Members
  <2>4. stage'[r] = "upload"
    BY <1>1, <2>1 DEF TypeOK
  <2>5. RequestOK(r)'
    BY <1>2, <1>3, <2>1, <2>4 DEF RequestOK, Working
  <2>6. SlotStep(r) /\ Answers(r)
    BY <1>2, <1>3 DEF SlotStep, Answers
  <2> QED BY <2>2, <2>3, <2>5, <2>6 DEF RequestKept
<1>4. CASE /\ Finally(r)
           /\ GatewayError(r) \/ response' = response
           /\ UNCHANGED spool
           /\ failures' = failures \/ Fail
  <2>1. failures' \in 0..MaxFailures
    BY <1>4, FailTyped DEF TypeOK
  <2> QED BY <1>2, <1>4, <2>1, ErrorKept
<1> QED BY <1>3, <1>4 DEF Check

LEMMA UploadKept ==
    ASSUME GateParameters, TypeOK, MembersOK, NEW r \in Requests, UploadFails(r)
    PROVE  RequestKept(r)
<1>1. RequestOK(r)
    BY DEF MembersOK
<1>2. /\ stage[r] = "upload" /\ response[r] = "none" /\ Finally(r)
      /\ UNCHANGED <<policies, arrived, identity, spool, gone, upstream, crashes>>
      /\ GatewayError(r) \/ response' = response
      /\ failures' = failures \/ Fail
    BY <1>1 DEF UploadFails, RequestOK
<1>3. failures' \in 0..MaxFailures
    BY <1>2, FailTyped DEF TypeOK
<1> QED BY <1>2, <1>3, ErrorKept

LEMMA ForwardKept ==
    ASSUME GateParameters, TypeOK, MembersOK, NEW r \in Requests, Forward(r)
    PROVE  RequestKept(r)
<1>1. r \in Members /\ RequestOK(r)
    BY DEF Members, MembersOK
<1>2. /\ stage[r] = "upload" /\ response[r] = "none" /\ r \notin held /\ Fits(r)
      /\ arrived[r] \in 1..Len(policies) /\ identity[r] \in arrived[r]..Len(policies)
      /\ UNCHANGED <<policies, arrived, identity, spool, gone, upstream, failures, crashes>>
    BY <1>1 DEF Forward, RequestOK, Working
<1>3. Identity(r) \in Policies
  <2>1. policies \in Seq(Policies) /\ Len(policies) \in Nat
    BY LenProperties DEF TypeOK
  <2>2. identity[r] \in 1..Len(policies)
    BY <1>2, <2>1
  <2> QED BY <2>1, <2>2, ElementOfSeq DEF Identity
<1>4. CASE IsLarge(Body[r], r) /\ ~Free(r) /\ GatewayError(r) /\ Finally(r)
  <2>1. failures' \in 0..MaxFailures
    BY <1>2 DEF TypeOK
  <2> QED BY <1>2, <1>4, <2>1, ErrorKept
<1>5. ASSUME Goto(r, "forward"), UNCHANGED response,
             \/ ~IsLarge(Body[r], r) /\ UNCHANGED gateVars
             \/ IsLarge(Body[r], r) /\ Acquire(r)
      PROVE  RequestKept(r)
  <2>1. /\ stage' = [stage EXCEPT ![r] = "forward"] /\ stage'[r] = "forward"
        /\ UNCHANGED response
    BY <1>1, <1>5 DEF Goto, TypeOK
  <2>2. /\ held' \subseteq Members
        /\ \A n \in Members \ {r} : n \in held' <=> n \in held
        /\ r \in held' <=> IsLarge(Body[r], r)
    BY <1>1, <1>2, <1>5 DEF Acquire, gateVars, TypeOK
  <2>3. TypesKept
    BY <1>2, <2>1, <2>2 DEF TypesKept, TypeOK, Stages
  <2>4. OnlyOf(r)
    BY <1>2, <2>1, <2>2 DEF OnlyOf, TypeOK, Members
  <2>5. Identity(r)' = Identity(r)
    BY <1>2 DEF Identity
  <2>6. RequestOK(r)'
    BY <1>2, <2>1, <2>2, <2>5 DEF RequestOK, Working, IsLarge, Fits, MaxSize
  <2>7. SlotStep(r)
    BY <1>2, <1>3, <1>5 DEF SlotStep
  <2>8. Answers(r)
    BY <1>2, <2>1 DEF Answers
  <2> QED BY <2>3, <2>4, <2>6, <2>7, <2>8 DEF RequestKept
<1> QED BY <1>4, <1>5 DEF Forward

LEMMA KeepaliveKept ==
    ASSUME GateParameters, TypeOK, MembersOK, NEW r \in Requests, Keepalive(r)
    PROVE  RequestKept(r)
<1>1. r \in Members /\ RequestOK(r)
    BY DEF Members, MembersOK
<1>2. /\ stage[r] = "forward" /\ response[r] = "none"
      /\ response' = [response EXCEPT ![r] = "keepalive"]
      /\ UNCHANGED <<policies, arrived, stage, identity, held, active, spool, gone,
                     upstream, failures, crashes>>
    BY DEF Keepalive, Respond, gateVars
<1>3. TypesKept
    BY <1>2 DEF TypesKept, TypeOK
<1>4. OnlyOf(r)
    BY <1>2 DEF OnlyOf, TypeOK
<1>5. response'[r] = "keepalive"
    BY <1>2 DEF TypeOK
<1>6. RequestOK(r)'
    BY <1>1, <1>2, <1>5 DEF RequestOK, Working, IsLarge, Fits, MaxSize, Identity
<1>7. SlotStep(r) /\ Answers(r)
    BY <1>2, <1>5 DEF SlotStep, Answers, gateVars
<1> QED BY <1>3, <1>4, <1>6, <1>7 DEF RequestKept

LEMMA HeadersKept ==
    ASSUME GateParameters, TypeOK, MembersOK, NEW r \in Requests, UpstreamHeaders(r)
    PROVE  RequestKept(r)
<1>1. r \in Members /\ RequestOK(r)
    BY DEF Members, MembersOK
<1>2. PICK kind \in {"stream", "other"} :
        /\ upstream' = [upstream EXCEPT ![r] = kind]
        /\ IF response[r] = "keepalive" /\ kind = "other"
           THEN KeepaliveFail(r) /\ Finally(r)
           ELSE Respond(r, "headers") /\ Goto(r, "answered") /\ UNCHANGED gateVars
    BY DEF UpstreamHeaders
<1>3. /\ stage[r] = "forward" /\ r \notin gone /\ response[r] \in {"none", "keepalive"}
      /\ UNCHANGED <<policies, arrived, identity, spool, gone, failures, crashes>>
    BY <1>1 DEF UpstreamHeaders, RequestOK
<1>4. CASE response[r] = "keepalive" /\ KeepaliveFail(r) /\ Finally(r)
  <2>1. Respond(r, "errorEvent") /\ failures' \in 0..MaxFailures
    BY <1>3, <1>4 DEF KeepaliveFail, TypeOK
  <2>2. response'[r] = "errorEvent"
    BY <1>3, <2>1 DEF Respond, TypeOK
  <2>3. TypesKept /\ OnlyOf(r) /\ RequestOK(r)' /\ SlotStep(r)
    BY <1>2, <1>3, <1>4, <2>1, <2>2, RequestEnds DEF Responses
  <2>4. Answers(r)
    BY <1>4, <2>2 DEF Answers
  <2> QED BY <2>3, <2>4 DEF RequestKept
<1>5. CASE Respond(r, "headers") /\ Goto(r, "answered") /\ UNCHANGED gateVars
  <2>1. /\ stage' = [stage EXCEPT ![r] = "answered"] /\ stage'[r] = "answered"
        /\ response' = [response EXCEPT ![r] = "headers"] /\ response'[r] = "headers"
        /\ UNCHANGED <<held, active>>
    BY <1>1, <1>3, <1>5 DEF Goto, Respond, TypeOK, gateVars
  <2>2. TypesKept
    BY <1>2, <1>3, <2>1 DEF TypesKept, TypeOK, Stages
  <2>3. OnlyOf(r)
    BY <1>2, <1>3, <2>1 DEF OnlyOf, TypeOK, Members
  <2>4. RequestOK(r)'
    BY <1>1, <1>3, <2>1 DEF RequestOK, Working, IsLarge, Fits, MaxSize, Identity
  <2>5. SlotStep(r) /\ Answers(r)
    BY <1>3, <1>5, <2>1 DEF SlotStep, Answers
  <2> QED BY <2>2, <2>3, <2>4, <2>5 DEF RequestKept
<1> QED BY <1>2, <1>4, <1>5

LEMMA BrokenKept ==
    ASSUME GateParameters, TypeOK, MembersOK, NEW r \in Requests,
           UpstreamFails(r) \/ AnswerBreaks(r)
    PROVE  RequestKept(r)
<1>1. RequestOK(r)
    BY DEF MembersOK
<1>2. /\ Finally(r) /\ stage[r] \in {"forward", "answered"}
      /\ UNCHANGED <<policies, arrived, identity, spool, gone, upstream, failures, crashes>>
      /\ failures' \in 0..MaxFailures
    BY DEF UpstreamFails, AnswerBreaks, TypeOK
<1>3. CASE response[r] = "keepalive" /\ KeepaliveFail(r)
  <2>1. Respond(r, "errorEvent")
    BY <1>3 DEF KeepaliveFail
  <2>2. response'[r] \in {"errorEvent", "keepalive"}
    BY <1>3, <2>1 DEF Respond, TypeOK
  <2>3. TypesKept /\ OnlyOf(r) /\ RequestOK(r)' /\ SlotStep(r)
    BY <1>2, <2>1, <2>2, RequestEnds DEF Responses
  <2>4. Answers(r)
    BY <1>3, <2>2 DEF Answers
  <2> QED BY <2>3, <2>4 DEF RequestKept
<1>4. CASE response[r] # "keepalive" /\ GatewayError(r)
  <2>1. response[r] \in {"none", "headers"}
    BY <1>1, <1>2, <1>4 DEF RequestOK
  <2> QED BY <1>2, <1>4, <2>1, ErrorKept
<1>5. stage[r] = "answered" => response[r] # "keepalive"
    BY <1>1 DEF RequestOK
<1> QED BY <1>3, <1>4, <1>5 DEF UpstreamFails, AnswerBreaks

LEMMA EndKept ==
    ASSUME GateParameters, TypeOK, MembersOK, NEW r \in Requests, UpstreamEnds(r)
    PROVE  RequestKept(r)
<1>1. r \in Members /\ RequestOK(r)
    BY DEF Members, MembersOK
<1>2. /\ stage[r] = "answered" /\ r \notin gone /\ response[r] = "headers"
      /\ upstream' = [upstream EXCEPT ![r] = "ended"]
      /\ Respond(r, "whole") /\ Finally(r)
      /\ UNCHANGED <<policies, arrived, identity, spool, gone, failures, crashes>>
    BY <1>1 DEF UpstreamEnds, RequestOK
<1>3. upstream'[r] = "ended" /\ response'[r] = "whole" /\ failures' \in 0..MaxFailures
    BY <1>2 DEF TypeOK, Respond
<1>4. TypesKept /\ OnlyOf(r) /\ RequestOK(r)' /\ SlotStep(r)
    BY <1>2, <1>3, RequestEnds DEF Responses
<1>5. Answers(r)
    BY <1>2, <1>3 DEF Answers
<1> QED BY <1>4, <1>5 DEF RequestKept

LEMMA RemoveKept ==
    ASSUME GateParameters, TypeOK, MembersOK, NEW r \in Requests, RemoveDirectory(r)
    PROVE  RequestKept(r)
<1>1. r \in Members /\ RequestOK(r)
    BY DEF Members, MembersOK
<1>2. /\ stage[r] = "finally" /\ stage' = [stage EXCEPT ![r] = "done"]
      /\ spool' = spool \ {r}
      /\ UNCHANGED <<policies, arrived, identity, held, active, gone, response, upstream,
                     failures, crashes>>
    BY DEF RemoveDirectory, Removed, Goto, gateVars
<1>3. TypesKept
    BY <1>2 DEF TypesKept, TypeOK, Stages
<1>4. OnlyOf(r)
    BY <1>2 DEF OnlyOf, TypeOK, Members
<1>5. stage'[r] = "done" /\ r \notin held
    BY <1>1, <1>2 DEF TypeOK, RequestOK, Working
<1>6. RequestOK(r)'
    BY <1>1, <1>2, <1>5 DEF RequestOK, Working
<1>7. SlotStep(r) /\ Answers(r)
    BY <1>1, <1>2 DEF SlotStep, Answers, gateVars, RequestOK
<1> QED BY <1>3, <1>4, <1>6, <1>7 DEF RequestKept

LEMMA GoneKept ==
    ASSUME GateParameters, TypeOK, MembersOK, NEW r \in Requests, ClientGone(r)
    PROVE  RequestKept(r)
<1>1. r \in Members /\ RequestOK(r)
    BY DEF Members, MembersOK
<1>2. /\ gone' = gone \cup {r}
      /\ UNCHANGED <<policies, arrived, stage, identity, held, active, spool, response,
                     upstream, failures, crashes>>
    BY DEF ClientGone, gateVars
<1>3. TypesKept
    BY <1>1, <1>2 DEF TypesKept, TypeOK
<1>4. OnlyOf(r)
    BY <1>2 DEF OnlyOf
<1>5. RequestOK(r)'
    BY <1>1, <1>2 DEF RequestOK, IsLarge, Fits, MaxSize, Identity
<1>6. SlotStep(r) /\ Answers(r)
    BY <1>1, <1>2 DEF SlotStep, Answers, gateVars, RequestOK
<1> QED BY <1>3, <1>4, <1>5, <1>6 DEF RequestKept

----------------------------------------------------------------------------
(* The sockets, the policies and the process.                               *)

SocketKept(c) == TypesKept /\ OnlyOf(c) /\ SocketOK(c)' /\ SlotStep(c)

LEMMA AuthorizeUpgradeKept ==
    ASSUME GateParameters, TypeOK, MembersOK, NEW c \in Sockets, AuthorizeUpgrade(c)
    PROVE  SocketKept(c) /\ UNCHANGED <<response, upstream>>
<1>1. c \in Members /\ c \notin Requests /\ SocketOK(c) /\ Len(policies) \in 1..MaxPolicies
    BY DEF Members, MembersOK, GateParameters
<1>2. /\ stage[c] = "new" /\ c \notin held
      /\ UNCHANGED <<policies, arrived, held, active, spool, gone, response, upstream, crashes>>
    BY <1>1 DEF AuthorizeUpgrade, SocketOK, gateVars
<1>3. /\ failures' \in 0..MaxFailures
      /\ \/ /\ stage' = [stage EXCEPT ![c] = "authorized"]
            /\ identity' = [identity EXCEPT ![c] = Len(policies)]
         \/ stage' = [stage EXCEPT ![c] = "refused"] /\ identity' = identity
    BY FailTyped DEF AuthorizeUpgrade, Authorized, Unauthorized, Goto, TypeOK
<1>4. Len(policies) \in 0..MaxPolicies /\ Len(policies) \in 1..Len(policies)
    BY <1>1 DEF GateParameters
<1>5. TypesKept
    BY <1>1, <1>2, <1>3, <1>4 DEF TypesKept, TypeOK, Stages
<1>6. OnlyOf(c)
    BY <1>1, <1>2, <1>3 DEF OnlyOf, TypeOK
<1>7. \/ stage'[c] = "authorized" /\ identity'[c] = Len(policies)
      \/ stage'[c] = "refused"
    BY <1>1, <1>3 DEF TypeOK
<1>8. SocketOK(c)'
    BY <1>2, <1>4, <1>7 DEF SocketOK
<1>9. SlotStep(c)
    BY <1>2 DEF SlotStep, gateVars
<1> QED BY <1>2, <1>5, <1>6, <1>8, <1>9 DEF SocketKept

LEMMA UpgradeKept ==
    ASSUME GateParameters, TypeOK, MembersOK, NEW c \in Sockets, Upgrade(c)
    PROVE  SocketKept(c) /\ UNCHANGED <<response, upstream>>
<1>1. c \in Members /\ c \notin Requests /\ SocketOK(c)
    BY DEF Members, MembersOK, GateParameters
<1>2. /\ stage[c] = "authorized" /\ c \notin held /\ identity[c] \in 1..Len(policies)
      /\ UNCHANGED <<policies, arrived, identity, spool, gone, response, upstream,
                     failures, crashes>>
    BY <1>1 DEF Upgrade, SocketOK
<1>3. Identity(c) \in Policies
  <2>1. policies \in Seq(Policies)
    BY DEF TypeOK
  <2> QED BY <1>2, <2>1, ElementOfSeq DEF Identity
<1>4. Identity(c)' = Identity(c)
    BY <1>2 DEF Identity
<1>5. \/ /\ stage' = [stage EXCEPT ![c] = "handshake"] /\ c \notin gone
         /\ UNCHANGED gateVars /\ ~IsLarge(MaxSize(c), c)
      \/ /\ stage' = [stage EXCEPT ![c] = "handshake"] /\ c \notin gone
         /\ Acquire(c)
      \/ /\ stage' = [stage EXCEPT ![c] = "done"] \/ stage' = [stage EXCEPT ![c] = "refused"]
         /\ UNCHANGED gateVars
    BY DEF Upgrade, Goto, Upgrades
<1>6. /\ held' \subseteq Members
      /\ \A n \in Members \ {c} : n \in held' <=> n \in held
    BY <1>1, <1>5 DEF Acquire, gateVars, TypeOK
<1>7. /\ stage' \in [Members -> Stages]
      /\ \A n \in Members \ {c} : stage'[n] = stage[n]
    BY <1>5 DEF TypeOK, Stages
<1>8. TypesKept
    BY <1>2, <1>6, <1>7 DEF TypesKept, TypeOK
<1>9. OnlyOf(c)
    BY <1>2, <1>6, <1>7 DEF OnlyOf
<1>10. \/ stage'[c] = "handshake" /\ c \notin gone /\ c \notin held' /\ ~IsLarge(MaxSize(c), c)
       \/ stage'[c] = "handshake" /\ c \notin gone /\ c \in held'
       \/ stage'[c] \in {"done", "refused"} /\ c \notin held'
    BY <1>1, <1>2, <1>5 DEF Acquire, gateVars, TypeOK
<1>11. SocketOK(c)'
    BY <1>2, <1>4, <1>10 DEF SocketOK, IsLarge, MaxSize
<1>12. SlotStep(c)
    BY <1>2, <1>3, <1>5 DEF SlotStep
<1> QED BY <1>2, <1>8, <1>9, <1>11, <1>12 DEF SocketKept

LEMMA HandshakeKept ==
    ASSUME GateParameters, TypeOK, MembersOK, NEW c \in Sockets, Handshake(c)
    PROVE  SocketKept(c) /\ UNCHANGED <<response, upstream>>
<1>1. c \in Members /\ c \notin Requests /\ SocketOK(c)
    BY DEF Members, MembersOK, GateParameters
<1>2. /\ stage[c] = "handshake" /\ c \notin gone
      /\ \E s \in {"open", "refused"} : stage' = [stage EXCEPT ![c] = s]
      /\ UNCHANGED <<policies, arrived, identity, held, active, spool, gone, response,
                     upstream, failures, crashes>>
    BY DEF Handshake, Goto, gateVars
<1>3. TypesKept
    BY <1>2 DEF TypesKept, TypeOK, Stages
<1>4. OnlyOf(c)
    BY <1>2 DEF OnlyOf, TypeOK
<1>5. stage'[c] \in {"open", "refused"}
    BY <1>1, <1>2 DEF TypeOK
<1>6. SocketOK(c)'
    BY <1>1, <1>2, <1>5 DEF SocketOK, IsLarge, MaxSize, Identity
<1>7. SlotStep(c)
    BY <1>2 DEF SlotStep, gateVars
<1> QED BY <1>2, <1>3, <1>4, <1>6, <1>7 DEF SocketKept

LEMMA ClosesKept ==
    ASSUME GateParameters, TypeOK, MembersOK, NEW c \in Sockets, SocketCloses(c)
    PROVE  SocketKept(c) /\ UNCHANGED <<response, upstream>>
<1>1. c \in Members /\ c \notin Requests /\ SocketOK(c)
    BY DEF Members, MembersOK, GateParameters
<1>2. /\ gone' = gone \cup {c} /\ Release(c)
      /\ \/ stage[c] \in {"new", "authorized"} /\ stage' = stage
         \/ stage' = [stage EXCEPT ![c] = "done"]
      /\ UNCHANGED <<policies, arrived, identity, spool, response, upstream, failures, crashes>>
    BY DEF SocketCloses, Goto
<1>3. /\ held' \subseteq held /\ c \notin held'
      /\ \A n \in Members \ {c} : n \in held' <=> n \in held
  <2>1. held' = held \ {c}
    BY <1>2 DEF Release, gateVars
  <2> QED BY <2>1
<1>4. TypesKept
    BY <1>1, <1>2, <1>3 DEF TypesKept, TypeOK, Stages
<1>5. OnlyOf(c)
    BY <1>2, <1>3 DEF OnlyOf, TypeOK
<1>6. stage'[c] \in {"new", "authorized", "done"} /\ (stage'[c] = stage[c] \/ stage'[c] = "done")
    BY <1>1, <1>2 DEF TypeOK
<1>7. SocketOK(c)'
    BY <1>1, <1>2, <1>3, <1>6 DEF SocketOK
<1>8. SlotStep(c)
    BY <1>2 DEF SlotStep
<1> QED BY <1>2, <1>4, <1>5, <1>7, <1>8 DEF SocketKept

\* A saved policy leaves those that members were admitted with as they were.
LEMMA PolicyKept ==
    ASSUME GateParameters, TypeOK, MembersOK, SlotsOK, SavePolicy
    PROVE  GateInv' /\ UNCHANGED <<response, upstream>>
<1>1. PICK p \in Policies : policies' = Append(policies, p)
    BY DEF SavePolicy
<1>2. /\ Len(policies) < MaxPolicies
      /\ UNCHANGED <<arrived, stage, identity, held, active, spool, gone, response,
                     upstream, failures, crashes>>
    BY DEF SavePolicy, gateVars
<1>3. /\ policies \in Seq(Policies) /\ policies' \in Seq(Policies)
      /\ Len(policies') = Len(policies) + 1 /\ Len(policies) \in Nat
      /\ \A i \in 1..Len(policies) : policies'[i] = policies[i]
    BY <1>1, AppendProperties, LenProperties DEF TypeOK
<1>4. TypeOK'
    BY <1>2, <1>3 DEF TypeOK
<1>5. /\ Len(policies') \in 1..MaxPolicies
      /\ \A i \in 1..Len(policies) : i \in 1..Len(policies')
    BY <1>2, <1>3 DEF MembersOK, GateParameters
<1>6. ASSUME NEW r \in Requests PROVE RequestOK(r)'
  <2>1. RequestOK(r) /\ arrived[r] \in Nat
    BY DEF MembersOK, TypeOK
  <2>2. CASE stage[r] \in {"authorized", "upload"} \cup Working
    <3>1. /\ identity[r] \in arrived[r]..Len(policies) /\ arrived[r] \in 1..Len(policies)
        BY <2>1, <2>2 DEF RequestOK, Working
    <3>2. identity[r] \in 1..Len(policies) /\ identity[r] \in arrived[r]..Len(policies')
        BY <1>3, <3>1
    <3>3. Identity(r)' = Identity(r)
        BY <1>2, <1>3, <3>2 DEF Identity
    <3> QED BY <1>2, <1>5, <2>1, <3>1, <3>2, <3>3
            DEF RequestOK, IsLarge, Fits, MaxSize, Working
  <2>3. CASE stage[r] \notin {"authorized", "upload"} \cup Working
    BY <1>2, <1>5, <2>1, <2>3 DEF RequestOK, Working
  <2> QED BY <2>2, <2>3
<1>7. ASSUME NEW c \in Sockets PROVE SocketOK(c)'
  <2>1. SocketOK(c)
    BY DEF MembersOK
  <2>2. identity[c] \in 1..Len(policies) => Identity(c)' = Identity(c)
    BY <1>2, <1>3 DEF Identity
  <2> QED BY <1>2, <1>5, <2>1, <2>2 DEF SocketOK, IsLarge, MaxSize
<1>8. SlotsOK'
  <2>1. ASSUME NEW m \in held PROVE Identity(m)' = Identity(m)
    <3>1. identity[m] \in 1..Len(policies)
        BY HolderKnown
    <3> QED BY <1>2, <1>3, <3>1 DEF Identity
  <2> QED BY <1>2, <2>1, SlotsStay DEF gateVars
<1> QED BY <1>2, <1>4, <1>5, <1>6, <1>7, <1>8 DEF GateInv, MembersOK

LEMMA ProcessEndsKept ==
    ASSUME GateParameters, TypeOK, MembersOK, ProcessEnds,
           failures' \in 0..MaxFailures, crashes' \in 0..MaxCrashes
    PROVE  GateInv' /\ UNCHANGED <<response, upstream>>
<1>1. /\ stage' = [m \in Members |-> IF stage[m] = "new" THEN "new" ELSE "done"]
      /\ gone' = {m \in Members : stage[m] # "new"}
      /\ held' = {} /\ active' = 0 /\ spool' = {}
      /\ UNCHANGED <<policies, arrived, identity, response, upstream>>
    BY DEF ProcessEnds
<1>2. TypeOK'
    BY <1>1 DEF TypeOK, Stages
<1>3. ASSUME NEW r \in Requests PROVE RequestOK(r)'
  <2>1. r \in Members /\ RequestOK(r)
    BY DEF MembersOK, Members
  <2>2. (stage'[r] = stage[r] /\ stage[r] = "new") \/ stage'[r] = "done"
    BY <1>1, <2>1
  <2> QED BY <1>1, <2>1, <2>2 DEF RequestOK, Working
<1>4. ASSUME NEW c \in Sockets PROVE SocketOK(c)'
  <2>1. stage'[c] \in {"new", "done"}
    BY <1>1 DEF Members
  <2> QED BY <1>1, <2>1 DEF SocketOK
<1>5. SlotsOK'
  <2>1. [m \in {} |-> 0] \in [{} -> Nat]
    OBVIOUS
  <2>2. \E place \in [held' -> Nat] : TRUE
    BY <1>1, <2>1
  <2>3. PICK place \in [held' -> Nat] : TRUE
    BY <2>2
  <2>4. Numbering(place)'
    BY <1>1 DEF Numbering
  <2> QED BY <1>1, <2>3, <2>4, FS_EmptySet DEF SlotsOK
<1> QED BY <1>1, <1>2, <1>3, <1>4, <1>5 DEF GateInv, MembersOK

----------------------------------------------------------------------------
(* The steps together.                                                      *)

LEMMA MemberStep ==
    ASSUME GateParameters, GateInv, NEW m \in Members,
           TypesKept, OnlyOf(m), SlotStep(m), MembersOK'
    PROVE  GateInv'
<1>1. TypeOK /\ MembersOK /\ SlotsOK /\ active \in Nat
    BY DEF GateInv, TypeOK
<1>2. ASSUME m \in held => identity'[m] = identity[m]
      PROVE  \A n \in held : Identity(n)' = Identity(n)
  <2>1. policies' = policies /\ \A n \in held : n \in Members
    BY <1>1 DEF OnlyOf, TypeOK
  <2> QED BY <1>2, <2>1 DEF OnlyOf, Identity
<1>3. CASE UNCHANGED gateVars /\ (m \in held => identity'[m] = identity[m])
  <2>1. SlotsOK' /\ active' = active
    BY <1>1, <1>2, <1>3, SlotsStay DEF gateVars
  <2> QED BY <1>1, <2>1 DEF TypesKept, GateInv
<1>4. CASE Release(m) /\ UNCHANGED identity
  <2>1. \A n \in held : Identity(n)' = Identity(n) /\ Identity(n).concurrent \in Nat
    BY <1>1, <1>2, <1>4, HolderKnown
  <2>2. SlotsOK' /\ active' \in Nat
    BY <1>1, <1>4, <2>1, SlotGiven
  <2> QED BY <2>2 DEF TypesKept, GateInv
<1>5. CASE Acquire(m) /\ m \notin held /\ Identity(m) \in Policies /\ UNCHANGED identity
  <2>1. SlotsOK' /\ active' \in Nat
    BY <1>1, <1>5, SlotTaken DEF OnlyOf
  <2> QED BY <2>1 DEF TypesKept, GateInv
<1> QED BY <1>3, <1>4, <1>5 DEF SlotStep

LEMMA RequestMoves ==
    ASSUME GateParameters, GateInv, NEW r \in Requests,
           Arrive(r) \/ RequestStep(r) \/ Keepalive(r) \/ ClientGone(r)
    PROVE  GateInv' /\ \A q \in Requests : Answers(q)
<1>1. TypeOK /\ MembersOK /\ r \in Members /\ r \notin Sockets
    BY DEF GateInv, Members, GateParameters
<1>2. RequestKept(r)
    BY <1>1, ArriveKept, AuthorizeKept, CheckKept, UploadKept, ForwardKept, HeadersKept,
       BrokenKept, EndKept, RemoveKept, KeepaliveKept, GoneKept DEF RequestStep
<1>3. TypesKept /\ OnlyOf(r) /\ RequestOK(r)' /\ SlotStep(r) /\ Answers(r)
    BY <1>2 DEF RequestKept
<1>4. MembersOK'
    BY <1>1, <1>3, OthersOK
<1>5. ASSUME NEW q \in Requests, q # r PROVE Answers(q)
  <2>1. /\ response'[q] = response[q] /\ upstream'[q] = upstream[q]
        /\ response[q] = "whole" => upstream[q] = "ended"
    BY <1>1, <1>3, <1>5 DEF OnlyOf, MembersOK, RequestOK
  <2> QED BY <2>1 DEF Answers
<1> QED BY <1>1, <1>3, <1>4, <1>5, MemberStep

LEMMA SocketMoves ==
    ASSUME GateParameters, GateInv, NEW c \in Sockets,
           AuthorizeUpgrade(c) \/ Upgrade(c) \/ Handshake(c) \/ SocketCloses(c)
    PROVE  GateInv' /\ UNCHANGED <<response, upstream>>
<1>1. TypeOK /\ MembersOK /\ c \in Members /\ c \notin Requests
    BY DEF GateInv, Members, GateParameters
<1>2. SocketKept(c) /\ UNCHANGED <<response, upstream>>
    BY <1>1, AuthorizeUpgradeKept, UpgradeKept, HandshakeKept, ClosesKept
<1>3. TypesKept /\ OnlyOf(c) /\ SocketOK(c)' /\ SlotStep(c)
    BY <1>2 DEF SocketKept
<1>4. MembersOK'
    BY <1>1, <1>3, OthersOK
<1> QED BY <1>1, <1>2, <1>3, <1>4, MemberStep

LEMMA GateStep ==
    ASSUME GateParameters, GateInv, [Next]_vars
    PROVE  GateInv' /\ \A r \in Requests : Answers(r)
<1>1. ASSUME UNCHANGED <<response, upstream>>
      PROVE  \A r \in Requests : Answers(r)
    BY <1>1 DEF Answers, GateInv, MembersOK, RequestOK
<1>2. CASE SavePolicy \/ Crash \/ \E r \in Requests : RemoveFails(r)
  <2>1. CASE SavePolicy
    BY <1>1, <2>1, PolicyKept DEF GateInv
  <2>2. CASE Crash \/ \E r \in Requests : RemoveFails(r)
    <3>1. ProcessEnds /\ failures' \in 0..MaxFailures /\ crashes' \in 0..MaxCrashes
      BY <2>2 DEF Crash, RemoveFails, Fail, GateInv, TypeOK, GateParameters
    <3> QED BY <1>1, <3>1, ProcessEndsKept DEF GateInv
  <2> QED BY <1>2, <2>1, <2>2
<1>3. CASE UNCHANGED vars
  <2>1. UNCHANGED <<policies, arrived, stage, identity, held, active, spool, gone, response,
                    upstream, failures, crashes>>
    BY <1>3 DEF vars, gateVars
  <2>2. TypeOK'
    BY <2>1 DEF GateInv, TypeOK
  <2>3. MembersOK'
    BY <2>1 DEF GateInv, MembersOK, RequestOK, SocketOK, IsLarge, Fits, MaxSize, Identity
  <2>4. SlotsOK'
    BY <2>1, SlotsStay DEF GateInv, gateVars, Identity
  <2> QED BY <1>1, <2>1, <2>2, <2>3, <2>4 DEF GateInv
<1>4. CASE \E c \in Sockets :
              AuthorizeUpgrade(c) \/ Upgrade(c) \/ Handshake(c) \/ SocketCloses(c)
    BY <1>1, <1>4, SocketMoves
<1>5. CASE \E r \in Requests : Arrive(r) \/ RequestStep(r) \/ Keepalive(r) \/ ClientGone(r)
    BY <1>5, RequestMoves
<1> QED BY <1>2, <1>3, <1>4, <1>5 DEF Next

LEMMA GateInit ==
    ASSUME GateParameters, Init
    PROVE  GateInv
<1>1. PICK p \in Policies : policies = <<p>>
    BY DEF Init
<1>2. policies \in Seq(Policies) /\ Len(policies) = 1
    BY <1>1
<1>3. TypeOK
    BY <1>2 DEF Init, TypeOK, GateParameters, Stages, Members
<1>4. MembersOK
  <2>1. Len(policies) \in 1..MaxPolicies
    BY <1>2 DEF GateParameters
  <2> QED BY <2>1 DEF MembersOK, RequestOK, SocketOK, Init, Working, Members
<1>5. SlotsOK
  <2>1. \E place \in [{} -> Nat] : TRUE
    <3>1. [m \in {} |-> 0] \in [{} -> Nat]
        OBVIOUS
    <3> QED BY <3>1
  <2>2. PICK place \in [held -> Nat] : TRUE
    BY <2>1 DEF Init
  <2>3. Numbering(place)
    BY DEF Numbering, Init
  <2> QED BY <2>2, <2>3, FS_EmptySet DEF SlotsOK, Init
<1> QED BY <1>3, <1>4, <1>5 DEF GateInv

LEMMA SpecGate ==
    ASSUME GateParameters
    PROVE  Spec => []GateInv
<1>1. Init => GateInv
    BY GateInit
<1>2. GateInv /\ [Next]_vars => GateInv'
    BY GateStep
<1> QED BY <1>1, <1>2, PTL DEF Spec

----------------------------------------------------------------------------
(* The results about the gate.                                               *)

\* The variables of guard.ts and http-gateway.ts stay what they are declared as;
\* the counter of slots does not fall below zero however often a slot is given
\* back.
THEOREM GateTyped ==
    ASSUME GateParameters
    PROVE  Spec => []TypeOK
BY SpecGate, PTL DEF GateInv

\* LargeRequestGate.active (guard.ts) is the number of large requests being
\* forwarded and of large connections with an open socket, whatever fails, closes
\* or crashes: no slot is lost and none is given back twice.
THEOREM CountOfSlots ==
    ASSUME GateParameters
    PROVE  Spec => []SlotsCounted
<1>1. ASSUME GateInv PROVE SlotsCounted
  <2>1. /\ \A r \in Requests :
              r \in held <=> stage[r] \in {"forward", "answered"} /\ IsLarge(Body[r], r)
        /\ \A c \in Sockets :
              c \in held => c \notin gone /\ stage[c] \in {"handshake", "open", "refused"}
        /\ held \subseteq Requests \cup Sockets
    BY <1>1 DEF GateInv, MembersOK, RequestOK, SocketOK, Working, TypeOK, Members
  <2>2. held = {r \in Requests : stage[r] \in {"forward", "answered"} /\ IsLarge(Body[r], r)}
               \cup {c \in Sockets : /\ c \notin gone
                                     /\ stage[c] \in {"handshake", "open", "refused"}
                                     /\ c \in held}
    BY <2>1
  <2>3. Cardinality(held) = active
    BY <1>1 DEF GateInv, SlotsOK
  <2> QED BY <2>2, <2>3 DEF SlotsCounted
<1> QED BY <1>1, SpecGate, PTL

\* While slots are held, one holder was admitted with a policy that allows as many
\* as there are, in whatever order they were taken and given back and the policy
\* was changed (guard.ts; docs 012).
THEOREM ChannelHolds ==
    ASSUME GateParameters
    PROVE  Spec => []ChannelBounded
<1>1. ASSUME GateInv PROVE ChannelBounded
  <2>1. PICK place \in [held -> Nat] : Numbering(place)
    BY <1>1 DEF GateInv, SlotsOK
  <2>2. active \in Nat
    BY <1>1 DEF GateInv, TypeOK
  <2>3. active > 0 => \E m \in held : place[m] = active
    BY <2>1, <2>2 DEF Numbering
  <2> QED BY <2>1, <2>3 DEF Numbering, ChannelBounded
<1> QED BY <1>1, SpecGate, PTL

\* http-gateway.ts forwards only what is within the user's limit in a policy that
\* was in force after the request arrived, and server.ts bridges a connection with
\* a large allowance only with a slot.
THEOREM LimitsHold ==
    ASSUME GateParameters
    PROVE  Spec => []LimitsEnforced
<1>1. ASSUME GateInv PROVE LimitsEnforced
  <2>1. ASSUME NEW r \in Requests, stage[r] \in {"forward", "answered"}
        PROVE  \E i \in arrived[r]..Len(policies) :
                  Body[r] <= LimitForUser(policies[i], User[r])
    <3>1. identity[r] \in arrived[r]..Len(policies) /\ Fits(r)
        BY <1>1, <2>1 DEF GateInv, MembersOK, RequestOK, Working
    <3> QED BY <3>1 DEF Fits, MaxSize, Identity
  <2>2. \A c \in Sockets : stage[c] = "open" /\ IsLarge(MaxSize(c), c) => c \in held
    BY <1>1 DEF GateInv, MembersOK, SocketOK
  <2> QED BY <2>1, <2>2 DEF LimitsEnforced
<1> QED BY <1>1, SpecGate, PTL

\* The directory of a request is there only while the request is, or until its
\* finally has removed it (http-gateway.ts, prepareHttpSpool).
THEOREM SpoolFollows ==
    ASSUME GateParameters
    PROVE  Spec => []SpoolIsLive
<1>1. ASSUME GateInv PROVE SpoolIsLive
  <2>1. \A r \in spool : r \in Requests
    BY <1>1 DEF GateInv, TypeOK
  <2> QED BY <1>1, <2>1 DEF GateInv, MembersOK, RequestOK, SpoolIsLive
<1> QED BY <1>1, SpecGate, PTL

\* The gate is accounted for in all of this at once, for any number of requests,
\* sockets and policies (guard.ts, http-gateway.ts; docs 012).
THEOREM AccountsOfGate ==
    ASSUME GateParameters
    PROVE  Spec => []GateAccounted
<1>1. SlotsCounted /\ ChannelBounded /\ LimitsEnforced /\ SpoolIsLive => GateAccounted
  BY DEF GateAccounted
<1> QED BY <1>1, CountOfSlots, ChannelHolds, LimitsHold, SpoolFollows, PTL

\* Whatever fails and when, a client gets one response: an error is never joined
\* to a begun one, comments are followed by a stream or an error event, and only
\* what Sub2API completed looks complete (http-gateway.ts, response-keepalive.ts).
THEOREM ResponseIsOne ==
    ASSUME GateParameters
    PROVE  Spec => OneResponse
<1>1. ASSUME GateInv, [Next]_vars
      PROVE  [\A r \in Requests :
                /\ response'[r] = "whole" => upstream'[r] = "ended"
                /\ response[r] = "keepalive" =>
                      response'[r] \in {"keepalive", "headers", "errorEvent"}
                /\ response[r] = "headers" => response'[r] \in {"headers", "whole", "cut"}
                /\ response[r] \in {"whole", "error", "errorEvent", "cut"} =>
                      response'[r] = response[r]]_vars
    BY <1>1, GateStep DEF Answers
<1> QED BY <1>1, SpecGate, PTL DEF Spec, OneResponse
----------------------------------------------------------------------------
(* The policy and its panels: the inductive invariant.                       *)

\* A save that waits names the revision that its panel showed.
QueueOK == \A i \in 1..Len(queue) : queue[i].seen = queue[i].input.revision

\* What the running save knows of the file after each of its awaits: it alone
\* replaces the file, so what it compared still holds when it renames.
StageOK ==
    /\ writing # "queued" => queue # <<>>
    /\ writing = "compared" => /\ Panel!CurrentRevision(Panel!Task.input)
                              /\ ~Panel!SameSettings(Panel!Task.input)
    /\ writing = "renamed" => /\ policy.revision = Panel!Task.input.revision + 1
                             /\ policy.revision >= 2

\* The revisions that were recorded, and the file's own, which the running save
\* has still to record once it has renamed.
RecordedOK ==
    /\ \A i \in 1..Len(recorded) :
          /\ recorded[i] \in 2..policy.revision
          /\ writing = "renamed" => recorded[i] < policy.revision
    /\ \A i, j \in 1..Len(recorded) : i < j => recorded[i] < recorded[j]

LimitsInv == Panel!TypeOK /\ QueueOK /\ StageOK /\ RecordedOK /\ policy.revision >= 1

----------------------------------------------------------------------------
(* The queue of saves.                                                       *)

LEMMA TaskTyped ==
    ASSUME Panel!TypeOK, queue # <<>>
    PROVE  /\ Panel!Task \in Panel!Save /\ Panel!Task = queue[1] /\ 1 \in 1..Len(queue)
           /\ Tail(queue) \in Seq(Panel!Save)
           /\ Len(Tail(queue)) = Len(queue) - 1
           /\ \A i \in 1..Len(queue) - 1 : Tail(queue)[i] = queue[i + 1]
<1>1. queue \in Seq(Panel!Save)
    BY DEF Panel!TypeOK
<1>2. Len(queue) \in Nat /\ Len(queue) > 0
    BY <1>1, EmptySeq, LenProperties
<1>3. Head(queue) \in Panel!Save /\ Head(queue) = queue[1]
    BY <1>1, HeadTailProperties, ElementOfSeq, <1>2
<1>4. /\ Tail(queue) \in Seq(Panel!Save) /\ Len(Tail(queue)) = Len(queue) - 1
      /\ \A i \in 1..Len(queue) - 1 : Tail(queue)[i] = queue[i + 1]
    BY <1>1, HeadTailProperties
<1> QED BY <1>2, <1>3, <1>4 DEF Panel!Task

\* The end of the running save, with what it answers.
LEMMA SettleKept ==
    ASSUME LimitsInv, queue # <<>>, NEW result \in Panel!Input \cup {None}, Panel!Settle(result),
           Panel!IsChange(result) => result = policy /\ writing = "renamed",
           UNCHANGED <<policy, Panel!panelVars>>,
           lost' \in 0..MaxLost, restarts' = restarts
    PROVE  LimitsInv'
<1>0. Panel!TypeOK /\ QueueOK /\ StageOK /\ RecordedOK /\ policy.revision >= 1
    BY DEF LimitsInv
<1>1. /\ Panel!Task \in Panel!Save /\ Tail(queue) \in Seq(Panel!Save)
      /\ Len(Tail(queue)) = Len(queue) - 1
      /\ \A i \in 1..Len(queue) - 1 : Tail(queue)[i] = queue[i + 1]
    BY <1>0, TaskTyped
<1>2. /\ queue' = Tail(queue) /\ writing' = "queued"
      /\ UNCHANGED <<policy, data, polled, draft, saves>>
    BY DEF Panel!Settle, Panel!panelVars
<1>3. Len(queue) \in Nat /\ recorded \in Seq(Nat) /\ Len(recorded) \in Nat
    BY <1>0, LenProperties DEF Panel!TypeOK
<1>4. QueueOK'
  <2>1. ASSUME NEW i \in 1..Len(queue')
        PROVE  queue'[i].seen = queue'[i].input.revision
    <3>1. i + 1 \in 1..Len(queue) /\ queue'[i] = queue[i + 1]
        BY <1>1, <1>2, <1>3
    <3> QED BY <1>0, <3>1 DEF QueueOK
  <2> QED BY <2>1 DEF QueueOK
<1>5. StageOK'
    BY <1>2 DEF StageOK
<1>6. policy \in Panel!Input /\ policy.revision \in Nat
    BY <1>0 DEF Panel!TypeOK, Panel!Input
<1>7. CASE recorded' = recorded
  <2>1. RecordedOK'
    BY <1>0, <1>2, <1>7 DEF RecordedOK
  <2>2. answers' \subseteq [panel : Panels, number : 1..MaxSaves, result : Panel!Input \cup {None}]
    BY <1>0, <1>1 DEF Panel!TypeOK, Panel!Settle, Panel!Save
  <2>3. Panel!TypeOK'
    BY <1>0, <1>1, <1>2, <1>7, <2>2 DEF Panel!TypeOK
  <2> QED BY <1>0, <1>2, <1>4, <1>5, <2>1, <2>3 DEF LimitsInv
<1>8. CASE Panel!IsChange(result) /\ recorded' = Append(recorded, result.revision)
  <2>1. recorded' = Append(recorded, policy.revision) /\ writing = "renamed"
    BY <1>8
  <2>2. /\ recorded' \in Seq(Nat) /\ Len(recorded') = Len(recorded) + 1
        /\ \A i \in 1..Len(recorded) : recorded'[i] = recorded[i]
        /\ recorded'[Len(recorded) + 1] = policy.revision
    BY <1>3, <1>6, <2>1, AppendProperties
  <2>3. policy.revision >= 2
    BY <1>0, <2>1 DEF StageOK
  <2>4. \A i \in 1..Len(recorded) : /\ recorded[i] \in 2..policy.revision
                                    /\ recorded[i] < policy.revision
    BY <1>0, <2>1 DEF RecordedOK
  <2>5. ASSUME NEW i \in 1..Len(recorded')
        PROVE  recorded'[i] \in 2..policy.revision
    <3>1. i \in 1..Len(recorded) \/ i = Len(recorded) + 1
        BY <1>3, <2>2
    <3>2. CASE i \in 1..Len(recorded)
        BY <2>2, <2>4, <3>2
    <3>3. CASE i = Len(recorded) + 1
        BY <1>6, <2>2, <2>3, <3>3
    <3> QED BY <3>1, <3>2, <3>3
  <2>6. ASSUME NEW i \in 1..Len(recorded'), NEW j \in 1..Len(recorded'), i < j
        PROVE  recorded'[i] < recorded'[j]
    <3> DEFINE n == Len(recorded)
    <3>0. n \in Nat /\ i \in 1..(n + 1) /\ j \in 1..(n + 1)
        BY <1>3, <2>2
    <3> HIDE DEF n
    <3>1. i \in 1..n /\ (j \in 1..n \/ j = n + 1)
        BY <2>6, <3>0
    <3> USE DEF n
    <3>2. CASE j \in 1..Len(recorded)
      <4>1. recorded[i] < recorded[j]
        BY <1>0, <2>6, <3>1, <3>2 DEF RecordedOK
      <4>2. recorded'[i] = recorded[i] /\ recorded'[j] = recorded[j]
        BY <2>2, <3>1, <3>2
      <4> QED BY <4>1, <4>2
    <3>3. CASE j = Len(recorded) + 1
        BY <2>2, <2>4, <3>1, <3>3
    <3> QED BY <3>1, <3>2, <3>3
  <2>7. RecordedOK'
    BY <1>2, <2>5, <2>6 DEF RecordedOK
  <2>8. answers' \subseteq [panel : Panels, number : 1..MaxSaves, result : Panel!Input \cup {None}]
    BY <1>0, <1>1 DEF Panel!TypeOK, Panel!Settle, Panel!Save
  <2>9. Panel!TypeOK'
    BY <1>0, <1>1, <1>2, <2>2, <2>8 DEF Panel!TypeOK
  <2> QED BY <1>0, <1>2, <1>4, <1>5, <2>7, <2>9 DEF LimitsInv
<1> QED BY <1>7, <1>8 DEF Panel!Settle

----------------------------------------------------------------------------
(* The panels.                                                              *)

\* The panels' own steps leave the store alone.
LEMMA PanelsKeep ==
    ASSUME LimitsInv, UNCHANGED Panel!storeVars, Panel!TypeOK'
    PROVE  LimitsInv'
<1>1. UNCHANGED <<policy, queue, writing, recorded>>
    BY DEF Panel!storeVars
<1>2. /\ Panel!Task' = Panel!Task
      /\ (Panel!CurrentRevision(Panel!Task.input) <=> Panel!CurrentRevision(Panel!Task.input)')
      /\ (Panel!SameSettings(Panel!Task.input) <=> Panel!SameSettings(Panel!Task.input)')
    BY <1>1 DEF Panel!Task, Panel!CurrentRevision, Panel!SameSettings
<1>3. QueueOK'
    BY <1>1 DEF LimitsInv, QueueOK
<1>4. StageOK'
    BY <1>1, <1>2 DEF LimitsInv, StageOK
<1>5. RecordedOK'
    BY <1>1 DEF LimitsInv, RecordedOK
<1> QED BY <1>1, <1>3, <1>4, <1>5 DEF LimitsInv

LEMMA EditKept ==
    ASSUME LimitsInv, NEW p \in Panels, NEW s \in Settings, Panel!Edit(p, s)
    PROVE  LimitsInv'
<1>1. Panel!Values(p) \in Panel!Input
    BY DEF LimitsInv, Panel!TypeOK, Panel!Values
<1>2. [Panel!Values(p) EXCEPT !.settings = s] \in Panel!Input
    BY <1>1 DEF Panel!Input
<1>3. Panel!TypeOK'
    BY <1>2 DEF LimitsInv, Panel!TypeOK, Panel!Edit, Panel!storeVars
<1> QED BY <1>3, PanelsKeep DEF Panel!Edit

LEMMA ReloadKept ==
    ASSUME LimitsInv, NEW p \in Panels, Panel!Reload(p)
    PROVE  LimitsInv'
<1>1. Panel!TypeOK'
    BY DEF LimitsInv, Panel!TypeOK, Panel!Reload, Panel!storeVars
<1> QED BY <1>1, PanelsKeep DEF Panel!Reload

LEMMA PollKept ==
    ASSUME LimitsInv, NEW p \in Panels, Panel!Poll(p)
    PROVE  LimitsInv'
<1>1. Panel!TypeOK'
    BY DEF LimitsInv, Panel!TypeOK, Panel!Poll, Panel!storeVars
<1> QED BY <1>1, PanelsKeep DEF Panel!Poll

LEMMA PollArrivesKept ==
    ASSUME LimitsInv, NEW p \in Panels, Panel!PollArrives(p)
    PROVE  LimitsInv'
<1>1. polled[p] \in Panel!Input
    BY DEF LimitsInv, Panel!TypeOK, Panel!PollArrives
<1>2. Panel!TypeOK'
    BY <1>1 DEF LimitsInv, Panel!TypeOK, Panel!PollArrives, Panel!storeVars
<1> QED BY <1>2, PanelsKeep DEF Panel!PollArrives

LEMMA AnswerArrivesKept ==
    ASSUME LimitsInv, NEW a \in answers, Panel!AnswerArrives(a)
    PROVE  LimitsInv'
<1>1. a.panel \in Panels /\ a.result \in Panel!Input \cup {None}
    BY DEF LimitsInv, Panel!TypeOK
<1>2. Panel!Shown(a) \in Panel!Input
    BY <1>1 DEF LimitsInv, Panel!TypeOK, Panel!Shown
<1>3. Panel!TypeOK'
    BY <1>1, <1>2 DEF LimitsInv, Panel!TypeOK, Panel!AnswerArrives, Panel!storeVars
<1> QED BY <1>3, PanelsKeep DEF Panel!AnswerArrives

LEMMA AnswerLostKept ==
    ASSUME LimitsInv, Panel!LimitsParameters, NEW a \in answers, Panel!AnswerLost(a)
    PROVE  LimitsInv'
<1>1. lost' \in 0..MaxLost
    BY DEF LimitsInv, Panel!TypeOK, Panel!AnswerLost, Panel!Fail, Panel!LimitsParameters
<1>2. Panel!TypeOK'
    BY <1>1 DEF LimitsInv, Panel!TypeOK, Panel!AnswerLost, Panel!storeVars, Panel!panelVars
<1> QED BY <1>2, PanelsKeep DEF Panel!AnswerLost

\* A save joins the queue behind the running one, with the revision that its
\* draft was started from: its panel sends only a draft that is not stale.
LEMMA SubmitKept ==
    ASSUME LimitsInv, Panel!LimitsParameters, NEW p \in Panels, Panel!Submit(p)
    PROVE  LimitsInv'
<1> DEFINE save == [panel |-> p, number |-> saves + 1,
                    input |-> draft[p], seen |-> draft[p].revision]
<1> USE DEF LimitsInv
<1>1. /\ draft[p] \in Panel!Input /\ saves + 1 \in 1..MaxSaves /\ saves' \in 0..MaxSaves
      /\ queue' = Append(queue, save)
      /\ UNCHANGED <<policy, writing, recorded, data, polled, draft, answers, lost, restarts>>
    BY DEF Panel!Submit, Panel!MaySend, Panel!TypeOK, Panel!LimitsParameters
<1>2. save \in Panel!Save
    BY <1>1 DEF Panel!Save, Panel!Input
<1>3. save.seen = save.input.revision
    OBVIOUS
<1> HIDE DEF save
<1>4. queue \in Seq(Panel!Save) /\ Len(queue) \in Nat
    BY LenProperties DEF Panel!TypeOK
<1>5. /\ queue' \in Seq(Panel!Save) /\ Len(queue') = Len(queue) + 1
      /\ \A i \in 1..Len(queue) : queue'[i] = queue[i]
      /\ queue'[Len(queue) + 1] = save
    BY <1>1, <1>2, <1>4, AppendProperties
<1>6. QueueOK'
  <2>1. ASSUME NEW i \in 1..Len(queue')
        PROVE  queue'[i].seen = queue'[i].input.revision
    <3>1. i \in 1..Len(queue) \/ i = Len(queue) + 1
        BY <1>4, <1>5
    <3> QED BY <1>3, <1>5, <3>1 DEF QueueOK
  <2> QED BY <2>1 DEF QueueOK
<1>7. queue # <<>> => Panel!Task' = Panel!Task
    BY <1>1, <1>2, <1>4, HeadTailAppend DEF Panel!Task
<1>8. queue' # <<>>
    BY <1>4, <1>5, EmptySeq
<1>9. StageOK'
  <2>1. CASE writing = "queued"
    BY <1>1, <2>1 DEF StageOK
  <2>2. CASE queue # <<>>
    BY <1>1, <1>7, <1>8, <2>2 DEF StageOK, Panel!CurrentRevision, Panel!SameSettings
  <2> QED BY <2>1, <2>2 DEF StageOK
<1>10. RecordedOK'
    BY <1>1 DEF RecordedOK
<1>11. Panel!TypeOK'
    BY <1>1, <1>5 DEF Panel!TypeOK
<1> QED BY <1>1, <1>6, <1>9, <1>10, <1>11

----------------------------------------------------------------------------
(* The running save.                                                        *)

LEMMA CompareKept ==
    ASSUME LimitsInv, Panel!LimitsParameters, Panel!Compare
    PROVE  LimitsInv'
<1>1. /\ queue # <<>> /\ writing = "queued"
      /\ UNCHANGED <<policy, Panel!panelVars, lost, restarts>>
      /\ lost' \in 0..MaxLost /\ policy \in Panel!Input
    BY DEF Panel!Compare, LimitsInv, Panel!TypeOK
<1>2. CASE Panel!Settle(None)
    BY <1>1, <1>2, SettleKept DEF Panel!IsChange
<1>3. CASE Panel!CurrentRevision(Panel!Task.input) /\ Panel!Settle(policy)
  <2>1. ~Panel!IsChange(policy)
    BY <1>3 DEF Panel!IsChange, Panel!CurrentRevision
  <2> QED BY <1>1, <1>3, <2>1, SettleKept
<1>4. CASE /\ Panel!CurrentRevision(Panel!Task.input) /\ ~Panel!SameSettings(Panel!Task.input)
           /\ writing' = "compared" /\ UNCHANGED <<queue, recorded, answers>>
  <2>1. UNCHANGED <<policy, queue, recorded, data, polled, draft, saves,
                    answers, lost, restarts>>
    BY <1>1, <1>4 DEF Panel!panelVars
  <2>2. /\ Panel!Task' = Panel!Task
        /\ Panel!CurrentRevision(Panel!Task.input)' /\ (~Panel!SameSettings(Panel!Task.input))'
    BY <1>4, <2>1 DEF Panel!Task, Panel!CurrentRevision, Panel!SameSettings
  <2>3. StageOK'
    BY <1>1, <1>4, <2>1, <2>2 DEF StageOK
  <2>4. QueueOK' /\ RecordedOK'
    BY <1>4, <2>1 DEF LimitsInv, QueueOK, RecordedOK
  <2>5. Panel!TypeOK'
    BY <1>4, <2>1 DEF LimitsInv, Panel!TypeOK
  <2> QED BY <2>1, <2>3, <2>4, <2>5 DEF LimitsInv
<1> QED BY <1>2, <1>3, <1>4 DEF Panel!Compare

LEMMA CompareFailsKept ==
    ASSUME LimitsInv, Panel!LimitsParameters, Panel!CompareFails
    PROVE  LimitsInv'
<1>1. /\ queue # <<>> /\ Panel!Settle(None) /\ UNCHANGED <<policy, Panel!panelVars>>
      /\ lost' \in 0..MaxLost /\ restarts' = restarts
    BY DEF Panel!CompareFails, Panel!Fail, LimitsInv, Panel!TypeOK, Panel!LimitsParameters
<1> QED BY <1>1, SettleKept DEF Panel!IsChange

LEMMA SyncFailsKept ==
    ASSUME LimitsInv, Panel!LimitsParameters, Panel!SyncFails
    PROVE  LimitsInv'
<1>1. /\ queue # <<>> /\ Panel!Settle(None) /\ UNCHANGED <<policy, Panel!panelVars>>
      /\ lost' \in 0..MaxLost /\ restarts' = restarts
    BY DEF Panel!SyncFails, Panel!Fail, LimitsInv, Panel!TypeOK, StageOK, Panel!LimitsParameters
<1> QED BY <1>1, SettleKept DEF Panel!IsChange

LEMMA SavedKept ==
    ASSUME LimitsInv, Panel!LimitsParameters, Panel!Saved
    PROVE  LimitsInv'
<1>1. /\ queue # <<>> /\ Panel!Settle(policy) /\ UNCHANGED <<policy, Panel!panelVars>>
      /\ lost' \in 0..MaxLost /\ restarts' = restarts
      /\ writing = "renamed" /\ policy \in Panel!Input
    BY DEF Panel!Saved, LimitsInv, Panel!TypeOK, StageOK
<1> QED BY <1>1, SettleKept

\* The file is replaced: what the save compared before its await still holds,
\* since no other save has run meanwhile.
LEMMA RenameReplaces ==
    ASSUME LimitsInv, Panel!Rename
    PROVE  /\ queue # <<>>
           /\ Panel!Task.seen = policy.revision
           /\ policy'.settings # policy.settings
<1>1. /\ queue # <<>> /\ Panel!CurrentRevision(Panel!Task.input)
      /\ ~Panel!SameSettings(Panel!Task.input)
    BY DEF Panel!Rename, LimitsInv, StageOK
<1>2. Panel!Task.seen = Panel!Task.input.revision
    BY <1>1, TaskTyped DEF LimitsInv, QueueOK
<1>3. policy'.settings = Panel!Task.input.settings
    BY DEF Panel!Rename
<1> QED BY <1>1, <1>2, <1>3 DEF Panel!CurrentRevision, Panel!SameSettings

LEMMA RenameKept ==
    ASSUME LimitsInv, Panel!Rename
    PROVE  LimitsInv'
<1>1. /\ queue # <<>> /\ Panel!CurrentRevision(Panel!Task.input)
      /\ UNCHANGED <<queue, recorded, data, polled, draft, saves, answers, lost, restarts>>
      /\ writing' = "renamed" /\ writing = "compared"
    BY DEF Panel!Rename, LimitsInv, StageOK, Panel!panelVars
<1>2. Panel!Task' = Panel!Task /\ Panel!Task.input \in Panel!Input
    BY <1>1, TaskTyped DEF LimitsInv, Panel!Task, Panel!Save
<1>3. policy \in Panel!Input /\ policy.revision \in Nat /\ policy.revision >= 1
    BY DEF LimitsInv, Panel!TypeOK, Panel!Input
<1>4. /\ policy' = [revision |-> policy.revision + 1, settings |-> Panel!Task.input.settings]
      /\ policy'.revision = policy.revision + 1
    BY DEF Panel!Rename
<1>5. policy' \in Panel!Input
    BY <1>2, <1>3, <1>4 DEF Panel!Input
<1>6. Panel!TypeOK'
    BY <1>1, <1>5 DEF LimitsInv, Panel!TypeOK
<1>7. Panel!Task.input.revision = policy.revision
    BY <1>1 DEF Panel!CurrentRevision
<1>8. StageOK'
    BY <1>1, <1>2, <1>3, <1>4, <1>7 DEF StageOK
<1>9. QueueOK'
    BY <1>1 DEF LimitsInv, QueueOK
<1>10. RecordedOK'
  <2>1. \A i \in 1..Len(recorded) : recorded[i] \in 2..policy.revision
    BY DEF LimitsInv, RecordedOK
  <2>2. \A i \in 1..Len(recorded) : /\ recorded[i] \in 2..policy'.revision
                                    /\ recorded[i] < policy'.revision
    BY <1>3, <1>4, <2>1
  <2> QED BY <1>1, <2>2 DEF LimitsInv, RecordedOK
<1> QED BY <1>3, <1>4, <1>6, <1>8, <1>9, <1>10 DEF LimitsInv

LEMMA ProcessEndKept ==
    ASSUME LimitsInv, Panel!LimitsParameters, Panel!Crash
    PROVE  LimitsInv'
<1>1. /\ queue' = <<>> /\ writing' = "queued" /\ answers' = {}
      /\ UNCHANGED <<policy, recorded, data, polled, draft, saves, lost>>
      /\ restarts' \in 0..MaxRestarts
    BY DEF Panel!Crash, Panel!panelVars, LimitsInv, Panel!TypeOK, Panel!LimitsParameters
<1>2. queue' \in Seq(Panel!Save) /\ Len(queue') = 0
    BY <1>1, EmptySeq
<1>3. QueueOK' /\ StageOK'
    BY <1>1, <1>2 DEF QueueOK, StageOK
<1>4. RecordedOK'
    BY <1>1 DEF LimitsInv, RecordedOK
<1>5. Panel!TypeOK'
    BY <1>1, <1>2 DEF LimitsInv, Panel!TypeOK
<1> QED BY <1>1, <1>3, <1>4, <1>5 DEF LimitsInv

----------------------------------------------------------------------------
(* The results about the policy.                                             *)

LEMMA InitLimits ==
    ASSUME Panel!LimitsParameters, Panel!Init
    PROVE  LimitsInv
<1>1. policy = [revision |-> 1, settings |-> InitialSettings] /\ policy \in Panel!Input
    BY DEF Panel!Init, Panel!Input, Panel!LimitsParameters
<1>2. /\ queue = <<>> /\ recorded = <<>> /\ writing = "queued"
      /\ queue \in Seq(Panel!Save) /\ recorded \in Seq(Nat) /\ Len(queue) = 0 /\ Len(recorded) = 0
    BY EmptySeq DEF Panel!Init
<1>3. Panel!TypeOK
    BY <1>1, <1>2 DEF Panel!Init, Panel!TypeOK, Panel!LimitsParameters
<1> QED BY <1>1, <1>2, <1>3 DEF LimitsInv, QueueOK, StageOK, RecordedOK

LEMMA StepLimits ==
    ASSUME Panel!LimitsParameters, LimitsInv, [Panel!Next]_Panel!vars
    PROVE  LimitsInv'
<1>1. CASE UNCHANGED Panel!vars
  <2>1. /\ UNCHANGED Panel!storeVars /\ UNCHANGED Panel!panelVars
        /\ UNCHANGED <<answers, lost, restarts>>
    BY <1>1 DEF Panel!vars
  <2>2. Panel!TypeOK'
    BY <2>1 DEF LimitsInv, Panel!TypeOK, Panel!storeVars, Panel!panelVars
  <2> QED BY <2>1, <2>2, PanelsKeep
<1>2. CASE \E p \in Panels : \/ \E s \in Settings : Panel!Edit(p, s)
                             \/ Panel!Reload(p) \/ Panel!Poll(p)
                             \/ Panel!PollArrives(p) \/ Panel!Submit(p)
    BY <1>2, EditKept, ReloadKept, PollKept, PollArrivesKept, SubmitKept
<1>3. CASE \E a \in answers : Panel!AnswerArrives(a) \/ Panel!AnswerLost(a)
    BY <1>3, AnswerArrivesKept, AnswerLostKept
<1>4. CASE Panel!StoreStep
    BY <1>4, CompareKept, CompareFailsKept, RenameKept, SyncFailsKept, SavedKept DEF Panel!StoreStep
<1>5. CASE Panel!Crash
    BY <1>5, ProcessEndKept
<1> QED BY <1>1, <1>2, <1>3, <1>4, <1>5 DEF Panel!Next

\* Only the rename replaces the file.
LEMMA PolicySteps ==
    ASSUME [Panel!Next]_Panel!vars, policy' # policy
    PROVE  Panel!Rename
BY DEF Panel!Next, Panel!vars, Panel!storeVars, Panel!StoreStep, Panel!Edit, Panel!Reload,
       Panel!Poll, Panel!PollArrives, Panel!Submit, Panel!AnswerArrives, Panel!AnswerLost,
       Panel!Compare, Panel!CompareFails, Panel!SyncFails, Panel!Saved, Panel!Crash

LEMMA SpecLimits ==
    ASSUME Panel!LimitsParameters
    PROVE  Panel!Spec => []LimitsInv
BY InitLimits, StepLimits, PTL DEF Panel!Spec

\* Type correctness of the store, its panels and the answers between them.
THEOREM LimitsTyped ==
    ASSUME Panel!LimitsParameters
    PROVE  Panel!Spec => []Panel!TypeOK
<1>1. LimitsInv => Panel!TypeOK
    BY DEF LimitsInv
<1> QED BY <1>1, SpecLimits, PTL

\* Every audit record of the route names a revision that a save made, and no
\* two name the same (docs 012).
THEOREM RecordsNameChanges ==
    ASSUME Panel!LimitsParameters
    PROVE  Panel!Spec => []Panel!RecordsAreChanges
<1>1. LimitsInv => Panel!RecordsAreChanges
  <2> SUFFICES ASSUME LimitsInv
               PROVE  Panel!RecordsAreChanges
    OBVIOUS
  <2>1. DOMAIN recorded = 1..Len(recorded)
    BY LenProperties DEF LimitsInv, Panel!TypeOK
  <2> QED BY <2>1 DEF LimitsInv, RecordedOK, Panel!RecordsAreChanges
<1> QED BY <1>1, SpecLimits, PTL

\* A save replaces only the policy that its administrator saw when the editing
\* began (docs 012), although comparing and replacing are two awaits and other
\* saves, polls and answers go on between them.
THEOREM UpdateNotLost ==
    ASSUME Panel!LimitsParameters
    PROVE  Panel!Spec => Panel!NoLostUpdate
<1>1. LimitsInv /\ [Panel!Next]_Panel!vars
        => [policy' # policy => queue # <<>> /\ Panel!Task.seen = policy.revision]_Panel!vars
    BY PolicySteps, RenameReplaces
<1> QED BY <1>1, SpecLimits, PTL DEF Panel!Spec, Panel!NoLostUpdate

\* A save of the settings in force replaces nothing: every new revision of the
\* file has other settings than the one before (docs 012).
THEOREM ChangesReal ==
    ASSUME Panel!LimitsParameters
    PROVE  Panel!Spec => Panel!ChangesAreReal
<1>1. LimitsInv /\ [Panel!Next]_Panel!vars
        => [policy' # policy => policy'.settings # policy.settings]_Panel!vars
    BY PolicySteps, RenameReplaces
<1> QED BY <1>1, SpecLimits, PTL DEF Panel!Spec, Panel!ChangesAreReal
=============================================================================
