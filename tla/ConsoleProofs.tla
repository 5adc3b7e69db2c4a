----------------------------- MODULE ConsoleProofs -----------------------------
(***************************************************************************)
(* Proofs about what the console shows and who may see it: the session, the *)
(* shared reports and proxies, the list of the input page, the settings     *)
(* form, the confirmations and the configuration that the form puts.  The   *)
(* session is extended and keeps its names, as in MCProgress; each of the   *)
(* others is an instance with variables of its own.                         *)
(***************************************************************************)
EXTENDS Session, Integers, Sequences, SequenceTheorems, FiniteSetTheorems, TLAPS

CONSTANTS
    AccountSets, Nobody, MaxAge, MaxSaves,                                  \* InfrastructureCache
    Ranges, Filters, Refusals, Times, None, MaxPages, MaxRevision, MaxEntries, \* PromptPage
    Clients, Accounts, GroupLists, Shared, Wait, Statement, MaxResults, Reads, \* AnalyticsCache
    Targets, Typed, Exclusive, ReducedMotion, MaxSent,                      \* Confirmation
    Groups, Emails, Active, Opened, MaxAccounts, MaxEdits,                  \* SettingsForm
    Forms, Written, Trimmed, Lower, Keys, Labels, Timezones, Nothing        \* Config

VARIABLES
    accounts, saves, readFor, value, age, refreshing, polled, shown,        \* InfrastructureCache
    range, page, queryRevision, filter, time, applied, entry, previous,     \* PromptPage
    groupsOf, client, report, reads, reading, results, connection, queries, \* AnalyticsCache
    target, closing, entered, standing, variable, inFlight, observed, sent, \* Confirmation
    draft, savedConfig, sending, failed, options, edits,                    \* SettingsForm
    config, file                                                            \* Config

Proxies == INSTANCE InfrastructureCache WITH key <- readFor, pending <- refreshing
List == INSTANCE PromptPage
Reports == INSTANCE AnalyticsCache WITH
    config <- groupsOf, answer <- report, pending <- reading, queue <- queries
Form == INSTANCE SettingsForm
Dialog == INSTANCE Confirmation WITH value <- entered, status <- standing
Configuring == INSTANCE Config

----------------------------------------------------------------------------
(* The session.                                                             *)

Auths == Pairs \cup {NoPair}
Changes == {"none", "set", "deleted", "challenge"}
Statuses == {0, 200, 400, 401, 403, 500, 502, 503}
RequestType ==
    [stage : Stages, kind : Kinds, auth : Auths, change : Changes,
     status : Statuses, turned : BOOLEAN]

\* A request behind the check of the session has a pair, and only a login gets
\* to the event.
RequestOK(q) ==
    /\ q \in RequestType
    /\ q.kind \in Logins \/ q.status \in {0, 200, 401, 403, 503}
    /\ q.stage = "idle" => q = Idle
    /\ q.kind = "none" => q.stage = "idle"
    /\ q.stage = "event" => q.kind \in Logins
    /\ q.stage \in {"refresh", "check", "refreshAgain", "checkAgain", "handler"} =>
          q.kind \notin Logins /\ q.auth \in Pairs

RequestsOK ==
    /\ req \in [Requests -> RequestType]
    /\ \A r \in Requests : RequestOK(req[r])

\* A refresh token that is valid was given with its pair.
UpstreamOK ==
    /\ access \subseteq Pairs /\ refresh \subseteq Pairs /\ due \subseteq access
    /\ given \in [Pairs -> SUBSET Parts] /\ members \subseteq Pairs
    /\ \A p \in refresh : "refresh" \in given[p]

PageOK ==
    /\ admin \in BOOLEAN
    /\ cookie \in Pairs \cup {NoPair} /\ ended \in Pairs \cup {NoPair}
    /\ tab \in {"loading", "login", "unavailable", "challenge", "console"} /\ stale \in BOOLEAN
    /\ fragment \in {"none", "tokens", "error"} /\ faults \in 0..MaxFaults

\* No pair of another account than an administrator's is kept, not even for the
\* time of a request.
NoMember == cookie \notin members /\ \A r \in Requests : req[r].auth \notin members

\* A refresh is asked for only when the access token is worn, or was taken for it.
WornOK(q) ==
    /\ q.stage = "refresh" => q.auth \notin access \ due
    /\ q.stage = "refreshAgain" => q.auth \notin access \/ q.turned
Worn == \A r \in Requests : WornOK(req[r])

SessionInv == UpstreamOK /\ PageOK /\ RequestsOK /\ NoMember /\ Worn

LEMMA PairsAreNumbers ==
    ASSUME SessionParameters
    PROVE  NoPair \notin Pairs /\ 0 \in 0..MaxFaults
BY DEF SessionParameters, NoPair, Pairs

LEMMA SessionInvTypes ==
    ASSUME SessionInv
    PROVE  TypeOK /\ OnlyAdmins
<1>1. TypeOK
    BY DEF SessionInv, UpstreamOK, PageOK, RequestsOK, RequestOK, RequestType, Auths, Changes,
       Statuses, TypeOK
<1>2. OnlyAdmins
    BY DEF SessionInv, NoMember, OnlyAdmins
<1> QED BY <1>1, <1>2

\* One request is replaced by another.
LEMMA Replaced ==
    ASSUME NEW f \in [Requests -> RequestType], \A s \in Requests : RequestOK(f[s]),
           NEW r \in Requests, NEW q, RequestOK(q)
    PROVE  /\ [f EXCEPT ![r] = q] \in [Requests -> RequestType]
           /\ \A s \in Requests : RequestOK([f EXCEPT ![r] = q][s])
           /\ [f EXCEPT ![r] = q][r] = q
           /\ \A s \in Requests \ {r} : [f EXCEPT ![r] = q][s] = f[s]
<1>1. q \in RequestType
    BY DEF RequestOK
<1>2. \A s \in Requests : [f EXCEPT ![r] = q][s] = IF s = r THEN q ELSE f[s]
    OBVIOUS
<1> QED BY <1>1, <1>2

\* A new pair: nothing else becomes valid, and no pair in use changes hands.
LEMMA Issued ==
    ASSUME UpstreamOK, NEW p \in Fresh, NEW parts \in SUBSET Parts,
           NEW member \in BOOLEAN, Issue(p, parts, member),
           refresh' \subseteq (refresh \cap Held)
                                 \cup (IF "refresh" \in parts THEN {p} ELSE {})
    PROVE  /\ UpstreamOK'
           /\ p \in Pairs /\ p \notin Held
           /\ p \in members' => member
           /\ \A q \in Held : /\ q \in members' => q \in members
                              /\ q \in access' => q \in access
                              /\ q \in access /\ q \in due => q \in due'
                              /\ q \in refresh' => q \in refresh
<1>1. p \in Pairs /\ p \notin Held
    BY DEF Fresh
<1>2. /\ access' = (access \cap Held) \cup {p} /\ due' = due \cap Held
      /\ given' = [q \in Pairs |->
            IF q = p THEN parts ELSE IF q \in Held THEN given[q] ELSE {}]
      /\ members' = (members \cap Held) \cup (IF member THEN {p} ELSE {})
    BY DEF Issue
<1>3. /\ access' \subseteq Pairs /\ refresh' \subseteq Pairs
      /\ due' \subseteq access' /\ members' \subseteq Pairs
    BY <1>1, <1>2 DEF UpstreamOK
<1>4. given' \in [Pairs -> SUBSET Parts]
    BY <1>2 DEF UpstreamOK
<1>5. ASSUME NEW q \in refresh' PROVE "refresh" \in given'[q]
    BY <1>1, <1>2, <1>3, <1>5 DEF UpstreamOK
<1>6. UpstreamOK'
    BY <1>3, <1>4, <1>5 DEF UpstreamOK
<1> QED BY <1>1, <1>2, <1>6

LEMMA InHeld ==
    /\ cookie \in Held /\ ended \in Held
    /\ \A r \in Requests : req[r].auth \in Held
BY DEF Held

\* A request that goes on, or is answered.
LEMMA Answered ==
    ASSUME NEW Stage, NEW Kind, NEW Auth, NEW Change, NEW Status, NEW Turned,
           NEW q \in [stage : Stage, kind : Kind, auth : Auth, change : Change, status : Status,
                      turned : Turned],
           NEW stage \in Stage, NEW status \in Status, NEW change \in Change
    PROVE  LET a == [q EXCEPT !.stage = stage, !.status = status, !.change = change]
           IN  /\ a \in [stage : Stage, kind : Kind, auth : Auth, change : Change,
                         status : Status, turned : Turned]
               /\ a.auth = q.auth /\ a.kind = q.kind /\ a.turned = q.turned
               /\ a.stage = stage /\ a.status = status /\ a.change = change
OBVIOUS

LEMMA AnsweredPlainly ==
    ASSUME NEW Stage, NEW Kind, NEW Auth, NEW Change, NEW Status, NEW Turned,
           NEW q \in [stage : Stage, kind : Kind, auth : Auth, change : Change, status : Status,
                      turned : Turned],
           NEW stage \in Stage, NEW status \in Status
    PROVE  LET a == [q EXCEPT !.stage = stage, !.status = status]
           IN  /\ a \in [stage : Stage, kind : Kind, auth : Auth, change : Change,
                         status : Status, turned : Turned]
               /\ a.auth = q.auth /\ a.kind = q.kind /\ a.turned = q.turned
               /\ a.stage = stage /\ a.status = status /\ a.change = q.change
OBVIOUS

\* An answer is a request of its type.
Plain(q, status) == [q EXCEPT !.stage = "reply", !.status = status]
Deletion(q, status) == [q EXCEPT !.stage = "reply", !.status = status, !.change = "deleted"]

LEMMA AnswerTyped ==
    ASSUME NEW q \in RequestType, NEW status \in Statuses
    PROVE  LET a == Plain(q, status) IN
           /\ a \in RequestType /\ a.auth = q.auth /\ a.kind = q.kind /\ a.turned = q.turned
           /\ a.stage = "reply" /\ a.status = status /\ a.change = q.change
<1>1. "reply" \in Stages
    BY DEF Stages
<1> QED BY <1>1, AnsweredPlainly DEF RequestType, Plain

LEMMA DeletionTyped ==
    ASSUME NEW q \in RequestType, NEW status \in Statuses
    PROVE  LET a == Deletion(q, status) IN
           /\ a \in RequestType /\ a.auth = q.auth /\ a.kind = q.kind /\ a.turned = q.turned
           /\ a.stage = "reply" /\ a.status = status /\ a.change = "deleted"
<1>1. "reply" \in Stages /\ "deleted" \in Changes
    BY DEF Stages, Changes
<1> QED BY <1>1, Answered DEF RequestType, Deletion

\* Fields of a request that are set one by one.
LEMMA AnswerFields ==
    ASSUME NEW T, NEW f \in [Requests -> T], NEW r \in Requests, NEW stage, NEW status
    PROVE  [f EXCEPT ![r].stage = stage, ![r].status = status]
             = [f EXCEPT ![r] = [f[r] EXCEPT !.stage = stage, !.status = status]]
BY Zenon

LEMMA AnswerAndChange ==
    ASSUME NEW T, NEW f \in [Requests -> T], NEW r \in Requests, NEW stage, NEW status, NEW change
    PROVE  [f EXCEPT ![r].stage = stage, ![r].status = status, ![r].change = change]
             = [f EXCEPT ![r] = [f[r] EXCEPT !.stage = stage, !.status = status, !.change = change]]
BY Zenon

LEMMA ChangeAndStage ==
    ASSUME NEW T, NEW f \in [Requests -> T], NEW r \in Requests, NEW stage, NEW change
    PROVE  [f EXCEPT ![r].change = change, ![r].stage = stage]
             = [f EXCEPT ![r] = [f[r] EXCEPT !.change = change, !.stage = stage]]
BY Zenon

LEMMA NewPair ==
    ASSUME NEW T, NEW f \in [Requests -> T], NEW r \in Requests, NEW stage, NEW auth, NEW change
    PROVE  [f EXCEPT ![r].stage = stage, ![r].auth = auth, ![r].change = change]
             = [f EXCEPT ![r] = [f[r] EXCEPT !.stage = stage, !.auth = auth, !.change = change]]
BY Zenon

\* requireAdmin answers.
LEMMA DeniedOK ==
    ASSUME RequestsOK, NEW r \in Requests, req[r].kind \notin Logins,
           req[r].stage # "idle", NEW status
    PROVE  /\ RequestOK(Denied(r, status))
           /\ Denied(r, status).auth = req[r].auth
           /\ Denied(r, status).kind = req[r].kind
           /\ Denied(r, status).turned = req[r].turned
           /\ Denied(r, status).stage = "reply"
           /\ Denied(r, status).change =
                 IF status \in {401, 403} THEN "deleted" ELSE req[r].change
<1> DEFINE a == Denied(r, status)
<1>1. req[r] \in RequestType /\ req[r].kind # "none"
    BY DEF RequestsOK, RequestOK
<1>2. "reply" \in Stages /\ 503 \in Statuses /\ "deleted" \in Changes
    BY DEF Stages, Statuses, Changes
<1>3. CASE status \in {401, 403}
  <2>1. status \in Statuses /\ a = [req[r] EXCEPT !.stage = "reply", !.status = status, !.change = "deleted"]
      BY <1>3 DEF Denied, Statuses
  <2>2. /\ a \in RequestType /\ a.auth = req[r].auth /\ a.kind = req[r].kind
        /\ a.turned = req[r].turned /\ a.stage = "reply" /\ a.status = status /\ a.change = "deleted"
    <3> HIDE DEF a
    <3> QED BY <1>1, <1>2, <2>1, Answered DEF RequestType
  <2>3. RequestOK(a)
      BY <1>1, <1>3, <2>2 DEF RequestOK
  <2> QED BY <1>3, <2>2, <2>3
<1>4. CASE status \notin {401, 403}
  <2> DEFINE st == 503
  <2>1. st \in Statuses /\ a = [req[r] EXCEPT !.stage = "reply", !.status = st]
      BY <1>4 DEF Denied, Statuses
  <2>2. /\ a \in RequestType /\ a.auth = req[r].auth /\ a.kind = req[r].kind
        /\ a.turned = req[r].turned /\ a.stage = "reply" /\ a.status = st /\ a.change = req[r].change
    <3> HIDE DEF a, st
    <3> QED BY <1>1, <1>2, <2>1, AnsweredPlainly DEF RequestType
  <2>3. RequestOK(a)
      BY <1>1, <2>2 DEF RequestOK
  <2> QED BY <1>4, <2>2, <2>3
<1> QED BY <1>3, <1>4

\* A step that leaves what is upstream alone replaces a request by one with its
\* pair.
LEMMA RequestMoves ==
    ASSUME SessionInv, NEW r \in Requests, NEW q, RequestOK(q), q.auth = req[r].auth, WornOK(q),
           req' = [req EXCEPT ![r] = q], UNCHANGED <<access, due, given, members, cookie>>,
           refresh' \subseteq refresh, PageOK'
    PROVE  SessionInv'
<1>1. RequestsOK' /\ \A s \in Requests : req'[s].auth = req[s].auth
    BY Replaced DEF SessionInv, RequestsOK
<1>2. UpstreamOK'
    BY DEF SessionInv, UpstreamOK
<1>3. NoMember'
    BY <1>1 DEF SessionInv, NoMember
<1>4. Worn'
    BY Replaced DEF SessionInv, RequestsOK, Worn, WornOK
<1> QED BY <1>1, <1>2, <1>3, <1>4 DEF SessionInv

\* The same, when a new pair was issued.
LEMMA RequestRenewed ==
    ASSUME SessionInv, NEW r \in Requests, NEW p \in Fresh,
           NEW parts \in SUBSET Parts, NEW member \in BOOLEAN,
           Issue(p, parts, member),
           refresh' \subseteq (refresh \cap Held)
                                 \cup (IF "refresh" \in parts THEN {p} ELSE {}),
           NEW q, RequestOK(q),
           \/ q.auth = req[r].auth /\ WornOK(q)
           \/ q.auth = p /\ (p \in members' => ~member) /\ q.stage \notin {"refresh", "refreshAgain"},
           req' = [req EXCEPT ![r] = q], UNCHANGED cookie, PageOK'
    PROVE  SessionInv'
<1>1. /\ UpstreamOK' /\ (p \in members' => member)
      /\ \A x \in Held : x \in members' => x \in members
    BY Issued DEF SessionInv
<1>2. RequestsOK' /\ req'[r].auth = q.auth /\ \A s \in Requests \ {r} : req'[s].auth = req[s].auth
    BY Replaced DEF SessionInv, RequestsOK
<1>3. NoMember'
    BY <1>1, <1>2, InHeld DEF SessionInv, NoMember
<1>4. Worn'
  <2>1. /\ req'[r] = q /\ \A s \in Requests \ {r} : req'[s] = req[s]
      BY Replaced DEF SessionInv, RequestsOK
  <2>2. \A x \in Held : /\ x \in access' => x \in access
                        /\ x \in access /\ x \in due => x \in due'
      BY Issued DEF SessionInv
  <2>3. ASSUME NEW s \in Requests
        PROVE  /\ req'[s].stage = "refresh" => req'[s].auth \notin access' \ due'
               /\ req'[s].stage = "refreshAgain" =>
                     req'[s].auth \notin access' \/ req'[s].turned
    <3>1. WornOK(req[s]) /\ req[s].auth \in Held /\ req[r].auth \in Held
        BY InHeld DEF SessionInv, Worn
    <3>2. req'[s] = req[s] \/ req'[s] = q
        BY <2>1
    <3>3. ASSUME NEW x \in Held
          PROVE  /\ x \notin access \ due => x \notin access' \ due'
                 /\ x \notin access => x \notin access'
        BY <2>2
    <3>4. CASE req'[s] = req[s]
        BY <3>1, <3>3, <3>4 DEF WornOK
    <3>5. CASE req'[s] = q
        BY <3>1, <3>3, <3>5 DEF WornOK
    <3> QED BY <3>2, <3>4, <3>5
  <2> QED BY <2>3 DEF Worn, WornOK
<1> QED BY <1>1, <1>2, <1>3, <1>4 DEF SessionInv

\* What is not a request's step: time, the administrator, the page.
LEMMA SurroundingsKept ==
    ASSUME SessionParameters, SessionInv,
           \/ \E p \in Pairs : Age(p) \/ Lapse(p)
           \/ Revoke \/ Return \/ Load \/ UNCHANGED vars
    PROVE  /\ SessionInv'
           /\ UNCHANGED <<req, cookie, ended>> /\ (~admin => ~admin')
           /\ refresh' \subseteq refresh /\ access' \subseteq access
           /\ \A p \in due : p \in due' \/ p \notin access'
<1>1. /\ UNCHANGED <<req, cookie, ended, members, given>> /\ (~admin => ~admin')
      /\ refresh' \subseteq refresh /\ access' \subseteq access /\ due' \subseteq access'
      /\ \A p \in due : p \in due' \/ p \notin access'
      /\ PageOK'
  <2>1. ASSUME NEW p \in Pairs, Age(p) PROVE <1>1!:
      BY <2>1 DEF Age, pageVars, SessionInv, UpstreamOK, PageOK
  <2>2. ASSUME NEW p \in Pairs, Lapse(p) PROVE <1>1!:
      BY <2>2 DEF Lapse, pageVars, SessionInv, UpstreamOK, PageOK
  <2>3. CASE Revoke
      BY <2>3 DEF Revoke, upstreamVars, pageVars, SessionInv, UpstreamOK,
         PageOK
  <2>4. CASE Return
      BY <2>4 DEF Return, upstreamVars, SessionInv, UpstreamOK, PageOK
  <2>5. CASE Load
      BY <2>5 DEF Load, ReturnFromProvider, upstreamVars, SessionInv,
         UpstreamOK, PageOK
  <2>6. CASE UNCHANGED vars
      BY <2>6 DEF vars, upstreamVars, pageVars, SessionInv, UpstreamOK,
         PageOK
  <2> QED BY <2>1, <2>2, <2>3, <2>4, <2>5, <2>6
<1>2. UpstreamOK'
    BY <1>1 DEF SessionInv, UpstreamOK
<1>3. RequestsOK' /\ NoMember' /\ Worn'
    BY <1>1 DEF SessionInv, RequestsOK, NoMember, Worn, WornOK
<1> QED BY <1>1, <1>2, <1>3 DEF SessionInv

----------------------------------------------------------------------------
(* The steps of the server, as what becomes of a request. *)

\* Another stage, with or without a cookie to set.
LEMMA StageMoves ==
    ASSUME NEW q \in RequestType, NEW stage \in Stages
    PROVE  LET a == [q EXCEPT !.stage = stage]
           IN  /\ a \in RequestType /\ a.auth = q.auth /\ a.kind = q.kind
               /\ a.stage = stage /\ a.status = q.status /\ a.change = q.change
               /\ a.turned = q.turned
BY DEF RequestType

\* A request that goes on with its pair: the cookie is to be deleted only when
\* the pair is of no use any more, when the administrator is none, or when the
\* request was turned away, which stays known.
Proceeds(r, q) ==
    /\ RequestOK(q) /\ q.kind = req[r].kind /\ q.auth = req[r].auth
    /\ req[r].kind \notin Logins \cup {"none"}
    /\ WornOK(q) /\ q.stage # "checkAgain"
    /\ q.turned \in BOOLEAN /\ (req[r].turned => q.turned)
    /\ \/ q.change = req[r].change
       \/ q.change = "set" /\ q.auth \in Pairs
       \/ /\ q.change = "deleted"
          /\ ~Usable(q.auth) \/ ~admin \/ req[r].stage = "checkAgain"
             \/ req[r].kind = "logout" \/ q.turned

LEMMA DeniedProceeds ==
    ASSUME SessionInv, NEW r \in Requests, req[r].kind \notin Logins,
           req[r].stage # "idle", NEW status,
           \/ status \notin {401, 403}
           \/ ~Usable(req[r].auth) \/ ~admin \/ req[r].stage = "checkAgain" \/ req[r].turned
    PROVE  Proceeds(r, Denied(r, status))
<1> DEFINE a == Denied(r, status)
<1>1. /\ RequestOK(a) /\ a.auth = req[r].auth /\ a.kind = req[r].kind /\ a.stage = "reply"
      /\ a.change = IF status \in {401, 403} THEN "deleted" ELSE req[r].change
      /\ a.turned = req[r].turned
    BY DeniedOK DEF SessionInv
<1>2. req[r].kind # "none" /\ req[r].turned \in BOOLEAN
    BY DEF SessionInv, RequestsOK, RequestOK, RequestType
<1> HIDE DEF a
<1>3. Proceeds(r, a)
    BY <1>1, <1>2 DEF Proceeds, WornOK
<1> QED BY <1>3 DEF a

\* A request that was turned away by an answer that says nothing of its pair.
LEMMA TurnedTyped ==
    ASSUME NEW q \in RequestType, NEW turned \in BOOLEAN
    PROVE  LET a == [q EXCEPT !.turned = turned] IN
           /\ a \in RequestType /\ a.auth = q.auth /\ a.kind = q.kind /\ a.stage = q.stage
           /\ a.status = q.status /\ a.change = q.change /\ a.turned = turned
BY DEF RequestType

\* What is refused goes on with a refresh, once.
LEMMA AgainTyped ==
    ASSUME NEW q \in RequestType
    PROVE  LET a == [q EXCEPT !.stage = "refreshAgain"] IN
           /\ a \in RequestType /\ a.auth = q.auth /\ a.kind = q.kind
           /\ a.stage = "refreshAgain" /\ a.status = q.status /\ a.change = q.change
           /\ a.turned = q.turned
<1>1. "refreshAgain" \in Stages
    BY DEF Stages
<1> QED BY <1>1, StageMoves

LEMMA ArriveStep ==
    ASSUME SessionParameters, SessionInv, NEW r \in Requests, Arrive(r)
    PROVE  \E q : Proceeds(r, q) /\ req' = [req EXCEPT ![r] = q]
<1>1. /\ req[r].stage = "sent" /\ req[r].kind \notin Logins
      /\ req[r] \in RequestType /\ req[r].kind # "none" /\ req[r].status \in {0, 200, 401, 403, 503}
      /\ req[r].turned \in BOOLEAN
    BY DEF Arrive, SessionInv, RequestsOK, RequestOK, RequestType
<1> DEFINE p == req[r].auth
<1>2. p \in Pairs \cup {NoPair}
    BY <1>1 DEF RequestType, Auths
<1>3. CASE p = NoPair \/ (Expires(p) /\ ~Renewable(p))
  <2>1. ~Usable(p)
      BY <1>2, <1>3, PairsAreNumbers
         DEF Usable, Expires, Renewable, SessionInv, UpstreamOK
  <2>2. req' = [req EXCEPT ![r] = Denied(r, 401)]
      BY <1>3 DEF Arrive
  <2>3. Proceeds(r, Denied(r, 401))
      BY <1>1, <2>1, DeniedProceeds
  <2> QED BY <2>2, <2>3
<1>4. CASE p # NoPair /\ ~Expires(p)
  <2> DEFINE q == [req[r] EXCEPT !.stage = "check"]
  <2>1. req' = [req EXCEPT ![r] = q]
      BY <1>4 DEF Arrive
  <2>2. "check" \in Stages
      BY DEF Stages
  <2>3. /\ q \in RequestType /\ q.auth = p /\ q.kind = req[r].kind
        /\ q.stage = "check" /\ q.status = req[r].status /\ q.change = req[r].change
        /\ q.turned = req[r].turned
      BY <1>1, <2>2, StageMoves
  <2> HIDE DEF q
  <2>4. Proceeds(r, q)
      BY <1>1, <1>2, <1>4, <2>3 DEF Proceeds, RequestOK, WornOK
  <2> QED BY <2>1, <2>4
<1>5. CASE p # NoPair /\ Expires(p) /\ Renewable(p)
  <2> DEFINE q == [req[r] EXCEPT !.stage = "refresh"]
  <2>1. req' = [req EXCEPT ![r] = q] /\ p \notin access \ due
      BY <1>5 DEF Arrive, Expires
  <2>2. "refresh" \in Stages
      BY DEF Stages
  <2>3. /\ q \in RequestType /\ q.auth = p /\ q.kind = req[r].kind
        /\ q.stage = "refresh" /\ q.status = req[r].status /\ q.change = req[r].change
        /\ q.turned = req[r].turned
      BY <1>1, <2>2, StageMoves
  <2> HIDE DEF q
  <2>4. Proceeds(r, q)
      BY <1>1, <1>2, <1>5, <2>1, <2>3 DEF Proceeds, RequestOK, WornOK
  <2> QED BY <2>1, <2>4
<1> QED BY <1>3, <1>4, <1>5

\* Only what the answer itself says ends a session in trouble.
LEMMA TroubleProceeds ==
    ASSUME SessionParameters, SessionInv, NEW r \in Requests, req[r].kind \notin Logins,
           req[r].stage \in {"refresh", "check", "refreshAgain", "checkAgain"}, Trouble(r)
    PROVE  /\ faults' \in 0..MaxFaults
           /\ \E q : Proceeds(r, q) /\ req' = [req EXCEPT ![r] = q]
<1>1. faults' \in 0..MaxFaults
    BY DEF Trouble, SessionInv, PageOK, SessionParameters
<1>2. PICK status : req' = [req EXCEPT ![r] =
          [Failed(r, status) EXCEPT !.turned = @ \/ status \in {401, 403}]]
    BY DEF Trouble
<1>3. /\ req[r] \in RequestType /\ RequestOK(req[r]) /\ req[r].kind # "none"
      /\ req[r].auth \in Pairs /\ req[r].turned \in BOOLEAN
    BY DEF SessionInv, RequestsOK, RequestOK, RequestType
<1> DEFINE f == Failed(r, status)
           again == status = 401 /\ req[r].stage = "check" /\ Renewable(req[r].auth)
<1>4. /\ f \in RequestType /\ RequestOK(f) /\ f.auth = req[r].auth /\ f.kind = req[r].kind
      /\ f.turned = req[r].turned
      /\ f.stage \in {"reply", "refreshAgain"} /\ (f.stage = "refreshAgain" => status = 401)
      /\ f.change = req[r].change \/ (f.change = "deleted" /\ status \in {401, 403})
  <2>1. CASE again
    <3> DEFINE b == [req[r] EXCEPT !.stage = "refreshAgain"]
    <3>1. f = b
        BY <2>1 DEF Failed
    <3>2. /\ b \in RequestType /\ b.auth = req[r].auth /\ b.kind = req[r].kind
          /\ b.stage = "refreshAgain" /\ b.status = req[r].status
          /\ b.change = req[r].change /\ b.turned = req[r].turned
        BY <1>3, AgainTyped
    <3> HIDE DEF b, f
    <3>3. RequestOK(b)
        BY <1>3, <3>2 DEF RequestOK
    <3> QED BY <2>1, <3>1, <3>2, <3>3
  <2>2. CASE ~again
    <3>1. f = Denied(r, status)
        BY <2>2 DEF Failed
    <3> HIDE DEF f
    <3>2. /\ RequestOK(f) /\ f.auth = req[r].auth /\ f.kind = req[r].kind
          /\ f.turned = req[r].turned /\ f.stage = "reply"
          /\ f.change = IF status \in {401, 403} THEN "deleted" ELSE req[r].change
        BY <3>1, DeniedOK DEF SessionInv
    <3> QED BY <3>2 DEF RequestOK
  <2> QED BY <2>1, <2>2
<1> HIDE DEF f, again
<1> DEFINE t == f.turned \/ status \in {401, 403}
           q == [f EXCEPT !.turned = t]
<1>5. req' = [req EXCEPT ![r] = q] /\ t \in BOOLEAN
    BY <1>2, <1>3, <1>4 DEF f
<1>6. /\ q \in RequestType /\ q.auth = f.auth /\ q.kind = f.kind /\ q.stage = f.stage
      /\ q.status = f.status /\ q.change = f.change /\ q.turned = t
  <2> HIDE DEF t
  <2> QED BY <1>4, <1>5, TurnedTyped
<1>7. t = (req[r].turned \/ status \in {401, 403})
    BY <1>4
<1> HIDE DEF t, q
<1>8. RequestOK(q) /\ q.kind = req[r].kind /\ q.auth = req[r].auth
    BY <1>3, <1>4, <1>6 DEF RequestOK
<1>9. WornOK(q) /\ q.stage # "checkAgain"
    BY <1>4, <1>6, <1>7 DEF WornOK
<1>10. /\ q.turned \in BOOLEAN /\ (req[r].turned => q.turned)
       /\ q.change = req[r].change \/ (q.change = "deleted" /\ q.turned)
  <2>1. q.turned \in BOOLEAN
      BY <1>5, <1>6, Zenon
  <2>2. req[r].turned => q.turned
      BY <1>6, <1>7, Zenon
  <2>3. status \in {401, 403} => q.turned
      BY <1>6, <1>7, Zenon
  <2>4. q.change = req[r].change \/ (q.change = "deleted" /\ status \in {401, 403})
    <3> HIDE DEF f
    <3> QED BY <1>4, <1>6
  <2> QED BY <2>1, <2>2, <2>3, <2>4, Zenon
<1>11. Proceeds(r, q)
    BY <1>3, <1>8, <1>9, <1>10 DEF Proceeds
<1> QED BY <1>1, <1>5, <1>11

LEMMA CheckStep ==
    ASSUME SessionParameters, SessionInv, NEW r \in Requests, Check(r)
    PROVE  /\ faults' \in 0..MaxFaults
           /\ \E q : Proceeds(r, q) /\ req' = [req EXCEPT ![r] = q]
<1> DEFINE p == req[r].auth
<1>1. /\ req[r].stage \in {"check", "checkAgain"} /\ req[r].kind \notin Logins
      /\ p \in Pairs
      /\ req[r] \in RequestType /\ req[r].kind # "none" /\ req[r].status \in {0, 200, 401, 403, 503}
    BY DEF Check, SessionInv, RequestsOK, RequestOK
<1>2. faults \in 0..MaxFaults
    BY DEF SessionInv, PageOK
<1>3. CASE p \in access /\ admin /\ p \notin members
           /\ req' = [req EXCEPT ![r].change = "set", ![r].stage = "handler"] /\ UNCHANGED faults
  <2> DEFINE q == [req[r] EXCEPT !.change = "set", !.stage = "handler"]
  <2>1. req' = [req EXCEPT ![r] = q]
    <3>1. req \in [Requests -> RequestType]
        BY DEF SessionInv, RequestsOK
    <3> QED BY <1>3, <3>1, ChangeAndStage
  <2>2. "handler" \in Stages /\ "set" \in Changes
      BY DEF Stages, Changes
  <2>3. /\ q \in RequestType /\ q.auth = p /\ q.kind = req[r].kind
        /\ q.stage = "handler" /\ q.status = req[r].status /\ q.change = "set"
        /\ q.turned = req[r].turned /\ q.turned \in BOOLEAN
      BY <1>1, <2>2 DEF RequestType
  <2> HIDE DEF q
  <2>4. Proceeds(r, q)
      BY <1>1, <2>3 DEF Proceeds, RequestOK, WornOK
  <2> QED BY <1>2, <1>3, <2>1, <2>4
<1>4. CASE p \in access /\ ~(admin /\ p \notin members)
           /\ req' = [req EXCEPT ![r] = Denied(r, 403)] /\ UNCHANGED faults
  <2>1. ~admin
      BY <1>4 DEF SessionInv, NoMember
  <2>2. Proceeds(r, Denied(r, 403))
      BY <1>1, <2>1, DeniedProceeds
  <2> QED BY <1>2, <1>4, <2>2
<1>5. CASE p \notin access /\ req[r].stage = "check" /\ Renewable(p)
           /\ req' = [req EXCEPT ![r] = Failed(r, 401)] /\ UNCHANGED faults
  <2> DEFINE q == [req[r] EXCEPT !.stage = "refreshAgain"]
  <2>1. req' = [req EXCEPT ![r] = q]
      BY <1>5 DEF Failed
  <2>2. /\ q \in RequestType /\ q.auth = p /\ q.kind = req[r].kind
        /\ q.stage = "refreshAgain" /\ q.status = req[r].status /\ q.change = req[r].change
        /\ q.turned = req[r].turned
      BY <1>1, AgainTyped
  <2>3. req[r].turned \in BOOLEAN
      BY <1>1 DEF RequestType
  <2> HIDE DEF q
  <2>4. Proceeds(r, q)
      BY <1>1, <1>5, <2>2, <2>3 DEF Proceeds, RequestOK, WornOK
  <2> QED BY <1>2, <1>5, <2>1, <2>4
<1>6. CASE p \notin access /\ ~(req[r].stage = "check" /\ Renewable(p))
           /\ req' = [req EXCEPT ![r] = Failed(r, 401)] /\ UNCHANGED faults
  <2>1. ~Usable(p) \/ req[r].stage = "checkAgain"
      BY <1>1, <1>6 DEF Usable, Renewable, SessionInv, UpstreamOK
  <2>2. Proceeds(r, Denied(r, 401)) /\ Failed(r, 401) = Denied(r, 401)
      BY <1>1, <1>6, <2>1, DeniedProceeds DEF Failed
  <2> QED BY <1>2, <1>6, <2>2
<1>7. CASE Trouble(r)
    BY <1>1, <1>7, TroubleProceeds
<1> QED BY <1>3, <1>4, <1>5, <1>6, <1>7 DEF Check

LEMMA RefreshStep ==
    ASSUME SessionParameters, SessionInv, NEW r \in Requests, Refresh(r)
    PROVE  /\ faults' \in 0..MaxFaults
           /\ \/ /\ UNCHANGED upstreamVars
                 /\ \E q : Proceeds(r, q) /\ req' = [req EXCEPT ![r] = q]
              \/ /\ req[r].auth \notin refresh'
                 /\ \E p \in Fresh :
                       /\ Issue(p, Parts, req[r].auth \in members)
                       /\ refresh' \subseteq (refresh \cap Held) \cup {p}
                       /\ \E q : /\ req' = [req EXCEPT ![r] = q]
                                /\ \/ Proceeds(r, q)
                                   \/ /\ RequestOK(q) /\ q.kind = req[r].kind /\ q.auth = p
                                      /\ q.change = "set" /\ q.stage \in {"check", "checkAgain"}
                                      /\ q.turned = req[r].turned
<1> DEFINE x == req[r].auth
<1>1. /\ req[r].stage \in {"refresh", "refreshAgain"} /\ req[r].kind \notin Logins
      /\ x \in Pairs
      /\ req[r] \in RequestType /\ req[r].kind # "none" /\ req[r].status \in {0, 200, 401, 403, 503}
    BY DEF Refresh, SessionInv, RequestsOK, RequestOK
<1>2. faults \in 0..MaxFaults
    BY DEF SessionInv, PageOK
<1>3. CASE /\ x \in refresh
           /\ \E p \in Fresh :
                 /\ Issue(p, Parts, x \in members)
                 /\ refresh' = ((refresh \cap Held) \ {x}) \cup {p}
                 /\ \/ req' = [req EXCEPT ![r] = Refreshed(r, p)] /\ UNCHANGED faults
                    \/ Trouble(r)
  <2>1. PICK p \in Fresh :
                 /\ Issue(p, Parts, x \in members)
                 /\ refresh' = ((refresh \cap Held) \ {x}) \cup {p}
                 /\ \/ req' = [req EXCEPT ![r] = Refreshed(r, p)] /\ UNCHANGED faults
                    \/ Trouble(r)
      BY <1>3
  <2>2. p \in Pairs /\ p # x
      BY InHeld DEF Fresh
  <2>3. x \notin refresh' /\ refresh' \subseteq (refresh \cap Held) \cup {p}
      BY <2>1, <2>2
  <2>4. CASE req' = [req EXCEPT ![r] = Refreshed(r, p)] /\ UNCHANGED faults
    <3> DEFINE stage == IF req[r].stage = "refresh" THEN "check" ELSE "checkAgain"
               q == Refreshed(r, p)
    <3>1. stage \in Stages /\ "set" \in Changes /\ p \in Auths
          /\ stage \in {"check", "checkAgain"}
        BY <2>2 DEF Stages, Changes, Auths
    <3>2. q = [req[r] EXCEPT !.auth = p, !.change = "set", !.stage = stage]
        BY <1>1 DEF Refreshed, RequestType
    <3>3. /\ q \in RequestType /\ q.auth = p /\ q.kind = req[r].kind
          /\ q.stage = stage /\ q.status = req[r].status /\ q.change = "set"
          /\ q.turned = req[r].turned
      <4> HIDE DEF q, stage
      <4> QED BY <1>1, <3>1, <3>2 DEF RequestType
    <3> HIDE DEF q, stage
    <3>4. RequestOK(q)
        BY <1>1, <2>2, <3>1, <3>3 DEF RequestOK
    <3>5. req' = [req EXCEPT ![r] = q]
        BY <2>4 DEF q
    <3> QED BY <1>2, <2>1, <2>3, <2>4, <3>1, <3>3, <3>4, <3>5
  <2>5. CASE Trouble(r)
    <3>1. /\ faults' \in 0..MaxFaults
          /\ \E q : Proceeds(r, q) /\ req' = [req EXCEPT ![r] = q]
        BY <1>1, <2>5, TroubleProceeds
    <3> QED BY <2>1, <2>3, <3>1
  <2> QED BY <2>1, <2>4, <2>5
<1>4. CASE (x \notin refresh \/ ~admin) /\ req' = [req EXCEPT ![r] = Denied(r, 401)]
           /\ UNCHANGED <<upstreamVars, faults>>
  <2>1. ~Usable(x) \/ ~admin \/ req[r].turned
      BY <1>1, <1>4 DEF Usable, SessionInv, Worn, WornOK
  <2>2. Proceeds(r, Denied(r, 401))
      BY <1>1, <2>1, DeniedProceeds
  <2> QED BY <1>2, <1>4, <2>2
<1>5. CASE Trouble(r) /\ UNCHANGED upstreamVars
    BY <1>1, <1>5, TroubleProceeds
<1> QED BY <1>3, <1>4, <1>5 DEF Refresh

LEMMA HandleStep ==
    ASSUME SessionParameters, SessionInv, NEW r \in Requests, Handle(r)
    PROVE  /\ faults' \in 0..MaxFaults /\ refresh' \subseteq refresh
           /\ req[r].stage = "handler" /\ req[r].auth \in Pairs
           /\ \E q : /\ Proceeds(r, q) /\ req' = [req EXCEPT ![r] = q] /\ q.stage = "reply"
                    /\ \/ req[r].kind # "logout" /\ UNCHANGED <<refresh, ended>>
                       \/ /\ req[r].kind = "logout" /\ q.change = "deleted"
                          /\ \/ ended' = req[r].auth /\ ended' \notin refresh'
                             \/ ended' = NoPair
<1>1. /\ req[r].stage = "handler" /\ req[r].kind \notin Logins
      /\ req[r].auth \in Pairs /\ faults \in 0..MaxFaults
      /\ req[r] \in RequestType /\ req[r].kind # "none"
      /\ req \in [Requests -> RequestType] /\ req[r].turned \in BOOLEAN
    BY DEF Handle, SessionInv, RequestsOK, RequestOK, PageOK, RequestType
<1> DEFINE st == 200
<1>2. "reply" \in Stages /\ "deleted" \in Changes /\ st \in Statuses
      /\ st \in {0, 200, 401, 403, 503}
    BY DEF Stages, Changes, Statuses
<1>3. CASE req[r].kind # "logout"
  <2> DEFINE q == Plain(req[r], st)
  <2>1. /\ req' = [req EXCEPT ![r] = q] /\ UNCHANGED <<refresh, ended, faults>>
    <3>1. /\ req' = [req EXCEPT ![r].stage = "reply", ![r].status = st]
          /\ UNCHANGED <<refresh, ended, faults>>
        BY <1>3 DEF Handle
    <3> HIDE DEF st
    <3>2. req \in [Requests -> RequestType]
        BY <1>1
    <3> QED BY <3>1, <3>2, AnswerFields DEF Plain
  <2>2. /\ q \in RequestType /\ q.auth = req[r].auth /\ q.kind = req[r].kind
        /\ q.stage = "reply" /\ q.status = st /\ q.change = req[r].change
        /\ q.turned = req[r].turned
    <3>1. req[r] \in RequestType /\ st \in Statuses
        BY <1>1, <1>2
    <3> HIDE DEF st
    <3> QED BY <3>1, AnswerTyped
  <2> HIDE DEF q, st
  <2>3. Proceeds(r, q)
      BY <1>1, <1>2, <2>2 DEF Proceeds, RequestOK, WornOK
  <2> QED BY <1>1, <1>3, <2>1, <2>2, <2>3
<1>4. CASE req[r].kind = "logout"
  <2> DEFINE q == Deletion(req[r], st)
  <2>1. req' = [req EXCEPT ![r] = q]
    <3>1. req' = [req EXCEPT ![r].stage = "reply", ![r].status = st, ![r].change = "deleted"]
        BY <1>4 DEF Handle
    <3> HIDE DEF st
    <3>2. req \in [Requests -> RequestType]
        BY <1>1
    <3> QED BY <3>1, <3>2, AnswerAndChange DEF Deletion
  <2>2. /\ faults' \in 0..MaxFaults /\ refresh' \subseteq refresh
        /\ ended' = NoPair \/ (ended' = req[r].auth /\ ended' \notin refresh')
    <3>1. CASE refresh' = refresh \ Revoked(r) /\ ended' = req[r].auth /\ UNCHANGED faults
        BY <1>1, <3>1 DEF Revoked
    <3>2. CASE /\ faults < MaxFaults /\ faults' = faults + 1
               /\ ended' = NoPair /\ UNCHANGED refresh
      <4>1. faults' \in 0..MaxFaults
          BY <1>1, <3>2 DEF SessionParameters
      <4> QED BY <3>2, <4>1
    <3> QED BY <1>4, <3>1, <3>2 DEF Handle
  <2>3. /\ q \in RequestType /\ q.auth = req[r].auth /\ q.kind = req[r].kind
        /\ q.stage = "reply" /\ q.status = st /\ q.change = "deleted"
        /\ q.turned = req[r].turned
    <3>1. req[r] \in RequestType /\ st \in Statuses
        BY <1>1, <1>2
    <3> HIDE DEF st
    <3> QED BY <3>1, DeletionTyped
  <2> HIDE DEF q, st
  <2>4. Proceeds(r, q)
      BY <1>1, <1>2, <1>4, <2>3 DEF Proceeds, RequestOK, WornOK
  <2> QED BY <1>1, <1>4, <2>1, <2>2, <2>3, <2>4
<1> QED BY <1>3, <1>4

\* A login that is refused, or a request of it that ends.
LEMMA RefusedOK ==
    ASSUME RequestsOK, NEW r \in Requests, req[r].kind \in Logins, NEW status \in Statuses,
           Refused(r, status)
    PROVE  \E q : /\ req' = [req EXCEPT ![r] = q] /\ RequestOK(q)
                 /\ q.auth = req[r].auth /\ q.kind = req[r].kind
                 /\ q.stage = "reply" /\ q.change = req[r].change
<1> DEFINE q == [req[r] EXCEPT !.stage = "reply", !.status = status]
<1>1. /\ req' = [req EXCEPT ![r] = q]
      /\ req[r] \in RequestType /\ req[r].kind # "none"
  <2>1. req' = [req EXCEPT ![r] = q]
      BY AnswerFields DEF Refused, RequestsOK
  <2>2. req[r] \in RequestType /\ req[r].kind # "none"
      BY DEF RequestsOK, RequestOK, Logins
  <2> QED BY <2>1, <2>2
<1>2. "reply" \in Stages
    BY DEF Stages
<1>3. /\ q \in RequestType /\ q.auth = req[r].auth /\ q.kind = req[r].kind
      /\ q.stage = "reply" /\ q.status = status /\ q.change = req[r].change
    BY <1>1, <1>2, AnsweredPlainly DEF RequestType
<1> HIDE DEF q
<1>4. RequestOK(q)
    BY <1>1, <1>3 DEF RequestOK
<1> QED BY <1>1, <1>3, <1>4

\* What a login that is sent becomes.
LoggedIn(r, q) ==
    /\ RequestOK(q) /\ q.kind = req[r].kind /\ q.stage \in {"event", "reply"}
    /\ \/ /\ UNCHANGED upstreamVars /\ q.auth = req[r].auth
          /\ q.change \in {"challenge", req[r].change}
       \/ \E p \in Fresh, parts \in SUBSET Parts, member \in BOOLEAN :
             /\ Issue(p, parts, member)
             /\ refresh' = (refresh \cap Held) \cup (IF "refresh" \in parts THEN {p} ELSE {})
             /\ \/ q.auth = p /\ ~member /\ q.change = "set"
                \/ q.auth = req[r].auth /\ q.change = req[r].change

LEMMA LogInStep ==
    ASSUME SessionParameters, SessionInv, NEW r \in Requests, LogIn(r)
    PROVE  /\ faults' \in 0..MaxFaults /\ req[r].kind \in Logins
           /\ \E q : req' = [req EXCEPT ![r] = q] /\ LoggedIn(r, q)
<1>1. /\ req[r].stage = "sent" /\ req[r].kind \in Logins /\ faults \in 0..MaxFaults
      /\ req[r] \in RequestType /\ req[r].kind # "none"
  <2>1. req[r].stage = "sent" /\ req[r].kind \in Logins
      BY DEF LogIn
  <2>2. faults \in 0..MaxFaults /\ RequestOK(req[r])
      BY DEF SessionInv, RequestsOK, PageOK
  <2> QED BY <2>1, <2>2 DEF RequestOK, Logins
<1>2. /\ RequestsOK /\ 401 \in Statuses /\ 403 \in Statuses
      /\ \A answer \in Troubles : Clamped(ErrorStatus(answer)) \in Statuses
    BY DEF SessionInv, Statuses, Troubles, Clamped, ErrorStatus
<1>3. ASSUME NEW p \in Fresh, NEW parts \in Offers, NEW member \in BOOLEAN,
             Issue(p, parts, member),
             refresh' = (refresh \cap Held) \cup (IF "refresh" \in parts THEN {p} ELSE {}),
             IF IsAdmin(member)
               THEN req' = [req EXCEPT ![r].stage = "event", ![r].auth = p, ![r].change = "set"]
               ELSE Refused(r, 403)
      PROVE  \E q : req' = [req EXCEPT ![r] = q] /\ LoggedIn(r, q)
  <2>1. parts \in SUBSET Parts /\ p \in Pairs
      BY DEF SessionParameters, Fresh
  <2>2. CASE IsAdmin(member)
    <3> DEFINE q == [req[r] EXCEPT !.stage = "event", !.auth = p, !.change = "set"]
    <3>1. req' = [req EXCEPT ![r] = q]
      <4>1. req \in [Requests -> RequestType]
          BY <1>2 DEF RequestsOK
      <4>2. req' = [req EXCEPT ![r].stage = "event", ![r].auth = p, ![r].change = "set"]
          BY <1>3, <2>2
      <4> QED BY <4>1, <4>2, NewPair
    <3>2. "event" \in Stages /\ "set" \in Changes /\ p \in Auths
        BY <2>1 DEF Stages, Changes, Auths
    <3>3. /\ q \in RequestType /\ q.auth = p /\ q.kind = req[r].kind
          /\ q.stage = "event" /\ q.status = req[r].status /\ q.change = "set"
        BY <1>1, <3>2 DEF RequestType
    <3> HIDE DEF q
    <3>4. RequestOK(q) /\ ~member
        BY <1>1, <2>2, <3>3 DEF RequestOK, IsAdmin
    <3> QED BY <1>3, <2>1, <3>1, <3>3, <3>4 DEF LoggedIn
  <2>3. CASE Refused(r, 403)
    <3>1. PICK q : /\ req' = [req EXCEPT ![r] = q] /\ RequestOK(q)
                   /\ q.auth = req[r].auth /\ q.kind = req[r].kind
                   /\ q.stage = "reply" /\ q.change = req[r].change
        BY <1>1, <1>2, <2>3, RefusedOK
    <3> QED BY <1>3, <2>1, <3>1 DEF LoggedIn
  <2> QED BY <1>3, <2>2, <2>3
<1>4. ASSUME req[r].kind = "password", UNCHANGED upstreamVars,
             req' = [req EXCEPT ![r].stage = "reply", ![r].status = 200, ![r].change = "challenge"]
      PROVE  \E q : req' = [req EXCEPT ![r] = q] /\ LoggedIn(r, q)
  <2> DEFINE st == 200
             q == [req[r] EXCEPT !.stage = "reply", !.status = st, !.change = "challenge"]
  <2>1. req' = [req EXCEPT ![r] = q] /\ q = [req[r] EXCEPT !.stage = "reply", !.status = st, !.change = "challenge"]
    <3>1. req \in [Requests -> RequestType]
        BY <1>2 DEF RequestsOK
    <3>2. req' = [req EXCEPT ![r].stage = "reply", ![r].status = st, ![r].change = "challenge"]
        BY <1>4
    <3> HIDE DEF st
    <3> QED BY <3>1, <3>2, AnswerAndChange
  <2>2. "reply" \in Stages /\ st \in Statuses /\ "challenge" \in Changes
      BY DEF Stages, Statuses, Changes
  <2> HIDE DEF q, st
  <2>3. /\ q \in RequestType /\ q.auth = req[r].auth /\ q.kind = req[r].kind
        /\ q.stage = "reply" /\ q.status = st /\ q.change = "challenge"
      BY <1>1, <2>1, <2>2, Answered DEF RequestType
  <2>4. RequestOK(q)
      BY <1>1, <2>3 DEF RequestOK
  <2> QED BY <1>4, <2>1, <2>3, <2>4 DEF LoggedIn
<1>5. ASSUME NEW status \in Statuses, Refused(r, status), UNCHANGED upstreamVars
      PROVE  \E q : req' = [req EXCEPT ![r] = q] /\ LoggedIn(r, q)
    BY <1>1, <1>2, <1>5, RefusedOK DEF LoggedIn
<1>6. faults' \in 0..MaxFaults
  <2>1. faults' = faults \/ (faults < MaxFaults /\ faults' = faults + 1)
      BY DEF LogIn
  <2> QED BY <1>1, <2>1 DEF SessionParameters
<1>7. \E q : req' = [req EXCEPT ![r] = q] /\ LoggedIn(r, q)
    BY <1>2, <1>3, <1>4, <1>5 DEF LogIn
<1> QED BY <1>1, <1>6, <1>7

LEMMA StoreEventStep ==
    ASSUME SessionParameters, SessionInv, NEW r \in Requests, StoreEvent(r)
    PROVE  /\ faults' \in 0..MaxFaults /\ req[r].kind \in Logins
           /\ \E q : req' = [req EXCEPT ![r] = q] /\ LoggedIn(r, q)
<1>1. /\ req[r].kind \in Logins /\ faults \in 0..MaxFaults
      /\ UNCHANGED upstreamVars /\ RequestsOK
    BY DEF StoreEvent, SessionInv, RequestsOK, RequestOK, PageOK
<1>2. PICK status \in Statuses : Refused(r, status)
    BY DEF StoreEvent, Statuses
<1>3. faults' \in 0..MaxFaults
    BY <1>1 DEF StoreEvent, SessionParameters
<1> QED BY <1>1, <1>2, <1>3, RefusedOK DEF LoggedIn

LEMMA IdleOK == RequestOK(Idle) /\ Idle.auth = NoPair
BY DEF RequestOK, RequestType, Auths, Changes, Statuses, Idle, Stages,
   Kinds, Logins

LEMMA ReplyStep ==
    ASSUME SessionInv, NEW r \in Requests, Reply(r)
    PROVE  /\ req' = [req EXCEPT ![r] = Idle]
           /\ cookie' \in {cookie, req[r].auth, NoPair} /\ PageOK'
<1>1. /\ req[r].auth \in Pairs \cup {NoPair} /\ PageOK
      /\ UNCHANGED <<admin, faults>>
    BY DEF Reply, SessionInv, RequestsOK, RequestType, Auths
<1>2. cookie' \in {cookie, req[r].auth, NoPair}
    BY DEF Reply, Cookie
<1>3. tab' \in {"loading", "login", "unavailable", "challenge", "console"}
    BY <1>1 DEF Reply, Page, Settled, PageOK
<1>4. ended' \in Pairs \cup {NoPair}
      /\ fragment' \in {"none", "tokens", "error"}
    BY <1>1 DEF Reply, PageOK
<1>5. stale' \in BOOLEAN
    BY <1>1 DEF Reply, PageOK
<1> QED BY <1>1, <1>2, <1>3, <1>4, <1>5 DEF Reply, PageOK

LEMMA ReplyKept ==
    ASSUME SessionParameters, SessionInv, NEW r \in Requests, Reply(r)
    PROVE  SessionInv'
<1>1. /\ req' = [req EXCEPT ![r] = Idle]
      /\ cookie' \in {cookie, req[r].auth, NoPair} /\ PageOK'
      /\ UNCHANGED upstreamVars
    BY ReplyStep DEF Reply
<1>2. RequestsOK' /\ \A s \in Requests : req'[s] = IF s = r THEN Idle ELSE req[s]
    BY <1>1, Replaced, IdleOK DEF SessionInv, RequestsOK
<1>3. UpstreamOK'
    BY <1>1 DEF upstreamVars, SessionInv, UpstreamOK
<1>4. NoMember'
  <2>1. NoPair \notin members /\ members' = members
      BY <1>1, PairsAreNumbers DEF upstreamVars, SessionInv, UpstreamOK
  <2> QED BY <1>1, <1>2, <2>1, IdleOK DEF SessionInv, NoMember
<1>5. Worn'
  <2>1. Idle.stage = "idle" /\ access' = access /\ due' = due
      BY <1>1 DEF Idle, upstreamVars
  <2> QED BY <1>2, <2>1 DEF SessionInv, Worn, WornOK
<1> QED BY <1>1, <1>2, <1>3, <1>4, <1>5 DEF SessionInv

\* A request is sent: with the browser's cookie, or to log in.
LEMMA SendStep ==
    ASSUME SessionInv, NEW r \in Requests, NEW kind \in Kinds \ {"none"},
           Send(r, kind)
    PROVE  \E q : /\ req' = [req EXCEPT ![r] = q] /\ RequestOK(q) /\ WornOK(q)
                 /\ q.stage = "sent" /\ q.kind = kind /\ q.change = "none"
                 /\ req[r] = Idle
                 /\ q.auth = IF kind \in Logins THEN NoPair ELSE cookie
<1> DEFINE auth == IF kind \in Logins THEN NoPair ELSE cookie
           q == [Idle EXCEPT !.stage = "sent", !.kind = kind, !.auth = auth]
<1>1. req' = [req EXCEPT ![r] = q] /\ req[r] = Idle
    BY DEF Send
<1>2. auth \in Auths
    BY DEF Auths, SessionInv, PageOK
<1>3. /\ q \in RequestType /\ q.stage = "sent" /\ q.kind = kind /\ q.auth = auth
      /\ q.change = "none" /\ q.status = 0
  <2> HIDE DEF auth
  <2> QED BY <1>2 DEF RequestType, Idle, Stages, Changes, Statuses
<1> HIDE DEF q
<1>4. RequestOK(q) /\ WornOK(q)
    BY <1>3 DEF RequestOK, WornOK
<1> QED BY <1>1, <1>3, <1>4

\* The requests a page sends, and what they leave alone.
LEMMA PageSends ==
    ASSUME SessionInv, NEW r \in Requests,
           \/ Bootstrap(r) \/ Poll(r) \/ LogOut(r)
           \/ Submit(r) \/ Consume(r)
    PROVE  /\ UNCHANGED <<upstreamVars, admin, cookie, ended, faults>> /\ PageOK'
           /\ \/ UNCHANGED req
              \/ \E kind \in Kinds \ {"none"} : Send(r, kind)
<1>1. {"bootstrap", "poll", "logout", "password", "totp", "oauth"} \subseteq Kinds \ {"none"}
    BY DEF Kinds, Logins
<1>2. CASE Bootstrap(r)
    BY <1>1, <1>2 DEF Bootstrap, pageVars, SessionInv, PageOK
<1>3. CASE Poll(r)
    BY <1>1, <1>3 DEF Poll, pageVars, SessionInv, PageOK
<1>4. CASE LogOut(r)
    BY <1>1, <1>4 DEF LogOut, pageVars, SessionInv, PageOK
<1>5. CASE Submit(r)
    BY <1>1, <1>5 DEF Submit, pageVars, SessionInv, PageOK
<1>6. CASE Consume(r)
    BY <1>1, <1>6 DEF Consume, SessionInv, PageOK
<1> QED BY <1>2, <1>3, <1>4, <1>5, <1>6

LEMMA SendsKept ==
    ASSUME SessionInv, NEW r \in Requests,
           \/ Bootstrap(r) \/ Poll(r) \/ LogOut(r)
           \/ Submit(r) \/ Consume(r)
    PROVE  SessionInv'
<1>1. /\ UNCHANGED <<access, refresh, due, given, members, cookie>> /\ PageOK'
      /\ \/ UNCHANGED req
         \/ \E kind \in Kinds \ {"none"} : Send(r, kind)
    BY PageSends DEF upstreamVars
<1>2. UpstreamOK'
    BY <1>1 DEF SessionInv, UpstreamOK
<1>3. CASE UNCHANGED req
    BY <1>1, <1>2, <1>3 DEF SessionInv, RequestsOK, NoMember, Worn, WornOK
<1>4. ASSUME NEW kind \in Kinds \ {"none"}, Send(r, kind) PROVE SessionInv'
  <2>1. PICK q : /\ req' = [req EXCEPT ![r] = q] /\ RequestOK(q) /\ WornOK(q)
                 /\ q.auth = IF kind \in Logins THEN NoPair ELSE cookie
      BY <1>4, SendStep
  <2>2. /\ RequestsOK' /\ req'[r] = q /\ \A s \in Requests \ {r} : req'[s] = req[s]
      BY <2>1, Replaced DEF SessionInv, RequestsOK
  <2>3. NoMember'
    <3>1. q.auth \notin members /\ members' = members
        BY <1>1, <2>1 DEF NoPair, Pairs,
              SessionInv, NoMember, UpstreamOK
    <3> QED BY <1>1, <2>2, <3>1 DEF SessionInv, NoMember
  <2>4. Worn'
    <3>1. \A s \in Requests : WornOK(req'[s])
        BY <2>1, <2>2 DEF SessionInv, Worn
    <3> QED BY <1>1, <3>1 DEF Worn, WornOK
  <2> QED BY <1>1, <1>2, <2>2, <2>3, <2>4 DEF SessionInv
<1> QED BY <1>1, <1>3, <1>4

LEMMA ProceedsKept ==
    ASSUME SessionInv, NEW r \in Requests, NEW q, Proceeds(r, q), req' = [req EXCEPT ![r] = q],
           UNCHANGED <<access, due, given, members, cookie>>, refresh' \subseteq refresh, PageOK'
    PROVE  SessionInv'
BY RequestMoves DEF Proceeds

LEMMA ServedKept ==
    ASSUME SessionParameters, SessionInv, NEW r \in Requests, Served(r)
    PROVE  SessionInv'
<1>1. CASE Arrive(r)
  <2>1. /\ UNCHANGED <<access, refresh, due, given, members, cookie>> /\ PageOK'
      BY <1>1 DEF Arrive, upstreamVars, pageVars, SessionInv, PageOK
  <2> QED BY <1>1, <2>1, ArriveStep, ProceedsKept
<1>2. CASE Check(r)
  <2>1. faults' \in 0..MaxFaults /\ \E q : Proceeds(r, q) /\ req' = [req EXCEPT ![r] = q]
      BY <1>2, CheckStep
  <2>2. /\ UNCHANGED <<access, refresh, due, given, members, cookie>> /\ PageOK'
      BY <1>2, <2>1 DEF Check, upstreamVars, pageVars, SessionInv, PageOK
  <2> QED BY <2>1, <2>2, ProceedsKept
<1>3. CASE Refresh(r)
  <2>1. faults' \in 0..MaxFaults
      BY <1>3, RefreshStep
  <2>2. UNCHANGED cookie /\ PageOK'
      BY <1>3, <2>1 DEF Refresh, pageVars, SessionInv, PageOK
  <2>3. CASE /\ UNCHANGED upstreamVars
             /\ \E q : Proceeds(r, q) /\ req' = [req EXCEPT ![r] = q]
      BY <2>2, <2>3, ProceedsKept DEF upstreamVars
  <2>4. ASSUME NEW p \in Fresh, Issue(p, Parts, req[r].auth \in members),
               refresh' \subseteq (refresh \cap Held) \cup {p},
               NEW q, req' = [req EXCEPT ![r] = q],
               \/ Proceeds(r, q)
               \/ /\ RequestOK(q) /\ q.kind = req[r].kind /\ q.auth = p
                  /\ q.change = "set" /\ q.stage \in {"check", "checkAgain"}
                  /\ q.turned = req[r].turned
        PROVE  SessionInv'
    <3>1. /\ RequestOK(q) /\ "refresh" \in Parts
          /\ \/ q.auth = req[r].auth /\ WornOK(q)
             \/ q.auth = p /\ ~(req[r].auth \in members) /\ q.stage \notin {"refresh", "refreshAgain"}
        BY <2>4 DEF Proceeds, SessionInv, NoMember, Parts
    <3> DEFINE member == req[r].auth \in members
               parts == Parts
    <3>2. member \in BOOLEAN /\ parts \in SUBSET Parts
        OBVIOUS
    <3>3. /\ Issue(p, parts, member)
          /\ refresh' \subseteq (refresh \cap Held)
                                 \cup (IF "refresh" \in parts THEN {p} ELSE {})
          /\ \/ q.auth = req[r].auth /\ WornOK(q)
             \/ q.auth = p /\ ~member /\ q.stage \notin {"refresh", "refreshAgain"}
        BY <2>4, <3>1
    <3> HIDE DEF member, parts
    <3> QED BY <2>2, <2>4, <3>1, <3>2, <3>3, RequestRenewed
  <2> QED BY <1>3, <2>3, <2>4, RefreshStep
<1>4. CASE Handle(r)
  <2>1. /\ faults' \in 0..MaxFaults /\ refresh' \subseteq refresh
        /\ ended' \in {ended, req[r].auth, NoPair} /\ req[r].auth \in Pairs
        /\ \E q : Proceeds(r, q) /\ req' = [req EXCEPT ![r] = q]
      BY <1>4, HandleStep
  <2>2. /\ UNCHANGED <<access, due, given, members, cookie>> /\ PageOK'
      BY <1>4, <2>1 DEF Handle, pageVars, SessionInv, PageOK
  <2> QED BY <2>1, <2>2, ProceedsKept
<1>5. CASE LogIn(r) \/ StoreEvent(r)
  <2>1. faults' \in 0..MaxFaults
      BY <1>5, LogInStep, StoreEventStep
  <2>2. UNCHANGED cookie /\ PageOK'
    <3>1. UNCHANGED <<admin, cookie, pageVars, ended>>
        BY <1>5 DEF LogIn, StoreEvent
    <3> QED BY <2>1, <3>1 DEF pageVars, SessionInv, PageOK
  <2>3. PICK q : req' = [req EXCEPT ![r] = q] /\ LoggedIn(r, q)
      BY <1>5, LogInStep, StoreEventStep
  <2>4. RequestOK(q) /\ WornOK(q) /\ q.stage \notin {"refresh", "refreshAgain"}
      BY <2>3 DEF LoggedIn, WornOK
  <2>5. CASE UNCHANGED upstreamVars /\ q.auth = req[r].auth
      BY <2>2, <2>3, <2>4, <2>5, RequestMoves DEF upstreamVars
  <2>6. ASSUME NEW p \in Fresh, NEW parts \in SUBSET Parts, NEW member \in BOOLEAN,
               Issue(p, parts, member),
               refresh' = (refresh \cap Held) \cup (IF "refresh" \in parts THEN {p} ELSE {}),
               (q.auth = p /\ ~member) \/ q.auth = req[r].auth
        PROVE  SessionInv'
    <3>1. refresh' \subseteq (refresh \cap Held)
                                 \cup (IF "refresh" \in parts THEN {p} ELSE {})
        BY <2>6
    <3> QED BY <2>2, <2>3, <2>4, <2>6, <3>1, RequestRenewed
  <2> QED BY <2>3, <2>5, <2>6 DEF LoggedIn
<1>6. CASE Reply(r)
    BY <1>6, ReplyKept
<1> QED BY <1>1, <1>2, <1>3, <1>4, <1>5, <1>6 DEF Served

LEMMA SessionNext ==
    ASSUME SessionParameters, SessionInv, [Next]_vars
    PROVE  SessionInv'
<1>1. ASSUME NEW r \in Requests, Served(r) PROVE SessionInv'
    BY <1>1, ServedKept
<1>2. ASSUME NEW r \in Requests,
             \/ Bootstrap(r) \/ Poll(r) \/ LogOut(r)
             \/ Submit(r) \/ Consume(r)
      PROVE  SessionInv'
    BY <1>2, SendsKept
<1>3. CASE \/ \E p \in Pairs : Age(p) \/ Lapse(p)
           \/ Revoke \/ Return \/ Load \/ UNCHANGED vars
    BY <1>3, SurroundingsKept
<1> QED BY <1>1, <1>2, <1>3 DEF Next, Served

LEMMA SessionInit ==
    ASSUME SessionParameters, Init
    PROVE  SessionInv
<1>1. UpstreamOK /\ PageOK
    BY PairsAreNumbers DEF Init, UpstreamOK, PageOK
<1>2. \A r \in Requests : req[r] = Idle
    BY DEF Init
<1>3. RequestsOK
    BY <1>2, IdleOK DEF RequestsOK, RequestOK, Init
<1>4. NoMember /\ Worn
  <2>1. Idle.stage = "idle"
      BY DEF Idle
  <2> QED BY <1>2, <2>1 DEF NoMember, Worn, WornOK, Init
<1> QED BY <1>1, <1>3, <1>4 DEF SessionInv

LEMMA SessionInvariant ==
    ASSUME SessionParameters
    PROVE  Spec => []SessionInv
<1>1. Init => SessionInv
    BY SessionInit
<1>2. SessionInv /\ [Next]_vars => SessionInv'
    BY SessionNext
<1> QED BY <1>1, <1>2, PTL DEF Spec

\* The state of the session and of its requests stays what the code of auth.ts
\* and the page take it to be, for any number of requests of one browser.
THEOREM SessionTyped ==
    ASSUME SessionParameters
    PROVE  Spec => []TypeOK
<1>1. SessionInv => TypeOK
    BY SessionInvTypes
<1> QED BY <1>1, SessionInvariant, PTL

\* No pair of an account that is no administrator's is ever in the cookie or
\* behind a handler, however refreshes, logins and answers of several requests
\* interleave (requireAdmin, toAdminUser).
THEOREM AdminsOnly ==
    ASSUME SessionParameters
    PROVE  Spec => []OnlyAdmins
<1>1. SessionInv => OnlyAdmins
    BY SessionInvTypes
<1> QED BY <1>1, SessionInvariant, PTL

----------------------------------------------------------------------------
(* One request at a time: the session is given up only for a reason.  Several *)
(* at once may each refresh with the token of the cookie, and the answer that *)
(* comes last may then set a pair that is spent (section 5 of the README).    *)

OneAtATime == \A r, s \in Requests : r = s

\* A request has the pair of the cookie, or a better one; or it was turned away
\* and may have refreshed a pair that was good.
Credentials(q) ==
    /\ q.kind \notin Logins \cup {"none"} => q.auth = cookie \/ ~Usable(cookie) \/ q.turned
    /\ q.stage = "checkAgain" => ~Usable(cookie) \/ q.turned
    /\ q.change = "set" => q.auth # NoPair
    /\ q.kind \in Logins => q.change # "deleted"
    /\ q.change = "deleted" => q.kind = "logout" \/ ~Usable(cookie) \/ ~admin \/ q.turned
CredentialsOK == \A r \in Requests : Credentials(req[r])

\* A session that was logged out is not in the browser any more, or will not be
\* when the answer is there.
EndedOK ==
    ended # NoPair =>
        /\ ended \notin refresh
        /\ \/ /\ cookie = NoPair
              /\ \A r \in Requests : req[r].kind \notin Logins => req[r].auth = NoPair
           \/ \E r \in Requests : /\ req[r].kind = "logout" /\ req[r].stage = "reply"
                                 /\ req[r].change = "deleted"

StepOK == SessionInv /\ CredentialsOK /\ EndedOK

\* The pair of the cookie does not become usable again.
LEMMA CookieFades ==
    ASSUME SessionInv, UNCHANGED cookie,
           \/ refresh' \subseteq refresh /\ UNCHANGED <<access, due>>
           \/ \E p \in Fresh, parts \in SUBSET Parts, member \in BOOLEAN :
                 /\ Issue(p, parts, member)
                 /\ refresh' \subseteq (refresh \cap Held)
                                  \cup (IF "refresh" \in parts THEN {p} ELSE {})
    PROVE  /\ Usable(cookie)' => Usable(cookie)
           /\ \A x \in Held : x \in refresh' => x \in refresh
<1>1. cookie \in Held
    BY InHeld
<1>2. CASE refresh' \subseteq refresh /\ UNCHANGED <<access, due>>
    BY <1>2 DEF Usable
<1>3. ASSUME NEW p \in Fresh, NEW parts \in SUBSET Parts, NEW member \in BOOLEAN,
             Issue(p, parts, member),
             refresh' \subseteq (refresh \cap Held)
                                  \cup (IF "refresh" \in parts THEN {p} ELSE {})
      PROVE  \A x \in Held : /\ x \in refresh' => x \in refresh
                             /\ x \in access' => x \in access
                             /\ (x \in access /\ x \in due) => x \in due'
    BY <1>3, Issued DEF SessionInv
<1> QED BY <1>1, <1>2, <1>3 DEF Usable

LEMMA CredentialsProceed ==
    ASSUME OneAtATime, StepOK, NEW r \in Requests, NEW q, Proceeds(r, q),
           req' = [req EXCEPT ![r] = q], UNCHANGED <<cookie, admin>>,
           Usable(cookie)' => Usable(cookie)
    PROVE  CredentialsOK'
<1>1. \A s \in Requests : req'[s] = q
    BY Replaced DEF OneAtATime, StepOK, SessionInv, RequestsOK, Proceeds
<1>2. Credentials(req[r])
    BY DEF StepOK, CredentialsOK
<1>3. NoPair \notin Pairs
    BY DEF NoPair, Pairs
<1>4. /\ q.kind \notin Logins \cup {"none"} => q.auth = cookie \/ ~Usable(cookie) \/ q.turned
      /\ q.stage # "checkAgain"
      /\ q.change = "set" => q.auth # NoPair
      /\ q.kind \notin Logins
      /\ q.change = "deleted" => q.kind = "logout" \/ ~Usable(cookie) \/ ~admin \/ q.turned
    BY <1>2, <1>3 DEF Credentials, Proceeds
<1> QED BY <1>1, <1>4 DEF CredentialsOK, Credentials

LEMMA EndedStays ==
    ASSUME OneAtATime, StepOK, NEW r \in Requests, NEW q, RequestOK(q), q.kind = req[r].kind,
           q.kind \in Logins \/ q.auth = req[r].auth, req[r].stage # "reply" \/ q.kind # "logout",
           req' = [req EXCEPT ![r] = q], UNCHANGED <<cookie, ended>>,
           \A x \in Held : x \in refresh' => x \in refresh
    PROVE  EndedOK'
<1>1. \A s \in Requests : req'[s] = q /\ s = r
    BY Replaced DEF OneAtATime, StepOK, SessionInv, RequestsOK
<1>2. ended \in Held
    BY InHeld
<1>3. CASE ended = NoPair
    BY <1>3 DEF EndedOK
<1>4. CASE ended # NoPair
  <2>1. /\ cookie = NoPair
        /\ req[r].kind \notin Logins => req[r].auth = NoPair
      BY <1>1, <1>4 DEF StepOK, EndedOK
  <2>2. ended' \notin refresh'
      BY <1>2, <1>4 DEF StepOK, EndedOK
  <2>3. \A s \in Requests : req'[s].kind \notin Logins => req'[s].auth = NoPair
      BY <1>1, <2>1
  <2> QED BY <2>1, <2>2, <2>3 DEF EndedOK
<1> QED BY <1>3, <1>4

\* Behind the check there is nothing left of a session that was logged out.
LEMMA BehindNotEnded ==
    ASSUME OneAtATime, StepOK, NEW r \in Requests, req[r].kind \notin Logins,
           req[r].auth \in Pairs, req[r].stage # "reply"
    PROVE  ended = NoPair
<1>1. req[r].auth # NoPair
    BY DEF NoPair, Pairs
<1> QED BY <1>1 DEF OneAtATime, StepOK, EndedOK

LEMMA ServedStepOK ==
    ASSUME SessionParameters, OneAtATime, StepOK, NEW r \in Requests, Served(r),
           ~Reply(r)
    PROVE  CredentialsOK' /\ EndedOK'
<1>0. SessionInv
    BY DEF StepOK
<1>1. CASE Arrive(r)
  <2>1. PICK q : Proceeds(r, q) /\ req' = [req EXCEPT ![r] = q]
      BY <1>0, <1>1, ArriveStep
  <2>2. UNCHANGED <<access, refresh, due, cookie, admin, ended>> /\ req[r].stage # "reply"
      BY <1>1 DEF Arrive, upstreamVars
  <2>3. /\ Usable(cookie)' => Usable(cookie)
        /\ \A x \in Held : x \in refresh' => x \in refresh
      BY <1>0, <2>2, CookieFades
  <2>4. CredentialsOK'
      BY <2>1, <2>2, <2>3, CredentialsProceed
  <2>5. EndedOK'
      BY <2>1, <2>2, <2>3, EndedStays DEF Proceeds
  <2> QED BY <2>4, <2>5
<1>2. CASE Check(r)
  <2>1. PICK q : Proceeds(r, q) /\ req' = [req EXCEPT ![r] = q]
      BY <1>0, <1>2, CheckStep
  <2>2. UNCHANGED <<access, refresh, due, cookie, admin, ended>> /\ req[r].stage # "reply"
      BY <1>2 DEF Check, upstreamVars
  <2>3. /\ Usable(cookie)' => Usable(cookie)
        /\ \A x \in Held : x \in refresh' => x \in refresh
      BY <1>0, <2>2, CookieFades
  <2>4. CredentialsOK'
      BY <2>1, <2>2, <2>3, CredentialsProceed
  <2>5. EndedOK'
      BY <2>1, <2>2, <2>3, EndedStays DEF Proceeds
  <2> QED BY <2>4, <2>5
<1>3. CASE Refresh(r)
  <2>1. /\ UNCHANGED <<cookie, admin, ended>> /\ req[r].stage \in {"refresh", "refreshAgain"}
        /\ req[r].kind \notin Logins \cup {"none"} /\ req[r].auth \in Pairs
      BY <1>0, <1>3 DEF Refresh, SessionInv, RequestsOK, RequestOK
  <2>2. EndedOK'
      BY <2>1, BehindNotEnded DEF EndedOK
  <2>3. CASE /\ UNCHANGED upstreamVars
             /\ \E q : Proceeds(r, q) /\ req' = [req EXCEPT ![r] = q]
    <3>1. Usable(cookie)' => Usable(cookie)
        BY <1>0, <2>1, <2>3, CookieFades DEF upstreamVars
    <3> QED BY <2>1, <2>2, <2>3, <3>1, CredentialsProceed
  <2>4. ASSUME NEW p \in Fresh, Issue(p, Parts, req[r].auth \in members),
               refresh' \subseteq (refresh \cap Held) \cup {p}, req[r].auth \notin refresh',
               NEW q, req' = [req EXCEPT ![r] = q],
               \/ Proceeds(r, q)
               \/ /\ RequestOK(q) /\ q.kind = req[r].kind /\ q.auth = p
                  /\ q.change = "set" /\ q.stage \in {"check", "checkAgain"}
                  /\ q.turned = req[r].turned
        PROVE  CredentialsOK'
    <3> DEFINE member == req[r].auth \in members
               parts == Parts
    <3>1. /\ member \in BOOLEAN /\ parts \in SUBSET Parts
          /\ Issue(p, parts, member)
          /\ refresh' \subseteq (refresh \cap Held)
                                 \cup (IF "refresh" \in parts THEN {p} ELSE {})
        BY <2>4 DEF Parts
    <3> HIDE DEF member, parts
    <3>2. Usable(cookie)' => Usable(cookie)
        BY <1>0, <2>1, <3>1, CookieFades
    <3>3. CASE Proceeds(r, q)
        BY <2>1, <2>4, <3>2, <3>3, CredentialsProceed
    <3>4. CASE /\ RequestOK(q) /\ q.kind = req[r].kind /\ q.auth = p
               /\ q.change = "set" /\ q.stage \in {"check", "checkAgain"}
               /\ q.turned = req[r].turned
      <4>1. \A s \in Requests : req'[s] = q
          BY <1>0, <2>4, <3>4, Replaced DEF OneAtATime, SessionInv, RequestsOK
      <4>2. p # NoPair
          BY DEF Fresh, NoPair, Pairs
      <4>3. ~Usable(cookie)' \/ q.turned
        <5>1. req[r].auth = cookie \/ ~Usable(cookie) \/ q.turned
            BY <2>1, <3>4 DEF StepOK, CredentialsOK, Credentials
        <5>2. CASE req[r].auth = cookie /\ ~q.turned
          <6>1. cookie \notin access \ due
              BY <1>0, <2>1, <3>4, <5>2 DEF SessionInv, Worn, WornOK, UpstreamOK
          <6>2. cookie \notin access' \ due'
            <7>1. \A x \in Held :
                     /\ x \in access' => x \in access
                     /\ (x \in access /\ x \in due) => x \in due'
                BY <1>0, <3>1, Issued DEF SessionInv
            <7> QED BY <6>1, <7>1, InHeld
          <6> QED BY <2>1, <2>4, <5>2, <6>2 DEF Usable
        <5> QED BY <3>2, <5>1, <5>2
      <4> QED BY <2>1, <3>4, <4>1, <4>2, <4>3 DEF CredentialsOK, Credentials
    <3> QED BY <2>4, <3>3, <3>4
  <2>5. CredentialsOK'
      BY <1>0, <1>3, <2>3, <2>4, RefreshStep
  <2> QED BY <2>2, <2>5
<1>4. CASE Handle(r)
  <2>1. PICK q : /\ Proceeds(r, q) /\ req' = [req EXCEPT ![r] = q] /\ q.stage = "reply"
                 /\ \/ req[r].kind # "logout" /\ UNCHANGED <<refresh, ended>>
                    \/ /\ req[r].kind = "logout" /\ q.change = "deleted"
                       /\ \/ ended' = req[r].auth /\ ended' \notin refresh'
                          \/ ended' = NoPair
      BY <1>0, <1>4, HandleStep
  <2>2. /\ UNCHANGED <<access, due, cookie, admin>> /\ refresh' \subseteq refresh
        /\ req[r].stage = "handler" /\ req[r].auth \in Pairs
        /\ req[r].kind \notin Logins
      BY <1>0, <1>4, <2>1, HandleStep DEF Handle, Proceeds
  <2>3. Usable(cookie)' => Usable(cookie)
      BY <1>0, <2>2, CookieFades
  <2>4. CredentialsOK'
      BY <2>1, <2>2, <2>3, CredentialsProceed
  <2>5. ended = NoPair
      BY <2>2, BehindNotEnded
  <2>6. req'[r] = q
      BY <1>0, <2>1, Replaced DEF SessionInv, RequestsOK, Proceeds
  <2>7. EndedOK'
      BY <2>1, <2>5, <2>6 DEF EndedOK, Proceeds
  <2> QED BY <2>4, <2>7
<1>5. CASE LogIn(r) \/ StoreEvent(r)
  <2>1. PICK q : req' = [req EXCEPT ![r] = q] /\ LoggedIn(r, q) /\ req[r].kind \in Logins
      BY <1>0, <1>5, LogInStep, StoreEventStep
  <2>2. UNCHANGED <<admin, cookie, ended>>
      BY <1>5 DEF LogIn, StoreEvent
  <2>3. /\ Usable(cookie)' => Usable(cookie)
        /\ \A x \in Held : x \in refresh' => x \in refresh
    <3>1. CASE UNCHANGED upstreamVars
        BY <1>0, <2>2, <3>1, CookieFades DEF upstreamVars
    <3>2. ASSUME NEW p \in Fresh, NEW parts \in SUBSET Parts, NEW member \in BOOLEAN,
                 Issue(p, parts, member),
                 refresh' = (refresh \cap Held) \cup (IF "refresh" \in parts THEN {p} ELSE {})
          PROVE  <2>3!:
      <4>1. refresh' \subseteq (refresh \cap Held)
                                 \cup (IF "refresh" \in parts THEN {p} ELSE {})
          BY <3>2
      <4> QED BY <1>0, <2>2, <3>2, <4>1, CookieFades
    <3> QED BY <2>1, <3>1, <3>2 DEF LoggedIn
  <2>4. CredentialsOK'
    <3>1. \A s \in Requests : req'[s] = q
        BY <1>0, <2>1, Replaced DEF OneAtATime, SessionInv, RequestsOK, LoggedIn
    <3>2. Credentials(req[r]) /\ "logout" \notin Logins
        BY DEF StepOK, CredentialsOK, Logins
    <3>3. \A p \in Fresh : p # NoPair
        BY DEF Fresh, NoPair, Pairs
    <3>4. /\ q.kind \in Logins /\ q.stage # "checkAgain"
          /\ q.change = "set" => q.auth # NoPair
          /\ q.change # "deleted"
        BY <2>1, <3>2, <3>3 DEF LoggedIn, Credentials
    <3> QED BY <2>2, <2>3, <3>1, <3>4 DEF CredentialsOK, Credentials
  <2>5. EndedOK'
    <3>1. RequestOK(q) /\ q.kind = req[r].kind /\ q.kind \in Logins /\ q.kind # "logout"
        BY <2>1 DEF LoggedIn, Logins
    <3> QED BY <2>1, <2>2, <2>3, <3>1, EndedStays
  <2> QED BY <2>4, <2>5
<1> QED BY <1>1, <1>2, <1>3, <1>4, <1>5 DEF Served

\* The answer: a session that ended is not set again.
LEMMA ReplyStepOK ==
    ASSUME SessionParameters, OneAtATime, StepOK, NEW r \in Requests, Reply(r)
    PROVE  CredentialsOK' /\ EndedOK'
<1>1. /\ req' = [req EXCEPT ![r] = Idle] /\ cookie' = Cookie(r)
      /\ ended' = (IF req[r].kind \in Logins THEN NoPair ELSE ended)
      /\ refresh' = refresh /\ SessionInv /\ req[r].stage = "reply"
    BY DEF Reply, upstreamVars, StepOK
<1>2. \A s \in Requests : req'[s] = Idle /\ s = r
    BY <1>1, Replaced, IdleOK DEF OneAtATime, SessionInv, RequestsOK
<1>3. /\ Idle.kind = "none" /\ Idle.stage = "idle"
      /\ Idle.change = "none" /\ Idle.auth = NoPair
    BY DEF Idle
<1>4. CredentialsOK'
    BY <1>2, <1>3 DEF CredentialsOK, Credentials
<1>5. CASE ended' = NoPair
    BY <1>4, <1>5 DEF EndedOK
<1>6. CASE ended' # NoPair
  <2>1. ended' = ended /\ req[r].kind \notin Logins /\ ended \notin refresh
      BY <1>1, <1>6 DEF StepOK, EndedOK
  <2>2. CASE cookie = NoPair /\ req[r].auth = NoPair
    <3>1. req[r].change # "set"
        BY <2>2 DEF StepOK, CredentialsOK, Credentials
    <3>2. cookie' = NoPair
        BY <1>1, <2>2, <3>1 DEF Cookie
    <3> QED BY <1>1, <1>2, <1>3, <1>4, <2>1, <3>2 DEF EndedOK
  <2>3. CASE req[r].change = "deleted"
    <3>1. cookie' = NoPair
        BY <1>1, <2>3 DEF Cookie
    <3> QED BY <1>1, <1>2, <1>3, <1>4, <2>1, <3>1 DEF EndedOK
  <2> QED BY <1>2, <1>6, <2>1, <2>2, <2>3 DEF StepOK, EndedOK
<1> QED BY <1>5, <1>6

LEMMA SendsStepOK ==
    ASSUME OneAtATime, StepOK, NEW r \in Requests,
           \/ Bootstrap(r) \/ Poll(r) \/ LogOut(r)
           \/ Submit(r) \/ Consume(r)
    PROVE  CredentialsOK' /\ EndedOK'
<1>1. /\ UNCHANGED <<access, refresh, due, cookie, admin, ended>> /\ SessionInv
      /\ \/ UNCHANGED req
         \/ \E kind \in Kinds \ {"none"} : Send(r, kind)
    BY PageSends DEF upstreamVars, StepOK
<1>2. CASE UNCHANGED req
    BY <1>1, <1>2 DEF StepOK, CredentialsOK, Credentials, Usable, EndedOK
<1>3. ASSUME NEW kind \in Kinds \ {"none"}, Send(r, kind)
      PROVE  CredentialsOK' /\ EndedOK'
  <2>1. PICK q : /\ req' = [req EXCEPT ![r] = q] /\ RequestOK(q)
                 /\ q.stage = "sent" /\ q.kind = kind /\ q.change = "none"
                 /\ req[r] = Idle
                 /\ q.auth = IF kind \in Logins THEN NoPair ELSE cookie
      BY <1>1, <1>3, SendStep
  <2>2. \A s \in Requests : req'[s] = q /\ s = r
      BY <1>1, <2>1, Replaced DEF OneAtATime, SessionInv, RequestsOK
  <2>3. CredentialsOK'
      BY <1>1, <2>1, <2>2 DEF CredentialsOK, Credentials
  <2>4. Idle.stage = "idle"
      BY DEF Idle
  <2>5. EndedOK'
      BY <1>1, <2>1, <2>2, <2>4 DEF StepOK, EndedOK
  <2> QED BY <2>3, <2>5
<1> QED BY <1>1, <1>2, <1>3

LEMMA SurroundingsStepOK ==
    ASSUME SessionParameters, StepOK,
           \/ \E p \in Pairs : Age(p) \/ Lapse(p)
           \/ Revoke \/ Return \/ Load \/ UNCHANGED vars
    PROVE  CredentialsOK' /\ EndedOK'
<1>1. /\ UNCHANGED <<req, cookie, ended>> /\ (~admin => ~admin')
      /\ refresh' \subseteq refresh /\ access' \subseteq access
      /\ \A p \in due : p \in due' \/ p \notin access'
    BY SurroundingsKept DEF StepOK
<1>2. Usable(cookie)' => Usable(cookie)
    BY <1>1 DEF Usable
<1>3. CredentialsOK'
    BY <1>1, <1>2 DEF StepOK, CredentialsOK, Credentials
<1>4. EndedOK'
    BY <1>1 DEF StepOK, EndedOK
<1> QED BY <1>3, <1>4

LEMMA StepNext ==
    ASSUME SessionParameters, OneAtATime, StepOK, [Next]_vars
    PROVE  StepOK'
<1>1. ASSUME NEW r \in Requests, Served(r) PROVE CredentialsOK' /\ EndedOK'
    BY <1>1, ServedStepOK, ReplyStepOK
<1>2. ASSUME NEW r \in Requests,
             \/ Bootstrap(r) \/ Poll(r) \/ LogOut(r)
             \/ Submit(r) \/ Consume(r)
      PROVE  CredentialsOK' /\ EndedOK'
    BY <1>2, SendsStepOK
<1>3. ASSUME \/ \E p \in Pairs : Age(p) \/ Lapse(p)
             \/ Revoke \/ Return \/ Load \/ UNCHANGED vars
      PROVE  CredentialsOK' /\ EndedOK'
    BY <1>3, SurroundingsStepOK
<1>4. CredentialsOK' /\ EndedOK'
    BY <1>1, <1>2, <1>3 DEF Next, Served
<1>5. SessionInv'
    BY SessionNext DEF StepOK
<1> QED BY <1>4, <1>5 DEF StepOK

LEMMA StepInvariant ==
    ASSUME SessionParameters, OneAtATime
    PROVE  Spec => []StepOK
<1>1. Init => StepOK
  <2> SUFFICES ASSUME Init PROVE StepOK
      OBVIOUS
  <2>1. SessionInv
      BY SessionInit
  <2>2. /\ ended = NoPair /\ \A r \in Requests : req[r] = Idle
      BY DEF Init
  <2>3. /\ Idle.kind = "none" /\ Idle.stage = "idle" /\ Idle.change = "none"
      BY DEF Idle
  <2> QED BY <2>1, <2>2, <2>3 DEF StepOK, CredentialsOK, Credentials, EndedOK
<1>2. StepOK /\ [Next]_vars => StepOK'
    BY StepNext
<1> QED BY <1>1, <1>2, PTL DEF Spec

\* After a logout that reached Sub2API, once nothing is under way any more, the
\* browser has no cookie and the refresh token of the session is revoked, also
\* when the logout itself refreshed it (logout in auth.ts).
THEOREM LogoutFinal ==
    ASSUME SessionParameters, OneAtATime
    PROVE  Spec => []LogoutIsFinal
<1>1. StepOK => LogoutIsFinal
  <2>1. Idle.stage = "idle"
      BY DEF Idle
  <2> QED BY <2>1 DEF StepOK, EndedOK, LogoutIsFinal
<1> QED BY <1>1, StepInvariant, PTL

\* The cookie is given up only when its pair can neither be used nor refreshed,
\* when the account is no administrator's any more, by a logout, or when a request
\* was itself turned away with 401 or 403 by an answer that says nothing of its
\* pair: no other trouble of Sub2API ends a session (requireAdmin in auth.ts).
THEOREM SessionStays ==
    ASSUME SessionParameters, OneAtATime
    PROVE  Spec => SessionKept
<1> DEFINE Kept ==
        cookie # NoPair /\ cookie' = NoPair =>
            \/ ~Usable(cookie) \/ ~admin
            \/ \E r \in Requests :
                  req[r].stage = "reply" /\ (req[r].kind = "logout" \/ req[r].turned)
<1>1. StepOK /\ [Next]_vars => [Kept]_vars
  <2> SUFFICES ASSUME StepOK, Next, cookie # NoPair, cookie' = NoPair
               PROVE  Kept
      BY DEF vars
  <2>1. PICK r \in Requests : Reply(r)
    <3>1. /\ \A p \in Pairs : ~Age(p) /\ ~Lapse(p)
          /\ ~Revoke /\ ~Return /\ ~Load
        BY DEF Age, Lapse, Revoke, Return, Load
    <3>2. \A r \in Requests : /\ ~Arrive(r) /\ ~Check(r) /\ ~Refresh(r)
                              /\ ~Handle(r) /\ ~LogIn(r) /\ ~StoreEvent(r)
        BY DEF Arrive, Check, Refresh, Handle, LogIn,
           StoreEvent
    <3>3. \A r \in Requests : /\ ~Bootstrap(r) /\ ~Poll(r) /\ ~LogOut(r)
                              /\ ~Submit(r) /\ ~Consume(r)
        BY DEF Bootstrap, Poll, LogOut, Submit, Consume
    <3> QED BY <3>1, <3>2, <3>3 DEF Next
  <2>2. cookie' = Cookie(r) /\ req[r].stage = "reply"
      BY <2>1 DEF Reply
  <2>3. CASE req[r].change = "set"
    <3>1. req[r].auth # NoPair
        BY <2>3 DEF StepOK, CredentialsOK, Credentials
    <3> QED BY <2>2, <2>3, <3>1 DEF Cookie
  <2>4. CASE req[r].change = "deleted"
      BY <2>2, <2>4 DEF StepOK, CredentialsOK, Credentials
  <2>5. CASE req[r].change \notin {"set", "deleted"}
      BY <2>2, <2>5 DEF Cookie
  <2> QED BY <2>3, <2>4, <2>5
<1> QED BY <1>1, StepInvariant, PTL DEF Spec, SessionKept

\* With one request at a time, all of this at once (auth.ts, api.ts; docs 001).
THEOREM SafeSession ==
    ASSUME SessionParameters, OneAtATime
    PROVE  Spec => SessionSafe
<1>1. Spec => []OnlyAdmins
    BY AdminsOnly
<1>2. Spec => []LogoutIsFinal
    BY LogoutFinal
<1>3. Spec => SessionKept
    BY SessionStays
<1> QED BY <1>1, <1>2, <1>3, PTL DEF SessionSafe

----------------------------------------------------------------------------
(* The proxies on the dashboard.                                            *)

\* The value is of the accounts it was read for.
ProxiesInv == (value = Nobody \/ value = readFor) /\ Proxies!ShownBelongs

LEMMA ProxiesNext ==
    ASSUME ProxiesInv, [Proxies!Next]_Proxies!vars
    PROVE  ProxiesInv'
BY DEF ProxiesInv, Proxies!ShownBelongs, Proxies!Next, Proxies!vars, Proxies!Save, Proxies!Poll,
   Proxies!Respond, Proxies!Read, Proxies!Tick, Proxies!Refresh

\* An answer never has the proxies of other accounts than the configured ones
\* beside it, though the accounts change while a read for earlier ones is under
\* way (refreshInfrastructure in routes.ts).
THEOREM ProxiesBelong == Proxies!Spec => []Proxies!ShownBelongs
<1>1. Proxies!Init => ProxiesInv
    BY DEF ProxiesInv, Proxies!ShownBelongs, Proxies!Init
<1>2. ProxiesInv /\ [Proxies!Next]_Proxies!vars => ProxiesInv'
    BY ProxiesNext
<1>3. ProxiesInv => Proxies!ShownBelongs
    BY DEF ProxiesInv
<1> QED BY <1>1, <1>2, <1>3, PTL DEF Proxies!Spec

----------------------------------------------------------------------------
(* The list of the input page.                                              *)

EntryType == [data : List!Answers \cup {None}, error : BOOLEAN, fetching : BOOLEAN]

\* An entry is asked for, or has the answer to its own key, or failed.
EntryOK(k, e) ==
    /\ e \in EntryType
    /\ e.data # None => e.data.key = k
    /\ e.fetching \/ e.data # None \/ e.error

EntriesOK ==
    /\ DOMAIN entry \subseteq List!Keys /\ List!Key \in DOMAIN entry
    /\ \A k \in DOMAIN entry : EntryOK(k, entry[k])

FieldsOK ==
    /\ range \in Ranges /\ page \in 1..MaxPages /\ queryRevision \in 0..MaxRevision
    /\ filter \in Filters /\ time \in Times \cup {None}
    /\ applied \in [filter : Filters, time : Times \cup {None}]

ListInv == FieldsOK /\ EntriesOK /\ previous \in List!Answers \cup {None}

LEMMA KeyIsTyped ==
    ASSUME FieldsOK
    PROVE  /\ List!Key \in List!Keys
           /\ List!Key.range = range /\ List!Key.applied = applied
           /\ List!Key.page = page /\ List!Key.revision = queryRevision
BY DEF FieldsOK, List!Key, List!Keys

LEMMA ListInvTypes ==
    ASSUME ListInv
    PROVE  List!TypeOK
BY DEF ListInv, FieldsOK, EntriesOK, EntryOK, EntryType, List!TypeOK

\* What the page shows is of the key it asks for, or the query failed.
LEMMA AnswerIsOfKey ==
    ASSUME ListInv
    PROVE  List!ShownIsAsked
<1>1. /\ List!Key \in DOMAIN entry /\ EntryOK(List!Key, entry[List!Key])
      /\ List!Entry(List!Key) = entry[List!Key]
    BY DEF ListInv, EntriesOK, List!Entry
<1> DEFINE e == entry[List!Key]
<1>2. SUFFICES ASSUME ~e.fetching
               PROVE  IF List!Shown = None THEN List!Failed ELSE List!Shown.key = List!Key
    BY <1>1 DEF List!ShownIsAsked, List!Fetching, List!Key
<1>3. CASE e.data # None
    BY <1>1, <1>2, <1>3 DEF List!Shown, EntryOK
<1>4. CASE e.data = None
    BY <1>1, <1>2, <1>4 DEF List!Shown, List!Failed, EntryOK
<1> QED BY <1>3, <1>4

\* An entry is set: the others stay.
LEMMA EntrySet ==
    ASSUME ListInv, NEW k \in List!Keys, NEW e, EntryOK(k, e), List!Set(k, e)
    PROVE  /\ DOMAIN entry' = DOMAIN entry \cup {k} /\ DOMAIN entry' \subseteq List!Keys
           /\ \A x \in DOMAIN entry' : EntryOK(x, entry'[x])
<1>1. entry' = [x \in DOMAIN entry \cup {k} |-> IF x = k THEN e ELSE entry[x]]
    BY DEF List!Set
<1>2. DOMAIN entry' = DOMAIN entry \cup {k} /\ DOMAIN entry' \subseteq List!Keys
    BY <1>1 DEF ListInv, EntriesOK
<1>3. ASSUME NEW x \in DOMAIN entry' PROVE EntryOK(x, entry'[x])
  <2>1. entry'[x] = IF x = k THEN e ELSE entry[x]
      BY <1>1, <1>3
  <2> QED BY <1>2, <2>1 DEF ListInv, EntriesOK
<1> QED BY <1>2, <1>3

LEMMA FetchedOK ==
    ASSUME ListInv, NEW k
    PROVE  EntryOK(k, List!Fetch(List!Entry(k)))
<1>1. List!Entry(k) \in EntryType /\ (List!Entry(k).data # None => List!Entry(k).data.key = k)
    BY DEF ListInv, EntriesOK, EntryOK, List!Entry, List!Unasked, EntryType
<1> QED BY <1>1 DEF List!Fetch, EntryOK, EntryType

\* The page goes to another key.
LEMMA MoveKeeps ==
    ASSUME ListInv, NEW new \in List!Keys, List!Move(new),
           filter' \in Filters, time' \in Times \cup {None}
    PROVE  /\ ListInv'
           /\ range' = new.range /\ applied' = new.applied /\ page' = new.page
<1>1. /\ range' = new.range /\ applied' = new.applied
      /\ page' = new.page /\ queryRevision' = new.revision
      /\ previous' = (IF List!Entry(List!Key).data # None THEN List!Entry(List!Key).data ELSE previous)
      /\ List!Set(List!Key', List!Fetch(List!Entry(List!Key')))
    BY DEF List!Move, List!Observe
<1>2. FieldsOK'
    BY <1>1 DEF FieldsOK, List!Keys
<1>3. List!Key' = new
    BY <1>1 DEF List!Key, List!Keys
<1>4. EntriesOK'
  <2>1. List!Set(new, List!Fetch(List!Entry(new))) /\ EntryOK(new, List!Fetch(List!Entry(new)))
      BY <1>1, <1>3, FetchedOK
  <2>2. /\ DOMAIN entry' = DOMAIN entry \cup {new} /\ DOMAIN entry' \subseteq List!Keys
        /\ \A x \in DOMAIN entry' : EntryOK(x, entry'[x])
      BY <2>1, EntrySet
  <2> QED BY <1>3, <2>2 DEF EntriesOK
<1>5. previous' \in List!Answers \cup {None}
  <2>1. List!Entry(List!Key).data \in List!Answers \cup {None}
      BY DEF ListInv, EntriesOK, EntryOK, EntryType, List!Entry
  <2> QED BY <1>1, <2>1 DEF ListInv
<1> QED BY <1>1, <1>2, <1>4, <1>5 DEF ListInv

\* The keys the page can go to.
LEMMA NewKeys ==
    ASSUME ListInv, List!PageParameters
    PROVE  /\ \A r \in Ranges :
                 LET new == [List!Key EXCEPT !.range = r, !.applied.time = None, !.page = 1]
                 IN  new \in List!Keys /\ new.page = 1
           /\ \A n \in 1..MaxPages :
                 LET new == [List!Key EXCEPT !.page = n]
                 IN  /\ new \in List!Keys /\ new.page = n
                     /\ new.range = range /\ new.applied = applied
           /\ queryRevision < MaxRevision =>
                 LET new == [List!Key EXCEPT !.applied = [filter |-> filter, time |-> time],
                                             !.page = 1, !.revision = @ + 1]
                 IN  new \in List!Keys /\ new.page = 1
<1>1. FieldsOK
    BY DEF ListInv
<1>2. ASSUME NEW r \in Ranges
      PROVE  LET new == [List!Key EXCEPT !.range = r, !.applied.time = None, !.page = 1]
             IN  new \in List!Keys /\ new.page = 1
  <2> DEFINE first == 1
  <2>1. first \in 1..MaxPages /\ None \in Times \cup {None}
      BY DEF List!PageParameters
  <2>2. List!Key \in [range : Ranges, applied : [filter : Filters, time : Times \cup {None}],
                     page : 1..MaxPages, revision : 0..MaxRevision]
      BY <1>1, KeyIsTyped DEF List!Keys
  <2> HIDE DEF first
  <2>3. LET new == [List!Key EXCEPT !.range = r, !.applied.time = None, !.page = first]
        IN  /\ new \in [range : Ranges, applied : [filter : Filters, time : Times \cup {None}],
                     page : 1..MaxPages, revision : 0..MaxRevision]
            /\ new.page = first
      BY <2>1, <2>2
  <2> QED BY <2>3 DEF first, List!Keys
<1>3. ASSUME NEW n \in 1..MaxPages
      PROVE  LET new == [List!Key EXCEPT !.page = n]
             IN  /\ new \in List!Keys /\ new.page = n
                 /\ new.range = range /\ new.applied = applied
    BY <1>1 DEF FieldsOK, List!Key, List!Keys
<1>4. ASSUME queryRevision < MaxRevision
      PROVE  LET new == [List!Key EXCEPT !.applied = [filter |-> filter, time |-> time],
                                         !.page = 1, !.revision = @ + 1]
             IN  new \in List!Keys /\ new.page = 1
  <2> DEFINE a == [filter |-> filter, time |-> time]
             next == queryRevision + 1
             first == 1
  <2>1. /\ a \in [filter : Filters, time : Times \cup {None}] /\ first \in 1..MaxPages
        /\ next \in 0..MaxRevision /\ List!Key.revision + 1 = next
      BY <1>1, <1>4, KeyIsTyped DEF FieldsOK, List!PageParameters
  <2>2. List!Key \in [range : Ranges, applied : [filter : Filters, time : Times \cup {None}],
                     page : 1..MaxPages, revision : 0..MaxRevision]
      BY <1>1, KeyIsTyped DEF List!Keys
  <2> HIDE DEF a, next, first
  <2>3. LET new == [List!Key EXCEPT !.applied = a, !.page = first, !.revision = next]
        IN  /\ new \in [range : Ranges, applied : [filter : Filters, time : Times \cup {None}],
                     page : 1..MaxPages, revision : 0..MaxRevision]
            /\ new.page = first
      BY <2>1, <2>2
  <2> QED BY <2>1, <2>3 DEF a, first, List!Keys
<1> QED BY <1>2, <1>3, <1>4

\* What a step does to the page: it stays, or begins anew, or is turned within
\* the answer that is shown.
PageStep ==
    \/ UNCHANGED <<range, applied, page>>
    \/ page' = 1
    \/ /\ UNCHANGED <<range, applied>> /\ page' \in {page - 1, page + 1}
       /\ ~List!Fetching
       /\ page' <= page \/ page' <= List!Pages

LEMMA SelectsKept ==
    ASSUME ListInv, List!PageParameters,
           \/ \E r \in Ranges : List!SelectRange(r)
           \/ \E f \in Filters : List!SelectFilter(f)
           \/ \E t \in Times \cup {None} : List!SelectTime(t)
           \/ List!ApplyFilters
    PROVE  ListInv' /\ PageStep
<1>1. FieldsOK
    BY DEF ListInv
<1>2. ASSUME NEW r \in Ranges, List!SelectRange(r) PROVE ListInv' /\ PageStep
  <2> DEFINE new == [List!Key EXCEPT !.range = r, !.applied.time = None, !.page = 1]
  <2>1. new \in List!Keys /\ new.page = 1
      BY NewKeys
  <2>2. List!ToRange(new) /\ time' = None /\ filter' = filter
      BY <1>2 DEF List!SelectRange, List!ToRange
  <2> HIDE DEF new
  <2>3. CASE List!Move(new)
      BY <1>1, <2>1, <2>2, <2>3, MoveKeeps DEF FieldsOK, PageStep
  <2>4. CASE UNCHANGED <<range, page, queryRevision, applied, entry, previous>>
      BY <1>1, <2>2, <2>4 DEF ListInv, FieldsOK, EntriesOK, List!Key, PageStep
  <2> QED BY <2>2, <2>3, <2>4 DEF List!ToRange
<1>3. ASSUME NEW f \in Filters, List!SelectFilter(f) PROVE ListInv' /\ PageStep
    BY <1>1, <1>3 DEF List!SelectFilter, ListInv, FieldsOK, EntriesOK, List!Key, PageStep
<1>4. ASSUME NEW t \in Times \cup {None}, List!SelectTime(t) PROVE ListInv' /\ PageStep
    BY <1>1, <1>4 DEF List!SelectTime, ListInv, FieldsOK, EntriesOK, List!Key, PageStep
<1>5. ASSUME List!ApplyFilters PROVE ListInv' /\ PageStep
  <2> DEFINE new == [List!Key EXCEPT !.applied = [filter |-> filter, time |-> time],
                                     !.page = 1, !.revision = @ + 1]
  <2>1. List!Move(new) /\ queryRevision < MaxRevision /\ UNCHANGED <<filter, time>>
      BY <1>5 DEF List!ApplyFilters
  <2>2. new \in List!Keys /\ new.page = 1
      BY <2>1, NewKeys
  <2> HIDE DEF new
  <2> QED BY <1>1, <2>1, <2>2, MoveKeeps DEF FieldsOK, PageStep
<1> QED BY <1>2, <1>3, <1>4, <1>5

LEMMA TurnKept ==
    ASSUME ListInv, List!PageParameters, NEW n \in 1..MaxPages, List!TurnPage(n)
    PROVE  ListInv' /\ PageStep
<1> DEFINE new == [List!Key EXCEPT !.page = n]
<1>1. /\ List!Move(new) /\ UNCHANGED <<filter, time>> /\ ~List!Fetching
      /\ n = page - 1 \/ (n = page + 1 /\ n <= List!Pages)
    BY DEF List!TurnPage
<1>2. new \in List!Keys /\ new.page = n /\ new.range = range /\ new.applied = applied
    BY NewKeys
<1> HIDE DEF new
<1>3. /\ ListInv' /\ range' = range /\ applied' = applied /\ page' = n
    BY <1>1, <1>2, MoveKeeps DEF ListInv, FieldsOK
<1>4. page \in Int /\ (n = page - 1 => n <= page)
    BY DEF ListInv, FieldsOK
<1> QED BY <1>1, <1>3, <1>4 DEF PageStep

LEMMA AnswersKept ==
    ASSUME ListInv, List!PageParameters,
           \/ List!Refetch \/ List!Forget
           \/ \E k \in DOMAIN entry : List!Answered(k) \/ List!AnswerFails(k)
    PROVE  ListInv' /\ PageStep
<1>1. /\ FieldsOK /\ EntriesOK /\ List!Key \in DOMAIN entry /\ DOMAIN entry \subseteq List!Keys
      /\ previous \in List!Answers \cup {None}
    BY DEF ListInv, EntriesOK
<1>2. CASE List!Refetch
  <2>1. /\ UNCHANGED <<range, page, queryRevision, filter, time, applied, previous>>
        /\ List!Set(List!Key, List!Fetch(List!Entry(List!Key)))
      BY <1>2 DEF List!Refetch
  <2>2. /\ DOMAIN entry' = DOMAIN entry \cup {List!Key} /\ DOMAIN entry' \subseteq List!Keys
        /\ \A x \in DOMAIN entry' : EntryOK(x, entry'[x])
      BY <1>1, <2>1, FetchedOK, EntrySet
  <2>3. FieldsOK' /\ List!Key' = List!Key
      BY <1>1, <2>1 DEF FieldsOK, List!Key
  <2> QED BY <1>1, <2>1, <2>2, <2>3 DEF ListInv, EntriesOK, PageStep
<1>3. CASE List!Forget
  <2>1. PICK k \in DOMAIN entry \ {List!Key} : entry' = [x \in DOMAIN entry \ {k} |-> entry[x]]
      BY <1>3 DEF List!Forget
  <2>2. UNCHANGED <<range, page, queryRevision, filter, time, applied, previous>>
      BY <1>3 DEF List!Forget
  <2>3. FieldsOK' /\ List!Key' = List!Key
      BY <1>1, <2>2 DEF FieldsOK, List!Key
  <2>4. EntriesOK'
      BY <1>1, <2>1, <2>3 DEF EntriesOK
  <2> QED BY <1>1, <2>2, <2>3, <2>4 DEF ListInv, PageStep
<1>4. ASSUME NEW k \in DOMAIN entry, NEW e, List!AnswerTo(k, e), EntryOK(k, e)
      PROVE  ListInv' /\ PageStep
  <2>1. /\ UNCHANGED <<range, page, queryRevision, filter, time, applied>> /\ List!Set(k, e)
        /\ previous' = IF k = List!Key /\ e.data # None THEN e.data ELSE previous
      BY <1>4 DEF List!AnswerTo
  <2>2. /\ DOMAIN entry' = DOMAIN entry \cup {k} /\ DOMAIN entry' \subseteq List!Keys
        /\ \A x \in DOMAIN entry' : EntryOK(x, entry'[x])
      BY <1>1, <1>4, <2>1, EntrySet
  <2>3. FieldsOK' /\ List!Key' = List!Key
      BY <1>1, <2>1 DEF FieldsOK, List!Key
  <2>4. previous' \in List!Answers \cup {None}
      BY <1>1, <1>4, <2>1 DEF EntryOK, EntryType
  <2> QED BY <1>1, <2>1, <2>2, <2>3, <2>4 DEF ListInv, EntriesOK, PageStep
<1>5. ASSUME NEW k \in DOMAIN entry, List!Answered(k) PROVE ListInv' /\ PageStep
  <2>1. PICK n \in 0..MaxPages :
          List!AnswerTo(k, [data |-> [key |-> k, pages |-> n], error |-> FALSE, fetching |-> FALSE])
      BY <1>5 DEF List!Answered
  <2> DEFINE data == [key |-> k, pages |-> n]
             e == [data |-> data, error |-> FALSE, fetching |-> FALSE]
  <2>2. data \in List!Answers /\ data # None /\ data.key = k
      BY <1>1 DEF List!PageParameters, List!Answers
  <2>3. EntryOK(k, e)
    <3> HIDE DEF data
    <3> QED BY <2>2 DEF EntryOK, EntryType
  <2> QED BY <1>4, <2>1, <2>3
<1>6. ASSUME NEW k \in DOMAIN entry, List!AnswerFails(k) PROVE ListInv' /\ PageStep
  <2> DEFINE e == [List!Entry(k) EXCEPT !.error = TRUE, !.fetching = FALSE]
  <2>1. List!AnswerTo(k, e)
      BY <1>6 DEF List!AnswerFails
  <2>2. EntryOK(k, entry[k]) /\ List!Entry(k) = entry[k]
      BY <1>1 DEF EntriesOK, List!Entry
  <2>3. EntryOK(k, e)
      BY <2>2 DEF EntryOK, EntryType
  <2> QED BY <1>4, <2>1, <2>3
<1> QED BY <1>2, <1>3, <1>5, <1>6

LEMMA ListNext ==
    ASSUME ListInv, List!PageParameters, [List!Next]_List!vars
    PROVE  ListInv' /\ PageStep
<1>1. CASE UNCHANGED List!vars
    BY <1>1 DEF List!vars, ListInv, FieldsOK, EntriesOK, List!Key, PageStep
<1> QED BY <1>1, SelectsKept, TurnKept, AnswersKept DEF List!Next

LEMMA ListInvariant ==
    ASSUME List!PageParameters
    PROVE  List!Spec => [](ListInv /\ List!ShownIsAsked) /\ [][PageStep]_List!vars
<1>1. List!Init => ListInv
  <2> SUFFICES ASSUME List!Init PROVE ListInv
      OBVIOUS
  <2>1. List!NoFilter \in Filters
      BY DEF List!NoFilter, List!PageParameters
  <2> DEFINE k == [range |-> "day", applied |-> [filter |-> List!NoFilter, time |-> None],
                   page |-> 1, revision |-> 0]
  <2>2. k \in List!Keys /\ FieldsOK /\ List!Key = k
      BY <2>1 DEF List!Init, FieldsOK, List!PageParameters, List!Keys, List!Key
  <2>3. EntryOK(k, List!Fetch(List!Unasked))
      BY DEF EntryOK, EntryType, List!Fetch, List!Unasked
  <2>4. DOMAIN entry = {k} /\ entry[k] = List!Fetch(List!Unasked)
      BY DEF List!Init
  <2> HIDE DEF k
  <2> QED BY <2>2, <2>3, <2>4 DEF ListInv, EntriesOK, List!Init
<1>2. ListInv /\ [List!Next]_List!vars => ListInv' /\ PageStep
    BY ListNext
<1>3. ListInv => List!ShownIsAsked
    BY AnswerIsOfKey
<1> QED BY <1>1, <1>2, <1>3, PTL DEF List!Spec

\* Once nothing is fetched for the key of the page, the rows are those of its
\* range, filters, page and revision, or the page says that the query failed,
\* whatever answer came late (the query of InputHealthPage.tsx).
THEOREM RowsAreAsked ==
    ASSUME List!PageParameters
    PROVE  List!Spec => [](List!TypeOK /\ List!ShownIsAsked)
<1>1. ListInv => List!TypeOK
    BY ListInvTypes
<1> QED BY <1>1, ListInvariant, PTL

\* Another range or other filters begin at their first page.
THEOREM BeginsAtFirst ==
    ASSUME List!PageParameters
    PROVE  List!Spec => List!FirstPage
<1>1. PageStep => (range' # range \/ applied' # applied => page' = 1)
    BY DEF PageStep
<1> QED BY <1>1, ListInvariant, PTL DEF List!FirstPage

\* A page is turned forward only to one that the rows shown have, and only while
\* they are those of the range and the filters in force (keepPreviousData).
THEOREM TurnsWithinAnswer ==
    ASSUME List!PageParameters
    PROVE  List!Spec => List!TurnedWithinAnswer
<1> DEFINE Turned == page' = page + 1 /\ List!Shown # None =>
          /\ List!Shown.key.applied = applied /\ List!Shown.key.range = range
          /\ page' <= List!Shown.pages
<1>1. ListInv /\ List!ShownIsAsked /\ [PageStep]_List!vars => [Turned]_List!vars
  <2> SUFFICES ASSUME ListInv, List!ShownIsAsked, PageStep, page' = page + 1, List!Shown # None
               PROVE  /\ List!Shown.key.applied = applied /\ List!Shown.key.range = range
                      /\ page' <= List!Shown.pages
      OBVIOUS
  <2>1. page \in 1..MaxPages
      BY DEF ListInv, FieldsOK
  <2>2. ~List!Fetching /\ page' <= List!Pages
      BY <2>1 DEF PageStep
  <2>3. List!Shown.key.applied = applied /\ List!Shown.key.range = range
      BY <2>2 DEF List!ShownIsAsked
  <2>4. page' <= List!Shown.pages
      BY <2>1, <2>2 DEF List!Pages
  <2> QED BY <2>3, <2>4
<1> QED BY <1>1, ListInvariant, PTL DEF List!TurnedWithinAnswer

----------------------------------------------------------------------------
(* The shared reports.                                                      *)

ReadType == [key : Reports!Keys, age : Nat, done : SUBSET Reports!Queries, of : Reports!Keys]
ResultType == [of : Reports!Keys, age : Nat, left : Nat]
QueryType == [read : Reads, query : Reports!Queries, key : Reports!Keys, time : Nat]
ClientType == [at : {"idle", "resolving", "waiting"}, account : Accounts \cup {None},
               groups : GroupLists \cup {None}, read : Reads \cup {None}]
ReportType == [key : Reports!Keys, age : Nat]

ReportsTyped ==
    /\ groupsOf \in [Accounts -> GroupLists]
    /\ client \in [Clients -> ClientType] /\ report \in [Clients -> ReportType \cup {None}]
    /\ DOMAIN reads \subseteq Reads /\ \A r \in DOMAIN reads : reads[r] \in ReadType
    /\ DOMAIN reading \subseteq Reports!Keys
    /\ connection \in QueryType \cup {None} /\ queries \in Seq(QueryType)

ResultsTyped ==
    /\ DOMAIN results \subseteq Reports!Keys /\ \A k \in DOMAIN results : results[k] \in ResultType
    /\ IsFiniteSet(DOMAIN results) /\ Cardinality(DOMAIN results) <= MaxResults

\* A read is the one of its question, and a question that is read has a read.
ReadsOK ==
    /\ \A r \in DOMAIN reads : /\ reads[r].of = reads[r].key
                              /\ reads[r].key \in DOMAIN reading
                              /\ reading[reads[r].key] = r
    /\ \A k \in DOMAIN reading : reading[k] \in DOMAIN reads /\ reads[reading[k]].key = k

\* A result is of its own question and gets no older than it is shared.
Oldest == Wait + Statement + Shared
ResultsOK ==
    \A k \in DOMAIN results : results[k].of = k /\ results[k].age + results[k].left <= Oldest

\* A browser waits for a read of its own question, and has no answer meanwhile.
KeyOf(b) == Reports!Key(b.account, b.groups)
ClientOK(b, a) ==
    /\ b.at # "idle" => a = None /\ b.account \in Accounts /\ b.groups \in GroupLists
    /\ b.at = "waiting" => b.read \in DOMAIN reads /\ reads[b.read].key = KeyOf(b)
    /\ b.at # "waiting" => b.read = None
    /\ b.at = "idle" /\ b.account # None /\ a # None => a.key = KeyOf(b)
    /\ a # None => a.age <= Oldest
ClientsOK == \A c \in Clients : ClientOK(client[c], report[c])

\* A read is as old as its queries have waited.
QueuedOK(q) ==
    q.time <= Wait /\ (q.read \in DOMAIN reads => reads[q.read].age = q.time)
QueriesOK == \A i \in DOMAIN queries : QueuedOK(queries[i])
ConnectionOK ==
    connection # None =>
        /\ connection.time <= Statement
        /\ connection.read \in DOMAIN reads => reads[connection.read].age <= Wait + connection.time

ReportsInv ==
    /\ ReportsTyped /\ ResultsTyped /\ ReadsOK /\ ResultsOK /\ ClientsOK
    /\ QueriesOK /\ ConnectionOK

LEMMA KeysTyped ==
    ASSUME NEW account \in Accounts, NEW groups \in GroupLists
    PROVE  Reports!Key(account, groups) \in Reports!Keys
BY DEF Reports!Key, Reports!Keys

LEMMA SameCardinality ==
    ASSUME NEW S
    PROVE  Reports!Cardinality(S) = Cardinality(S)
BY DEF Cardinality, Reports!Cardinality

LEMMA ReportsInvTypes ==
    ASSUME Reports!ReportParameters, ReportsInv
    PROVE  /\ Reports!TypeOK /\ Reports!OwnAnswer /\ Reports!Fresh /\ Reports!OneReadPerKey
<1>1. Reports!TypeOK
  <2>1. /\ groupsOf \in [Accounts -> GroupLists]
        /\ DOMAIN reads \subseteq Reads /\ \A r \in DOMAIN reads : reads[r].key \in Reports!Keys
        /\ DOMAIN reading \subseteq Reports!Keys
        /\ DOMAIN results \subseteq Reports!Keys /\ Reports!Cardinality(DOMAIN results) <= MaxResults
      BY SameCardinality DEF ReportsInv, ReportsTyped, ResultsTyped, ReadType
  <2>2. \A c \in Clients :
          /\ client[c].at \in {"idle", "resolving", "waiting"}
          /\ client[c].read \in Reads \cup {None}
          /\ report[c] = None \/ report[c].key \in Reports!Keys
      BY DEF ReportsInv, ReportsTyped, ClientType, ReportType
  <2>3. ASSUME NEW q \in Reports!InPool
        PROVE  q.query \in Reports!Queries /\ q.time \in 0..(Wait + Statement)
    <3>1. CASE q = connection /\ connection # None
        BY <3>1 DEF ReportsInv, ReportsTyped, QueryType, ConnectionOK, Reports!ReportParameters
    <3>2. ASSUME NEW i \in DOMAIN queries, q = queries[i]
          PROVE  q.query \in Reports!Queries /\ q.time \in 0..(Wait + Statement)
      <4>1. q \in QueryType /\ QueuedOK(q)
          BY <3>2 DEF ReportsInv, ReportsTyped, QueriesOK
      <4> QED BY <4>1 DEF QueryType, QueuedOK, Reports!ReportParameters
    <3>3. (q = connection /\ connection # None) \/ \E i \in DOMAIN queries : q = queries[i]
        BY DEF Reports!InPool, Reports!ToSet
    <3> QED BY <3>1, <3>2, <3>3
  <2> QED BY <2>1, <2>2, <2>3 DEF Reports!TypeOK
<1>2. Reports!OwnAnswer
    BY DEF ReportsInv, ClientsOK, ClientOK, KeyOf, Reports!OwnAnswer, Reports!Key
<1>3. Reports!Fresh
    BY DEF ReportsInv, ClientsOK, ClientOK, Oldest, Reports!Fresh
<1>4. Reports!OneReadPerKey
    BY DEF ReportsInv, ReadsOK, Reports!OneReadPerKey
<1> QED BY <1>1, <1>2, <1>3, <1>4

\* The readers and their reads; the results; the pool.
ReadersOK ==
    /\ client \in [Clients -> ClientType] /\ report \in [Clients -> ReportType \cup {None}]
    /\ DOMAIN reads \subseteq Reads /\ \A r \in DOMAIN reads : reads[r] \in ReadType
    /\ DOMAIN reading \subseteq Reports!Keys
    /\ ReadsOK /\ ClientsOK
PoolOK ==
    /\ connection \in QueryType \cup {None} /\ queries \in Seq(QueryType)
    /\ QueriesOK /\ ConnectionOK

LEMMA ReportsParts ==
    ReportsInv <=> /\ groupsOf \in [Accounts -> GroupLists] /\ ReadersOK
                   /\ ResultsTyped /\ ResultsOK /\ PoolOK
BY DEF ReportsInv, ReportsTyped, ReadersOK, PoolOK

\* One browser changes, the reads do not.
LEMMA ClientMoves ==
    ASSUME ReadersOK, NEW c \in Clients, NEW b \in ClientType, NEW a \in ReportType \cup {None},
           client' = [client EXCEPT ![c] = b], report' = [report EXCEPT ![c] = a],
           UNCHANGED <<reads, reading>>, ClientOK(b, a)
    PROVE  ReadersOK'
<1>1. /\ client' \in [Clients -> ClientType] /\ report' \in [Clients -> ReportType \cup {None}]
      /\ \A d \in Clients : /\ client'[d] = IF d = c THEN b ELSE client[d]
                            /\ report'[d] = IF d = c THEN a ELSE report[d]
    BY DEF ReadersOK
<1>2. ClientsOK'
    BY <1>1 DEF ReadersOK, ClientsOK, ClientOK
<1>3. ReadsOK'
    BY DEF ReadersOK, ReadsOK
<1> QED BY <1>1, <1>2, <1>3 DEF ReadersOK

\* The pool, when reads are settled and queries leave it.
LEMMA PoolShrinks ==
    ASSUME PoolOK, DOMAIN reads' \subseteq DOMAIN reads,
           \A r \in DOMAIN reads' : reads'[r].age = reads[r].age,
           queries' \in Seq(QueryType),
           \A i \in DOMAIN queries' : \E j \in DOMAIN queries : queries'[i] = queries[j],
           connection' \in {connection, None}
    PROVE  PoolOK'
<1>1. ASSUME NEW i \in DOMAIN queries'
      PROVE  /\ queries'[i].time <= Wait
             /\ queries'[i].read \in DOMAIN reads' => reads'[queries'[i].read].age = queries'[i].time
  <2>1. PICK j \in DOMAIN queries : queries'[i] = queries[j]
      BY <1>1
  <2>2. QueuedOK(queries[j])
      BY DEF PoolOK, QueriesOK
  <2> QED BY <2>1, <2>2 DEF QueuedOK
<1>2. ConnectionOK'
    BY DEF PoolOK, ConnectionOK
<1> QED BY <1>1, <1>2 DEF PoolOK, QueriesOK, QueuedOK

LEMMA RouteKept ==
    ASSUME Reports!ReportParameters, ReportsInv,
           \/ \E c \in Clients : Reports!Ask(c) \/ Reports!Fail(c)
           \/ \E a \in Accounts : Reports!Configure(a)
           \/ UNCHANGED Reports!vars
    PROVE  ReportsInv'
<1>1. /\ groupsOf \in [Accounts -> GroupLists] /\ ReadersOK
      /\ ResultsTyped /\ ResultsOK /\ PoolOK
    BY ReportsParts
<1>2. ASSUME UNCHANGED <<reads, reading, results, connection, queries>>,
             groupsOf' \in [Accounts -> GroupLists], ReadersOK'
      PROVE  ReportsInv'
  <2>1. /\ ResultsTyped' /\ ResultsOK' /\ PoolOK'
      BY <1>1, <1>2 DEF ResultsTyped, ResultsOK, PoolOK, QueriesOK, QueuedOK, ConnectionOK
  <2> QED BY <1>2, <2>1 DEF ReportsInv, ReportsTyped, ReadersOK, PoolOK
<1>3. ASSUME NEW c \in Clients, Reports!Ask(c) PROVE ReportsInv'
  <2>1. PICK a \in Accounts :
          client' = [client EXCEPT ![c] = [at |-> "resolving", account |-> a,
                                           groups |-> groupsOf[a], read |-> None]]
      BY <1>3 DEF Reports!Ask
  <2> DEFINE b == [at |-> "resolving", account |-> a, groups |-> groupsOf[a], read |-> None]
  <2>2. b \in ClientType /\ ClientOK(b, None)
      BY <1>1 DEF ClientType, ClientOK
  <2>3. /\ report' = [report EXCEPT ![c] = None]
        /\ UNCHANGED <<groupsOf, reads, reading, results, connection, queries>>
      BY <1>3 DEF Reports!Ask
  <2> HIDE DEF b
  <2>4. client' = [client EXCEPT ![c] = b]
      BY <2>1 DEF b
  <2>5. ReadersOK'
      BY <1>1, <2>2, <2>3, <2>4, ClientMoves
  <2> QED BY <1>1, <1>2, <2>3, <2>5
<1>4. ASSUME NEW c \in Clients, Reports!Fail(c) PROVE ReportsInv'
  <2>1. /\ client' = [client EXCEPT ![c] = Reports!Idle] /\ client[c].at = "resolving"
        /\ UNCHANGED <<groupsOf, report, reads, reading, results, connection, queries>>
      BY <1>4 DEF Reports!Fail
  <2>2. report[c] = None /\ report' = [report EXCEPT ![c] = None]
      BY <1>1, <2>1 DEF ReadersOK, ClientsOK, ClientOK
  <2>3. Reports!Idle \in ClientType /\ ClientOK(Reports!Idle, None)
      BY DEF Reports!Idle, ClientType, ClientOK
  <2>4. ReadersOK'
      BY <1>1, <2>1, <2>2, <2>3, ClientMoves
  <2> QED BY <1>1, <1>2, <2>1, <2>4
<1>5. ASSUME NEW a \in Accounts, Reports!Configure(a) PROVE ReportsInv'
  <2>1. /\ UNCHANGED <<client, report, reads, reading, results, connection, queries>>
        /\ groupsOf' \in [Accounts -> GroupLists]
      BY <1>1, <1>5 DEF Reports!Configure
  <2>2. ReadersOK'
      BY <1>1, <2>1 DEF ReadersOK, ReadsOK, ClientsOK, ClientOK
  <2> QED BY <1>2, <2>1, <2>2
<1>6. CASE UNCHANGED Reports!vars
  <2>1. UNCHANGED <<groupsOf, client, report, reads, reading, results, connection, queries>>
      BY <1>6 DEF Reports!vars
  <2>2. ReadersOK'
      BY <1>1, <2>1 DEF ReadersOK, ReadsOK, ClientsOK, ClientOK
  <2> QED BY <1>1, <1>2, <2>1, <2>2
<1> QED BY <1>3, <1>4, <1>5, <1>6

\* Two queries are handed to the pool.
LEMMA TwoMore ==
    ASSUME NEW T, NEW s \in Seq(T), NEW x \in T, NEW y \in T
    PROVE  /\ s \o <<x, y>> \in Seq(T)
           /\ \A i \in DOMAIN (s \o <<x, y>>) :
                 \/ \E j \in DOMAIN s : (s \o <<x, y>>)[i] = s[j]
                 \/ (s \o <<x, y>>)[i] = x
                 \/ (s \o <<x, y>>)[i] = y
<1>1. <<x, y>> \in Seq(T) /\ Len(<<x, y>>) = 2 /\ <<x, y>>[1] = x /\ <<x, y>>[2] = y
    OBVIOUS
<1> DEFINE t == <<x, y>>
<1>2. t \in Seq(T) /\ Len(t) = 2 /\ t[1] = x /\ t[2] = y
    BY <1>1
<1> HIDE DEF t
<1>3. s \o t \in Seq(T) /\ Len(s \o t) = Len(s) + 2 /\ Len(s) \in Nat
  <2>1. Len(s) \in Nat
      OBVIOUS
  <2>2. s \o t \in Seq(T)
      BY <1>2
  <2>3. Len(s \o t) = Len(s) + Len(t)
      BY <1>2, ConcatProperties
  <2> QED BY <1>2, <2>1, <2>2, <2>3
<1>4. ASSUME NEW i \in DOMAIN (s \o t)
      PROVE  \/ \E j \in DOMAIN s : (s \o t)[i] = s[j]
             \/ (s \o t)[i] = x \/ (s \o t)[i] = y
  <2>1. i \in 1..(Len(s) + 2)
      BY <1>3
  <2>2. CASE i <= Len(s)
      BY <1>2, <2>1, <2>2
  <2>3. CASE i > Len(s)
    <3>1. (s \o t)[i] = t[i - Len(s)] /\ i - Len(s) \in {1, 2}
        BY <1>2, <1>3, <2>1, <2>3
    <3> QED BY <1>2, <3>1
  <2> QED BY <1>3, <2>1, <2>2, <2>3
<1> QED BY <1>3, <1>4 DEF t

LEMMA NewReadKept ==
    ASSUME Reports!ReportParameters, ReportsInv, NEW c \in Clients, client[c].at = "resolving",
           KeyOf(client[c]) \notin DOMAIN reading, Reports!NewRead(c, KeyOf(client[c])),
           UNCHANGED <<groupsOf, results, connection>>
    PROVE  ReportsInv'
<1> DEFINE key == KeyOf(client[c])
           b(r) == [client[c] EXCEPT !.at = "waiting", !.read = r]
           new == [key |-> key, age |-> 0, done |-> {}, of |-> key]
           first(r) == [read |-> r, query |-> "usage", key |-> key, time |-> 0]
           second(r) == [read |-> r, query |-> "users", key |-> key, time |-> 0]
<1>1. /\ ReadersOK /\ ResultsTyped /\ ResultsOK /\ PoolOK
      /\ client[c] \in ClientType /\ ClientOK(client[c], report[c])
      /\ client[c].account \in Accounts /\ client[c].groups \in GroupLists /\ report[c] = None
    BY ReportsParts DEF ReadersOK, ClientsOK, ClientOK
<1>2. key \in Reports!Keys
    BY <1>1, KeysTyped DEF KeyOf
<1>3. PICK r \in Reads \ (DOMAIN reads \cup {q.read : q \in Reports!InPool}) :
          /\ reads' = Reports!With(reads, r, new)
          /\ reading' = Reports!With(reading, key, r)
          /\ queries' = queries \o <<first(r), second(r)>>
          /\ client' = [client EXCEPT ![c] = b(r)]
    BY DEF Reports!NewRead, KeyOf, Reports!Key
<1>4. /\ r \in Reads /\ r \notin DOMAIN reads
      /\ \A i \in DOMAIN queries : queries[i].read # r
      /\ connection # None => connection.read # r
    BY <1>3 DEF Reports!InPool, Reports!ToSet
<1>5. /\ DOMAIN reads' = DOMAIN reads \cup {r} /\ reads'[r] = new
      /\ \A s \in DOMAIN reads : reads'[s] = reads[s]
      /\ DOMAIN reading' = DOMAIN reading \cup {key} /\ reading'[key] = r
      /\ \A k \in DOMAIN reading : reading'[k] = reading[k]
    BY <1>3, <1>4 DEF Reports!With
<1>6. new \in ReadType /\ new.key = key /\ new.of = key /\ new.age = 0
    BY <1>2 DEF ReadType
<1>7. /\ b(r) \in ClientType /\ b(r).at = "waiting" /\ b(r).read = r
      /\ b(r).account = client[c].account /\ b(r).groups = client[c].groups
    BY <1>1, <1>4 DEF ClientType
<1>8. first(r) \in QueryType /\ second(r) \in QueryType
      /\ first(r).read = r /\ first(r).time = 0 /\ second(r).read = r /\ second(r).time = 0
    BY <1>2, <1>4 DEF QueryType, Reports!Queries
<1>9. key = KeyOf(client[c]) /\ report' = report /\ UNCHANGED <<groupsOf, results, connection>>
    BY DEF Reports!NewRead
<1> DEFINE x == first(r)
           y == second(r)
           d == b(r)
<1>10. /\ queries' = queries \o <<x, y>> /\ x \in QueryType /\ y \in QueryType
       /\ x.read = r /\ x.time = 0 /\ y.read = r /\ y.time = 0
    BY <1>3, <1>8
<1>11. /\ client' = [client EXCEPT ![c] = d] /\ d \in ClientType /\ d.at = "waiting" /\ d.read = r
       /\ d.account = client[c].account /\ d.groups = client[c].groups
    BY <1>3, <1>7
<1> HIDE DEF key, b, new, first, second, x, y, d
<1>12. /\ client' \in [Clients -> ClientType]
       /\ \A e \in Clients : client'[e] = IF e = c THEN d ELSE client[e]
    BY <1>1, <1>11 DEF ReadersOK
<1>13. ReadsOK'
  <2>1. ASSUME NEW s \in DOMAIN reads'
        PROVE  /\ reads'[s].of = reads'[s].key /\ reads'[s].key \in DOMAIN reading'
               /\ reading'[reads'[s].key] = s
    <3>1. CASE s = r
        BY <1>5, <1>6, <3>1
    <3>2. CASE s # r
      <4>1. s \in DOMAIN reads /\ reads'[s] = reads[s]
          BY <1>5, <3>2
      <4>2. /\ reads[s].of = reads[s].key /\ reads[s].key \in DOMAIN reading
            /\ reading[reads[s].key] = s
          BY <1>1, <4>1 DEF ReadersOK, ReadsOK
      <4> QED BY <1>5, <4>1, <4>2
    <3> QED BY <3>1, <3>2
  <2>2. ASSUME NEW k \in DOMAIN reading'
        PROVE  reading'[k] \in DOMAIN reads' /\ reads'[reading'[k]].key = k
    <3>1. CASE k = key
        BY <1>5, <1>6, <3>1
    <3>2. CASE k # key
        BY <1>1, <1>5, <3>2 DEF ReadersOK, ReadsOK
    <3> QED BY <3>1, <3>2
  <2> QED BY <2>1, <2>2 DEF ReadsOK
<1>14. ClientsOK'
  <2>1. ASSUME NEW e \in Clients PROVE ClientOK(client[e], report[e])'
    <3>1. CASE e = c
      <4>1. KeyOf(d) = key
          BY <1>9, <1>11 DEF KeyOf
      <4>2. client'[e] = d /\ report'[e] = None
          BY <1>1, <1>9, <1>12, <3>1
      <4>3. d.account \in Accounts /\ d.groups \in GroupLists
          BY <1>1, <1>11
      <4> QED BY <1>5, <1>6, <1>11, <4>1, <4>2, <4>3 DEF ClientOK
    <3>2. CASE e # c
      <4>1. ClientOK(client[e], report[e]) /\ client'[e] = client[e] /\ report'[e] = report[e]
          BY <1>1, <1>9, <1>12, <3>2 DEF ReadersOK, ClientsOK
      <4> QED BY <1>5, <4>1 DEF ClientOK
    <3> QED BY <3>1, <3>2
  <2> QED BY <2>1 DEF ClientsOK
<1>15. ReadersOK'
  <2>1. /\ report' \in [Clients -> ReportType \cup {None}]
        /\ DOMAIN reads' \subseteq Reads /\ \A s \in DOMAIN reads' : reads'[s] \in ReadType
        /\ DOMAIN reading' \subseteq Reports!Keys
      BY <1>1, <1>2, <1>4, <1>5, <1>6, <1>9 DEF ReadersOK
  <2> QED BY <1>12, <1>13, <1>14, <2>1 DEF ReadersOK
<1>16. PoolOK'
  <2>1. queries \in Seq(QueryType)
      BY <1>1 DEF PoolOK
  <2>2. /\ queries' \in Seq(QueryType)
        /\ \A i \in DOMAIN queries' :
              (\E j \in DOMAIN queries : queries'[i] = queries[j]) \/ queries'[i] = x \/ queries'[i] = y
      BY <1>10, <2>1, TwoMore
  <2>3. ASSUME NEW i \in DOMAIN queries'
        PROVE  /\ queries'[i].time <= Wait
               /\ queries'[i].read \in DOMAIN reads' => reads'[queries'[i].read].age = queries'[i].time
    <3>1. CASE \E j \in DOMAIN queries : queries'[i] = queries[j]
      <4>1. PICK j \in DOMAIN queries : queries'[i] = queries[j]
          BY <3>1
      <4>2. QueuedOK(queries[j])
          BY <1>1 DEF PoolOK, QueriesOK
      <4> QED BY <1>4, <1>5, <4>1, <4>2 DEF QueuedOK
    <3>2. CASE queries'[i] = x \/ queries'[i] = y
        BY <1>5, <1>6, <1>10, <3>2 DEF Reports!ReportParameters
    <3> QED BY <2>2, <3>1, <3>2
  <2>4. ConnectionOK'
      BY <1>1, <1>4, <1>5, <1>9 DEF PoolOK, ConnectionOK
  <2> QED BY <1>1, <1>9, <2>2, <2>3, <2>4 DEF PoolOK, QueriesOK, QueuedOK
<1>17. ResultsTyped' /\ ResultsOK' /\ groupsOf' \in [Accounts -> GroupLists]
    BY <1>1, <1>9, ReportsParts DEF ResultsTyped, ResultsOK
<1> QED BY <1>15, <1>16, <1>17 DEF ReportsInv, ReportsTyped, ReadersOK, PoolOK

LEMMA AccountAnalyticsKept ==
    ASSUME Reports!ReportParameters, ReportsInv, NEW c \in Clients, Reports!AccountAnalytics(c)
    PROVE  ReportsInv'
<1> DEFINE key == KeyOf(client[c])
<1>1. /\ ReadersOK /\ ResultsTyped /\ ResultsOK /\ PoolOK /\ groupsOf \in [Accounts -> GroupLists]
      /\ client[c] \in ClientType /\ ClientOK(client[c], report[c])
    BY ReportsParts DEF ReadersOK, ClientsOK
<1>2. /\ client[c].at = "resolving" /\ UNCHANGED <<groupsOf, results, connection>>
      /\ \/ Reports!FromResults(c, key)
         \/ Reports!FromPending(c, key)
         \/ key \notin DOMAIN reading /\ Reports!NewRead(c, key)
    BY DEF Reports!AccountAnalytics, KeyOf
<1>3. client[c].account \in Accounts /\ client[c].groups \in GroupLists
      /\ client[c].read = None /\ report[c] = None
    BY <1>1, <1>2 DEF ClientOK
<1>4. ASSUME UNCHANGED <<reads, reading, queries>>, ReadersOK' PROVE ReportsInv'
  <2>1. /\ ResultsTyped' /\ ResultsOK' /\ PoolOK'
      BY <1>1, <1>2, <1>4 DEF ResultsTyped, ResultsOK, PoolOK, QueriesOK, QueuedOK, ConnectionOK
  <2> QED BY <1>1, <1>2, <1>4, <2>1 DEF ReportsInv, ReportsTyped, ReadersOK, PoolOK
<1>5. CASE Reports!FromResults(c, key)
  <2> DEFINE b == [client[c] EXCEPT !.at = "idle"]
             a == [key |-> results[key].of, age |-> results[key].age]
  <2>1. /\ UNCHANGED <<reads, reading, queries>> /\ key \in DOMAIN results
        /\ client' = [client EXCEPT ![c] = b] /\ report' = [report EXCEPT ![c] = a]
      BY <1>5 DEF Reports!FromResults, Reports!Cached
  <2>2. results[key] \in ResultType /\ results[key].of = key
        /\ results[key].age + results[key].left <= Oldest
      BY <1>1, <2>1 DEF ResultsTyped, ResultsOK
  <2>3. /\ b \in ClientType /\ b.at = "idle" /\ b.read = client[c].read
        /\ b.account = client[c].account /\ b.groups = client[c].groups
      BY <1>1 DEF ClientType
  <2>4. /\ a \in ReportType /\ a.key = key /\ a.age <= Oldest
      BY <2>2 DEF ResultType, ReportType, Oldest, Reports!ReportParameters
  <2>5. KeyOf(b) = key
      BY <2>3 DEF KeyOf
  <2> HIDE DEF a, b, key
  <2>6. ClientOK(b, a)
      BY <1>3, <2>3, <2>4, <2>5 DEF ClientOK
  <2>7. ReadersOK'
      BY <1>1, <2>1, <2>3, <2>4, <2>6, ClientMoves
  <2> QED BY <1>4, <2>1, <2>7
<1>6. CASE Reports!FromPending(c, key)
  <2> DEFINE b == [client[c] EXCEPT !.at = "waiting", !.read = reading[key]]
  <2>1. /\ UNCHANGED <<report, reads, reading, queries>> /\ key \in DOMAIN reading
        /\ client' = [client EXCEPT ![c] = b]
      BY <1>6 DEF Reports!FromPending
  <2>2. reading[key] \in DOMAIN reads /\ reads[reading[key]].key = key /\ reading[key] \in Reads
      BY <1>1, <2>1 DEF ReadersOK, ReadsOK
  <2>3. /\ b \in ClientType /\ b.at = "waiting" /\ b.read = reading[key]
        /\ b.account = client[c].account /\ b.groups = client[c].groups
      BY <1>1, <2>2 DEF ClientType
  <2>4. KeyOf(b) = key /\ report' = [report EXCEPT ![c] = None]
      BY <1>1, <1>3, <2>1, <2>3 DEF KeyOf, ReadersOK
  <2> HIDE DEF b, key
  <2>5. ClientOK(b, None)
      BY <1>3, <2>2, <2>3, <2>4 DEF ClientOK
  <2>6. ReadersOK'
      BY <1>1, <2>1, <2>3, <2>4, <2>5, ClientMoves
  <2> QED BY <1>4, <2>1, <2>6
<1>7. CASE key \notin DOMAIN reading /\ Reports!NewRead(c, key)
    BY <1>2, <1>7, NewReadKept
<1> QED BY <1>2, <1>5, <1>6, <1>7

\* A read is settled: those who wait for it get its report, or none.
LEMMA SettledKept ==
    ASSUME Reports!ReportParameters, ReadersOK, NEW r \in DOMAIN reads, Reports!Settle(r),
           reading' = Reports!Without(reading, reads[r].key),
           report' \in [Clients -> ReportType \cup {None}],
           \A c \in Clients :
              \/ report'[c] = report[c]
              \/ /\ client[c].read = r /\ report'[c].key = reads[r].of
                 /\ report'[c].age <= Oldest
    PROVE  /\ ReadersOK' /\ DOMAIN reads' = DOMAIN reads \ {r}
           /\ \A s \in DOMAIN reads' : reads'[s] = reads[s]
<1>1. /\ DOMAIN reads' = DOMAIN reads \ {r} /\ \A s \in DOMAIN reads' : reads'[s] = reads[s]
      /\ DOMAIN reading' = DOMAIN reading \ {reads[r].key}
      /\ \A k \in DOMAIN reading' : reading'[k] = reading[k]
    BY DEF Reports!Settle, Reports!Without
<1>2. \A s \in DOMAIN reads : /\ reads[s].of = reads[s].key /\ reads[s].key \in DOMAIN reading
                              /\ reading[reads[s].key] = s
    BY DEF ReadersOK, ReadsOK
<1>3. \A k \in DOMAIN reading : reading[k] \in DOMAIN reads /\ reads[reading[k]].key = k
    BY DEF ReadersOK, ReadsOK
<1>4. ReadsOK'
  <2>1. \A s \in DOMAIN reads' : /\ reads'[s].of = reads'[s].key /\ reads'[s].key \in DOMAIN reading'
                                 /\ reading'[reads'[s].key] = s
      BY <1>1, <1>2
  <2>2. \A k \in DOMAIN reading' : reading'[k] \in DOMAIN reads' /\ reads'[reading'[k]].key = k
      BY <1>1, <1>2, <1>3
  <2> QED BY <2>1, <2>2 DEF ReadsOK
<1>5. ASSUME NEW c \in Clients
      PROVE  /\ client'[c] \in ClientType /\ ClientOK(client[c], report[c])'
  <2>1. /\ client[c] \in ClientType /\ ClientOK(client[c], report[c])
        /\ r \in Reads /\ None \notin Reads
      BY DEF ReadersOK, ClientsOK, Reports!ReportParameters
  <2>2. CASE client[c].read = r
    <3> DEFINE b == [client[c] EXCEPT !.at = "idle", !.read = None]
    <3>1. client'[c] = b
        BY <2>2 DEF Reports!Settle
    <3>2. /\ b \in ClientType /\ b.at = "idle" /\ b.read = None
          /\ b.account = client[c].account /\ b.groups = client[c].groups
        BY <2>1 DEF ClientType
    <3>3. client[c].at = "waiting" /\ report[c] = None /\ reads[r].key = KeyOf(client[c])
        BY <2>1, <2>2 DEF ClientOK
    <3>4. KeyOf(b) = reads[r].of
        BY <1>2, <3>2, <3>3 DEF KeyOf
    <3> HIDE DEF b
    <3>5. report'[c] = None \/ (report'[c].key = reads[r].of /\ report'[c].age <= Oldest)
        BY <3>3
    <3> QED BY <3>1, <3>2, <3>4, <3>5 DEF ClientOK
  <2>3. CASE client[c].read # r
    <3>1. client'[c] = client[c] /\ report'[c] = report[c]
        BY <2>3 DEF Reports!Settle
    <3> QED BY <1>1, <2>1, <2>3, <3>1 DEF ClientOK
  <2> QED BY <2>2, <2>3
<1>6. client' \in [Clients -> ClientType]
  <2>1. client' = [c \in Clients |-> client'[c]]
      BY DEF Reports!Settle
  <2> QED BY <1>5, <2>1
<1>7. ClientsOK'
    BY <1>5 DEF ClientsOK
<1> QED BY <1>1, <1>4, <1>6, <1>7 DEF ReadersOK

\* A read failed: nobody gets a report.
LEMMA FailReadKept ==
    ASSUME Reports!ReportParameters, ReadersOK, NEW r \in DOMAIN reads, Reports!FailRead(r)
    PROVE  /\ ReadersOK' /\ DOMAIN reads' = DOMAIN reads \ {r}
           /\ \A s \in DOMAIN reads' : reads'[s] = reads[s]
<1>1. /\ Reports!Settle(r) /\ report' = report
      /\ reading' = Reports!Without(reading, reads[r].key)
    BY DEF Reports!FailRead
<1>2. report' \in [Clients -> ReportType \cup {None}]
    BY <1>1 DEF ReadersOK
<1> QED BY <1>1, <1>2, SettledKept

\* A read succeeded: all who wait for it get its report.
LEMMA SucceedKept ==
    ASSUME Reports!ReportParameters, ReadersOK, NEW r \in DOMAIN reads, Reports!Succeed(r),
           reads[r].age <= Wait + Statement
    PROVE  /\ ReadersOK' /\ DOMAIN reads' = DOMAIN reads \ {r}
           /\ \A s \in DOMAIN reads' : reads'[s] = reads[s]
<1> DEFINE a == [key |-> reads[r].of, age |-> reads[r].age]
<1>1. /\ Reports!Settle(r) /\ reading' = Reports!Without(reading, reads[r].key)
      /\ report' = [c \in Clients |-> IF client[c].read = r THEN a ELSE report[c]]
    BY DEF Reports!Succeed
<1>2. reads[r] \in ReadType
    BY DEF ReadersOK
<1>3. a \in ReportType /\ a.key = reads[r].of /\ a.age <= Oldest
    BY <1>2 DEF ReadType, ReportType, Oldest, Reports!ReportParameters
<1> HIDE DEF a
<1>4. report' \in [Clients -> ReportType \cup {None}]
    BY <1>1, <1>3 DEF ReadersOK
<1>5. \A c \in Clients :
        \/ report'[c] = report[c]
        \/ client[c].read = r /\ report'[c].key = reads[r].of /\ report'[c].age <= Oldest
    BY <1>1, <1>3
<1> QED BY <1>1, <1>4, <1>5, SettledKept

\* There is room for every result: the oldest goes.
LEMMA AddKept ==
    ASSUME Reports!ReportParameters, ReadersOK, ResultsTyped, ResultsOK, NEW r \in DOMAIN reads,
           Reports!Add(r), reads[r].age <= Wait + Statement
    PROVE  ResultsTyped' /\ ResultsOK'
<1> DEFINE key == reads[r].key
           v == [of |-> reads[r].of, age |-> reads[r].age, left |-> Shared]
           Live == Reports!Live
<1>1. PICK gone \in IF Reports!Cardinality(Live) < MaxResults THEN {{}} ELSE {{k} : k \in Reports!Oldest} :
        results' = Reports!With([k \in Live \ gone |-> results[k]], key, v)
    BY DEF Reports!Add
<1>2. reads[r] \in ReadType /\ reads[r].of = key
    BY DEF ReadersOK, ReadsOK
<1>3. /\ v \in ResultType /\ v.of = key /\ v.age + v.left <= Oldest /\ key \in Reports!Keys
    BY <1>2 DEF ReadType, ResultType, Oldest, Reports!ReportParameters
<1>4. Live \subseteq DOMAIN results
    BY DEF Reports!Live
<1> HIDE DEF v, key
<1>5. /\ DOMAIN results' = (Live \ gone) \cup {key} /\ results'[key] = v
      /\ \A k \in DOMAIN results' \ {key} : k \in DOMAIN results /\ results'[k] = results[k]
    BY <1>1, <1>4 DEF Reports!With
<1>6. IsFiniteSet(DOMAIN results') /\ Cardinality(DOMAIN results') <= MaxResults
  <2>1. /\ IsFiniteSet(Live) /\ Cardinality(Live) <= MaxResults /\ Cardinality(Live) \in Nat
        /\ MaxResults \in Nat \ {0}
    <3>1. /\ IsFiniteSet(DOMAIN results) /\ Cardinality(DOMAIN results) <= MaxResults
          /\ MaxResults \in Nat
        BY DEF ResultsTyped, Reports!ReportParameters
    <3>2. IsFiniteSet(Live) /\ Cardinality(Live) <= Cardinality(DOMAIN results)
        BY <1>4, <3>1, FS_Subset
    <3>3. Cardinality(Live) \in Nat /\ Cardinality(DOMAIN results) \in Nat
        BY <3>1, <3>2, FS_CardinalityType
    <3> QED BY <3>1, <3>2, <3>3 DEF Reports!ReportParameters
  <2> DEFINE kept == Live \ gone
  <2>2. IsFiniteSet(kept) /\ Cardinality(kept) + 1 <= MaxResults /\ Cardinality(kept) \in Nat
    <3>1. CASE Cardinality(Live) < MaxResults
      <4>1. kept = Live
          BY <1>1, <3>1, SameCardinality
      <4> QED BY <2>1, <3>1, <4>1
    <3>2. CASE ~(Cardinality(Live) < MaxResults)
      <4>1. PICK k \in Reports!Oldest : gone = {k}
          BY <1>1, <3>2, SameCardinality
      <4>2. k \in Live
          BY DEF Reports!Oldest
      <4>3. IsFiniteSet(kept) /\ Cardinality(kept) = Cardinality(Live) - 1
          BY <2>1, <4>1, <4>2, FS_RemoveElement
      <4>4. Cardinality(kept) \in Nat
          BY <4>3, FS_CardinalityType
      <4> QED BY <2>1, <3>2, <4>3, <4>4
    <3> QED BY <3>1, <3>2
  <2> HIDE DEF kept
  <2>3. /\ IsFiniteSet(kept \cup {key})
        /\ Cardinality(kept \cup {key}) = IF key \in kept THEN Cardinality(kept) ELSE Cardinality(kept) + 1
      BY <2>2, FS_AddElement
  <2>4. DOMAIN results' = kept \cup {key}
      BY <1>5 DEF kept
  <2> QED BY <2>1, <2>2, <2>3, <2>4
<1>7. ResultsTyped'
  <2>1. DOMAIN results' \subseteq Reports!Keys
      BY <1>3, <1>4, <1>5 DEF ResultsTyped
  <2>2. \A k \in DOMAIN results' : results'[k] \in ResultType
      BY <1>3, <1>5 DEF ResultsTyped
  <2> QED BY <1>6, <2>1, <2>2 DEF ResultsTyped
<1>8. ResultsOK'
    BY <1>3, <1>5 DEF ResultsOK, Oldest
<1> QED BY <1>7, <1>8

LEMMA QueryEndsKept ==
    ASSUME Reports!ReportParameters, ReportsInv, NEW ok \in BOOLEAN, Reports!QueryEnds(ok)
    PROVE  ReportsInv'
<1> DEFINE r == connection.read
           done == reads[r].done \cup {connection.query}
<1>1. /\ ReadersOK /\ ResultsTyped /\ ResultsOK /\ PoolOK /\ groupsOf \in [Accounts -> GroupLists]
    BY ReportsParts
<1>2. /\ connection \in QueryType /\ connection' = None /\ UNCHANGED <<groupsOf, queries>>
      /\ queries \in Seq(QueryType)
      /\ r \in DOMAIN reads => reads[r].age <= Wait + Statement
  <2>1. /\ connection \in QueryType /\ connection # None /\ connection' = None
        /\ UNCHANGED <<groupsOf, queries>> /\ queries \in Seq(QueryType)
      BY <1>1 DEF Reports!QueryEnds, PoolOK
  <2>2. connection.time <= Statement /\ connection.time \in Nat
        /\ (r \in DOMAIN reads => reads[r].age <= Wait + connection.time)
      BY <1>1, <2>1 DEF PoolOK, ConnectionOK, QueryType
  <2>3. r \in DOMAIN reads => reads[r].age \in Nat
      BY <1>1 DEF ReadersOK, ReadType
  <2> QED BY <2>1, <2>2, <2>3 DEF Reports!ReportParameters
<1>3. \A i \in DOMAIN queries' : \E j \in DOMAIN queries : queries'[i] = queries[j]
    BY <1>2
<1>4. ASSUME ReadersOK', ResultsTyped', ResultsOK', DOMAIN reads' \subseteq DOMAIN reads,
             \A s \in DOMAIN reads' : reads'[s].age = reads[s].age
      PROVE  ReportsInv'
  <2>1. PoolOK'
      BY <1>1, <1>2, <1>3, <1>4, PoolShrinks
  <2> QED BY <1>1, <1>2, <1>4, <2>1 DEF ReportsInv, ReportsTyped, ReadersOK, PoolOK
<1>5. CASE r \notin DOMAIN reads /\ UNCHANGED <<client, report, reads, reading, results>>
  <2>1. ReadersOK' /\ ResultsTyped' /\ ResultsOK'
      BY <1>1, <1>5 DEF ReadersOK, ReadsOK, ClientsOK, ClientOK, ResultsTyped, ResultsOK
  <2> QED BY <1>4, <1>5, <2>1
<1>6. CASE r \in DOMAIN reads /\ Reports!FailRead(r)
  <2>1. ReadersOK' /\ DOMAIN reads' = DOMAIN reads \ {r} /\ \A s \in DOMAIN reads' : reads'[s] = reads[s]
      BY <1>1, <1>6, FailReadKept
  <2>2. ResultsTyped' /\ ResultsOK'
      BY <1>1, <1>6 DEF Reports!FailRead, ResultsTyped, ResultsOK
  <2> QED BY <1>4, <2>1, <2>2
<1>7. CASE r \in DOMAIN reads /\ Reports!Succeed(r)
  <2>1. ReadersOK' /\ DOMAIN reads' = DOMAIN reads \ {r} /\ \A s \in DOMAIN reads' : reads'[s] = reads[s]
      BY <1>1, <1>2, <1>7, SucceedKept
  <2>2. ResultsTyped' /\ ResultsOK'
      BY <1>1, <1>2, <1>7, AddKept DEF Reports!Succeed
  <2> QED BY <1>4, <2>1, <2>2
<1>8. CASE r \in DOMAIN reads /\ reads' = [reads EXCEPT ![r].done = done]
           /\ UNCHANGED <<client, report, reading, results>>
  <2>1. reads[r] \in ReadType /\ done \in SUBSET Reports!Queries
      BY <1>1, <1>2, <1>8 DEF ReadersOK, ReadType, QueryType
  <2> DEFINE v == [reads[r] EXCEPT !.done = done]
  <2>2. v \in ReadType /\ v.key = reads[r].key /\ v.of = reads[r].of /\ v.age = reads[r].age
      BY <2>1 DEF ReadType
  <2>3. DOMAIN reads' = DOMAIN reads /\ \A s \in DOMAIN reads' : reads'[s] = IF s = r THEN v ELSE reads[s]
      BY <1>8
  <2> HIDE DEF v, r, done
  <2>4. /\ \A s \in DOMAIN reads' : /\ reads'[s] \in ReadType /\ reads'[s].key = reads[s].key
                                    /\ reads'[s].of = reads[s].of /\ reads'[s].age = reads[s].age
      BY <1>1, <2>2, <2>3 DEF ReadersOK
  <2>5. ReadsOK' /\ ClientsOK'
      BY <1>1, <1>8, <2>3, <2>4 DEF ReadersOK, ReadsOK, ClientsOK, ClientOK
  <2>6. ReadersOK'
      BY <1>1, <1>8, <2>3, <2>4, <2>5 DEF ReadersOK
  <2>7. ResultsTyped' /\ ResultsOK'
      BY <1>1, <1>8 DEF ResultsTyped, ResultsOK
  <2> QED BY <1>4, <2>3, <2>4, <2>6, <2>7
<1> QED BY <1>5, <1>6, <1>7, <1>8 DEF Reports!QueryEnds

\* A sequence without one of its elements.
LEMMA Removed ==
    ASSUME NEW T, NEW s \in Seq(T), NEW i \in DOMAIN s, NEW u,
           u = SubSeq(s, 1, i - 1) \o SubSeq(s, i + 1, Len(s))
    PROVE  /\ u \in Seq(T) /\ Len(u) = Len(s) - 1
           /\ \A j \in 1..(Len(s) - 1) : u[j] = IF j < i THEN s[j] ELSE s[j + 1]
<1> DEFINE before == SubSeq(s, 1, i - 1)
           after == SubSeq(s, i + 1, Len(s))
<1>1. /\ Len(s) \in Nat /\ DOMAIN s = 1..Len(s) /\ i \in 1..Len(s) /\ \A j \in 1..Len(s) : s[j] \in T
  <2>1. Len(s) \in Nat /\ DOMAIN s = 1..Len(s)
      OBVIOUS
  <2>2. \A j \in DOMAIN s : s[j] \in T
      OBVIOUS
  <2> QED BY <2>1, <2>2
<1>2. /\ before \in Seq(T) /\ Len(before) = i - 1 /\ \A j \in 1..(i - 1) : before[j] = s[j]
  <2>1. /\ 1 \in Int /\ i - 1 \in Int /\ \A j \in 1..(i - 1) : s[j] \in T
      BY <1>1
  <2>2. /\ before \in Seq(T) /\ Len(before) = IF 1 <= i - 1 THEN i - 1 - 1 + 1 ELSE 0
        /\ \A j \in 1..(i - 1 - 1 + 1) : before[j] = s[1 + j - 1]
      BY ONLY <2>1, SubSeqProperties
  <2> HIDE DEF before
  <2>3. i \in Nat /\ i >= 1
      BY <1>1
  <2>4. i - 1 - 1 + 1 = i - 1 /\ (IF 1 <= i - 1 THEN i - 1 - 1 + 1 ELSE 0) = i - 1
      BY ONLY <2>3
  <2>5. ASSUME NEW j \in 1..(i - 1) PROVE before[j] = s[j]
    <3>1. 1 + j - 1 = j
        BY <2>3
    <3> QED BY <2>2, <2>4, <3>1
  <2> QED BY <2>2, <2>4, <2>5
<1>3. /\ after \in Seq(T) /\ Len(after) = Len(s) - i
      /\ \A j \in 1..(Len(s) - i) : after[j] = s[i + j]
  <2>1. /\ i + 1 \in Int /\ Len(s) \in Int /\ \A j \in (i + 1)..Len(s) : s[j] \in T
      BY <1>1
  <2>2. /\ after \in Seq(T) /\ Len(after) = IF i + 1 <= Len(s) THEN Len(s) - (i + 1) + 1 ELSE 0
        /\ \A j \in 1..(Len(s) - (i + 1) + 1) : after[j] = s[i + 1 + j - 1]
      BY ONLY <2>1, SubSeqProperties
  <2> HIDE DEF after
  <2>3. /\ Len(s) - (i + 1) + 1 = Len(s) - i
        /\ Len(after) = Len(s) - i
      BY <1>1, <2>2
  <2>4. ASSUME NEW j \in 1..(Len(s) - i) PROVE after[j] = s[i + j]
    <3>1. i + 1 + j - 1 = i + j
        BY <1>1
    <3> QED BY <2>2, <2>3, <3>1
  <2> QED BY <2>2, <2>3, <2>4
<1>4. u = before \o after
    OBVIOUS
<1> HIDE DEF before, after
<1>5. /\ u \in Seq(T) /\ Len(u) = Len(s) - 1
      /\ \A j \in 1..(Len(s) - 1) : u[j] = IF j <= i - 1 THEN before[j] ELSE after[j - (i - 1)]
  <2>1. /\ before \o after \in Seq(T) /\ Len(before \o after) = Len(before) + Len(after)
        /\ \A j \in 1..(Len(before) + Len(after)) :
              (before \o after)[j] = IF j <= Len(before) THEN before[j] ELSE after[j - Len(before)]
      BY <1>2, <1>3, ConcatProperties
  <2>2. /\ u \in Seq(T) /\ Len(u) = Len(before) + Len(after)
        /\ \A j \in 1..(Len(before) + Len(after)) :
              u[j] = IF j <= Len(before) THEN before[j] ELSE after[j - Len(before)]
      BY <1>4, <2>1, Zenon
  <2>3. Len(before) + Len(after) = Len(s) - 1
      BY <1>1, <1>2, <1>3
  <2> QED BY <1>2, <2>2, <2>3, Zenon
<1>6. ASSUME NEW j \in 1..(Len(s) - 1) PROVE u[j] = IF j < i THEN s[j] ELSE s[j + 1]
  <2>1. CASE j < i
      BY <1>1, <1>2, <1>5, <2>1
  <2>2. CASE ~(j < i)
    <3>1. j - (i - 1) \in 1..(Len(s) - i) /\ ~(j <= i - 1) /\ i + (j - (i - 1)) = j + 1
      <4>1. i \in Int /\ i >= 1 /\ j \in Int /\ Len(s) \in Int /\ j <= Len(s) - 1 /\ j >= i
          BY <1>1, <2>2
      <4> QED BY ONLY <4>1
    <3>2. u[j] = after[j - (i - 1)]
        BY <1>5, <3>1
    <3>3. after[j - (i - 1)] = s[i + (j - (i - 1))]
        BY <1>3, <3>1
    <3> QED BY <2>2, <3>1, <3>2, <3>3
  <2> QED BY <2>1, <2>2
<1> QED BY <1>5, <1>6

LEMMA WaitEndsKept ==
    ASSUME Reports!ReportParameters, ReportsInv, Reports!WaitEnds
    PROVE  ReportsInv'
<1>1. /\ ReadersOK /\ ResultsTyped /\ ResultsOK /\ PoolOK /\ groupsOf \in [Accounts -> GroupLists]
    BY ReportsParts
<1>2. PICK i \in DOMAIN queries :
        /\ queries' = Reports!RemoveAt(queries, i)
        /\ IF queries[i].read \in DOMAIN reads THEN Reports!FailRead(queries[i].read)
           ELSE UNCHANGED <<client, report, reads, reading, results>>
    BY DEF Reports!WaitEnds
<1>3. UNCHANGED <<groupsOf, connection>>
    BY DEF Reports!WaitEnds
<1>4. queries \in Seq(QueryType)
    BY <1>1 DEF PoolOK
<1>5. /\ queries' \in Seq(QueryType)
      /\ \A j \in DOMAIN queries' : \E k \in DOMAIN queries : queries'[j] = queries[k]
  <2> DEFINE u == Reports!RemoveAt(queries, i)
  <2>1. u = SubSeq(queries, 1, i - 1) \o SubSeq(queries, i + 1, Len(queries))
      BY DEF Reports!RemoveAt
  <2>2. /\ u \in Seq(QueryType) /\ Len(u) = Len(queries) - 1
        /\ \A j \in 1..(Len(queries) - 1) : u[j] = IF j < i THEN queries[j] ELSE queries[j + 1]
      BY <1>4, <2>1, Removed
  <2>3. queries' = u
      BY <1>2
  <2> HIDE DEF u
  <2>4. \A j \in 1..(Len(queries) - 1) : j \in DOMAIN queries /\ j + 1 \in DOMAIN queries
      BY <1>4
  <2>5. DOMAIN u = 1..(Len(queries) - 1)
      BY <1>4, <2>2
  <2> QED BY <2>2, <2>3, <2>4, <2>5
<1>6. /\ ReadersOK' /\ ResultsTyped' /\ ResultsOK' /\ DOMAIN reads' \subseteq DOMAIN reads
      /\ \A s \in DOMAIN reads' : reads'[s].age = reads[s].age
  <2>1. CASE queries[i].read \in DOMAIN reads
    <3>1. Reports!FailRead(queries[i].read)
        BY <1>2, <2>1
    <3>2. /\ ReadersOK' /\ DOMAIN reads' = DOMAIN reads \ {queries[i].read}
          /\ \A s \in DOMAIN reads' : reads'[s] = reads[s]
        BY <1>1, <2>1, <3>1, FailReadKept
    <3>3. ResultsTyped' /\ ResultsOK'
        BY <1>1, <3>1 DEF Reports!FailRead, ResultsTyped, ResultsOK
    <3> QED BY <3>2, <3>3
  <2>2. CASE queries[i].read \notin DOMAIN reads
    <3>1. UNCHANGED <<client, report, reads, reading, results>>
        BY <1>2, <2>2
    <3> QED BY <1>1, <3>1 DEF ReadersOK, ReadsOK, ClientsOK, ClientOK, ResultsTyped, ResultsOK
  <2> QED BY <2>1, <2>2
<1>7. PoolOK'
    BY <1>1, <1>3, <1>5, <1>6, PoolShrinks
<1> QED BY <1>1, <1>3, <1>6, <1>7 DEF ReportsInv, ReportsTyped, ReadersOK, PoolOK

LEMMA ServeKept ==
    ASSUME Reports!ReportParameters, ReportsInv, Reports!Serve
    PROVE  ReportsInv'
<1> DEFINE q == [Head(queries) EXCEPT !.time = 0]
<1>1. /\ ReadersOK /\ ResultsTyped /\ ResultsOK /\ PoolOK /\ groupsOf \in [Accounts -> GroupLists]
    BY ReportsParts
<1>2. /\ queries # <<>> /\ connection' = q /\ queries' = Tail(queries)
      /\ UNCHANGED <<groupsOf, client, report, reads, reading, results>>
    BY DEF Reports!Serve
<1>3. /\ queries \in Seq(QueryType) /\ 1 \in DOMAIN queries /\ Head(queries) = queries[1]
      /\ queries[1] \in QueryType /\ QueuedOK(queries[1])
    BY <1>1, <1>2 DEF PoolOK, QueriesOK
<1>4. q \in QueryType /\ q.time = 0 /\ q.read = queries[1].read
    BY <1>3 DEF QueryType
<1> HIDE DEF q
<1>5. ConnectionOK'
    BY <1>2, <1>3, <1>4 DEF ConnectionOK, QueuedOK, QueryType, Reports!ReportParameters
<1>6. /\ queries' \in Seq(QueryType)
      /\ \A i \in DOMAIN queries' : i + 1 \in DOMAIN queries /\ queries'[i] = queries[i + 1]
  <2>1. /\ Tail(queries) \in Seq(QueryType) /\ Len(Tail(queries)) = Len(queries) - 1
        /\ \A i \in 1..Len(Tail(queries)) : Tail(queries)[i] = queries[i + 1]
      BY <1>2, <1>3, HeadTailProperties
  <2> QED BY <1>2, <1>3, <2>1
<1>7. QueriesOK'
  <2>1. ASSUME NEW i \in DOMAIN queries' PROVE QueuedOK(queries[i])'
    <3>1. QueuedOK(queries[i + 1]) /\ queries'[i] = queries[i + 1]
        BY <1>1, <1>6 DEF PoolOK, QueriesOK
    <3> QED BY <1>2, <3>1 DEF QueuedOK
  <2> QED BY <2>1 DEF QueriesOK
<1>8. ReadersOK' /\ ResultsTyped' /\ ResultsOK'
    BY <1>1, <1>2 DEF ReadersOK, ReadsOK, ClientsOK, ClientOK, ResultsTyped, ResultsOK
<1> QED BY <1>1, <1>2, <1>4, <1>5, <1>6, <1>7, <1>8 DEF ReportsInv, ReportsTyped, ReadersOK

LEMMA TickKept ==
    ASSUME Reports!ReportParameters, ReportsInv, Reports!Tick
    PROVE  ReportsInv'
<1>1. /\ ReadersOK /\ ResultsTyped /\ ResultsOK /\ PoolOK /\ groupsOf \in [Accounts -> GroupLists]
    BY ReportsParts
<1>2. /\ connection # None => connection.time < Statement
      /\ \A i \in DOMAIN queries : queries[i].time < Wait
      /\ connection' = IF connection = None THEN None ELSE [connection EXCEPT !.time = @ + 1]
      /\ queries' = [i \in DOMAIN queries |-> [queries[i] EXCEPT !.time = @ + 1]]
      /\ reads' = [r \in DOMAIN reads |-> [reads[r] EXCEPT !.age = @ + 1]]
      /\ results' = [k \in DOMAIN results |->
                     IF results[k].left > 0
                       THEN [results[k] EXCEPT !.left = @ - 1, !.age = @ + 1] ELSE results[k]]
      /\ UNCHANGED <<groupsOf, client, report, reading>>
    BY DEF Reports!Tick, Reports!ToSet
<1>3. /\ DOMAIN reads' = DOMAIN reads
      /\ \A r \in DOMAIN reads : /\ reads[r].age \in Nat
                                 /\ reads'[r] \in ReadType /\ reads'[r].age = reads[r].age + 1
                                 /\ reads'[r].key = reads[r].key /\ reads'[r].of = reads[r].of
  <2>1. ASSUME NEW r \in DOMAIN reads
        PROVE  /\ reads[r].age \in Nat
               /\ reads'[r] \in ReadType /\ reads'[r].age = reads[r].age + 1
               /\ reads'[r].key = reads[r].key /\ reads'[r].of = reads[r].of
    <3>1. reads[r] \in ReadType /\ reads'[r] = [reads[r] EXCEPT !.age = @ + 1]
        BY <1>1, <1>2 DEF ReadersOK
    <3> QED BY <3>1 DEF ReadType
  <2> QED BY <1>2, <2>1
<1>4. ReadersOK'
  <2>1. ReadsOK'
    <3>1. /\ DOMAIN reads' = DOMAIN reads /\ reading' = reading
          /\ \A r \in DOMAIN reads : reads'[r].key = reads[r].key /\ reads'[r].of = reads[r].of
        BY <1>2, <1>3
    <3>2. ReadsOK
        BY <1>1 DEF ReadersOK
    <3>3. \A r \in DOMAIN reads' : /\ reads'[r].of = reads'[r].key
                                   /\ reads'[r].key \in DOMAIN reading'
                                   /\ reading'[reads'[r].key] = r
        BY <3>1, <3>2 DEF ReadsOK
    <3>4. \A k \in DOMAIN reading' : reading'[k] \in DOMAIN reads' /\ reads'[reading'[k]].key = k
        BY <3>1, <3>2 DEF ReadsOK
    <3> QED BY <3>3, <3>4 DEF ReadsOK
  <2>3. ASSUME NEW c \in Clients PROVE ClientOK(client[c], report[c])'
    <3>1. /\ ClientOK(client[c], report[c]) /\ client'[c] = client[c] /\ report'[c] = report[c]
          /\ DOMAIN reads' = DOMAIN reads /\ \A r \in DOMAIN reads : reads'[r].key = reads[r].key
        BY <1>1, <1>2, <1>3 DEF ReadersOK, ClientsOK
    <3> QED BY <3>1 DEF ClientOK
  <2>4. ClientsOK'
      BY <2>3 DEF ClientsOK
  <2>2. DOMAIN reads' \subseteq Reads /\ \A r \in DOMAIN reads' : reads'[r] \in ReadType
      BY <1>1, <1>3 DEF ReadersOK
  <2> QED BY <1>1, <1>2, <2>1, <2>2, <2>4 DEF ReadersOK
<1>5. /\ queries' \in Seq(QueryType) /\ DOMAIN queries' = DOMAIN queries
      /\ \A i \in DOMAIN queries : /\ queries'[i].time = queries[i].time + 1
                                   /\ queries'[i].read = queries[i].read
  <2>1. queries \in Seq(QueryType) /\ DOMAIN queries = 1..Len(queries) /\ Len(queries) \in Nat
      BY <1>1 DEF PoolOK
  <2>2. ASSUME NEW i \in DOMAIN queries
        PROVE  /\ queries'[i] \in QueryType /\ queries'[i].time = queries[i].time + 1
               /\ queries'[i].read = queries[i].read
    <3>1. queries'[i] = [queries[i] EXCEPT !.time = @ + 1]
        BY <1>2
    <3>2. queries[i] \in QueryType
        BY <2>1
    <3> QED BY <3>1, <3>2 DEF QueryType
  <2>3. queries' = [i \in 1..Len(queries) |-> queries'[i]]
      BY <1>2, <2>1
  <2>4. queries' \in Seq(QueryType)
      BY <2>1, <2>2, <2>3
  <2> QED BY <1>2, <2>2, <2>4
<1>6. QueriesOK'
  <2>1. ASSUME NEW i \in DOMAIN queries PROVE QueuedOK(queries[i])'
    <3>1. queries[i].time < Wait
        BY <1>2
    <3>3. QueuedOK(queries[i]) /\ queries[i] \in QueryType
        BY <1>1 DEF PoolOK, QueriesOK
    <3>2. queries[i].time \in Nat /\ Wait \in Nat
        BY <3>3 DEF QueryType, Reports!ReportParameters
    <3>4. /\ queries'[i].time = queries[i].time + 1 /\ queries'[i].read = queries[i].read
          /\ queries[i].read \in DOMAIN reads =>
                reads'[queries[i].read].age = reads[queries[i].read].age + 1
        BY <1>3, <1>5
    <3> QED BY <1>3, <3>1, <3>2, <3>3, <3>4 DEF QueuedOK
  <2> QED BY <1>5, <2>1 DEF QueriesOK
<1>7. connection' \in QueryType \cup {None} /\ ConnectionOK'
  <2>1. CASE connection = None
      BY <1>2, <2>1 DEF ConnectionOK
  <2>2. CASE connection # None
    <3>1. connection \in QueryType /\ connection' = [connection EXCEPT !.time = @ + 1]
        BY <1>1, <1>2, <2>2 DEF PoolOK
    <3>2. connection' \in QueryType /\ connection'.time = connection.time + 1
          /\ connection'.read = connection.read /\ connection.time \in Nat
        BY <3>1 DEF QueryType
    <3>3. /\ connection.time < Statement /\ Wait \in Nat /\ Statement \in Nat
          /\ connection.read \in DOMAIN reads =>
                /\ reads[connection.read].age <= Wait + connection.time
                /\ reads[connection.read].age \in Nat
                /\ reads'[connection.read].age = reads[connection.read].age + 1
        BY <1>1, <1>2, <1>3, <2>2 DEF PoolOK, ConnectionOK, Reports!ReportParameters
    <3>4. connection'.read \in DOMAIN reads' => connection.read \in DOMAIN reads
        BY <1>3, <3>2
    <3>5. ConnectionOK'
      <4>1. connection'.time <= Statement
          BY <3>2, <3>3
      <4>2. connection'.read \in DOMAIN reads' =>
              reads'[connection'.read].age <= Wait + connection'.time
          BY <3>2, <3>3, <3>4
      <4> QED BY <4>1, <4>2 DEF ConnectionOK
    <3> QED BY <3>2, <3>5
  <2> QED BY <2>1, <2>2
<1>8. ResultsTyped' /\ ResultsOK'
  <2>1. ASSUME NEW k \in DOMAIN results
        PROVE  /\ results'[k] \in ResultType /\ results'[k].of = results[k].of
               /\ results'[k].age + results'[k].left = results[k].age + results[k].left
    <3>1. results[k] \in ResultType
        BY <1>1 DEF ResultsTyped
    <3>2. CASE results[k].left > 0
      <4>1. results'[k] = [results[k] EXCEPT !.left = @ - 1, !.age = @ + 1]
          BY <1>2, <3>2
      <4>2. results[k].left \in Nat /\ results[k].age \in Nat /\ results[k].left - 1 \in Nat
          BY <3>1, <3>2 DEF ResultType
      <4> DEFINE l == results[k].left - 1
                 a == results[k].age + 1
      <4>4. results'[k] = [results[k] EXCEPT !.left = l, !.age = a] /\ l \in Nat /\ a \in Nat
          BY <4>1, <4>2
      <4> HIDE DEF l, a
      <4>5. /\ results'[k] \in ResultType /\ results'[k].of = results[k].of
            /\ results'[k].age = a /\ results'[k].left = l
          BY <3>1, <4>4 DEF ResultType
      <4>3. /\ results'[k] \in ResultType /\ results'[k].of = results[k].of
            /\ results'[k].age = results[k].age + 1 /\ results'[k].left = results[k].left - 1
          BY <4>5 DEF l, a
      <4> QED BY <4>2, <4>3
    <3>3. CASE ~(results[k].left > 0)
        BY <1>2, <3>1, <3>3
    <3> QED BY <3>2, <3>3
  <2>2. DOMAIN results' = DOMAIN results
      BY <1>2
  <2> QED BY <1>1, <2>1, <2>2 DEF ResultsTyped, ResultsOK, Oldest
<1> QED BY <1>1, <1>2, <1>4, <1>5, <1>6, <1>7, <1>8 DEF ReportsInv, ReportsTyped, ReadersOK

LEMMA ReportsInvariant ==
    ASSUME Reports!ReportParameters
    PROVE  Reports!Spec => []ReportsInv
<1>1. Reports!Init => ReportsInv
  <2> SUFFICES ASSUME Reports!Init PROVE ReportsInv
      OBVIOUS
  <2>1. /\ groupsOf \in [Accounts -> GroupLists]
        /\ client = [c \in Clients |-> Reports!Idle] /\ report = [c \in Clients |-> None]
        /\ reads = <<>> /\ reading = <<>> /\ results = <<>>
        /\ connection = None /\ queries = <<>>
      BY DEF Reports!Init
  <2>2. DOMAIN reads = {} /\ DOMAIN reading = {} /\ DOMAIN results = {} /\ DOMAIN queries = {}
      BY <2>1
  <2>3. Reports!Idle \in ClientType /\ Reports!Idle.at = "idle"
        /\ Reports!Idle.account = None /\ Reports!Idle.read = None
      BY DEF Reports!Idle, ClientType
  <2>4. IsFiniteSet(DOMAIN results) /\ Cardinality(DOMAIN results) <= MaxResults
      BY <2>2, FS_EmptySet DEF Reports!ReportParameters
  <2>5. ResultsTyped
      BY <2>2, <2>4 DEF ResultsTyped
  <2>6. ReportsTyped
      BY <2>1, <2>2, <2>3 DEF ReportsTyped
  <2>7. ReadsOK /\ ResultsOK /\ QueriesOK /\ ConnectionOK
      BY <2>1, <2>2 DEF ReadsOK, ResultsOK, QueriesOK, ConnectionOK
  <2>8. ClientsOK
      BY <2>1, <2>3 DEF ClientsOK, ClientOK
  <2> QED BY <2>5, <2>6, <2>7, <2>8 DEF ReportsInv
<1>2. ReportsInv /\ [Reports!Next]_Reports!vars => ReportsInv'
  <2> SUFFICES ASSUME ReportsInv, [Reports!Next]_Reports!vars PROVE ReportsInv'
      OBVIOUS
  <2>1. ASSUME NEW c \in Clients, Reports!Ask(c) \/ Reports!Fail(c) PROVE ReportsInv'
      BY <2>1, RouteKept
  <2>2. ASSUME NEW c \in Clients, Reports!AccountAnalytics(c) PROVE ReportsInv'
      BY <2>2, AccountAnalyticsKept
  <2>3. ASSUME NEW a \in Accounts, Reports!Configure(a) PROVE ReportsInv'
      BY <2>3, RouteKept
  <2>4. ASSUME NEW ok \in BOOLEAN, Reports!QueryEnds(ok) PROVE ReportsInv'
      BY <2>4, QueryEndsKept
  <2>5. CASE UNCHANGED Reports!vars
      BY <2>5, RouteKept
  <2> QED BY <2>1, <2>2, <2>3, <2>4, <2>5, ServeKept, WaitEndsKept, TickKept DEF Reports!Next
<1> QED BY <1>1, <1>2, PTL DEF Reports!Spec

\* What is kept of the reports is what the code says, and no more than MaxResults
\* of them are shared: the 32 results of analytics.ts.
THEOREM ReportsBounded ==
    ASSUME Reports!ReportParameters
    PROVE  Reports!Spec => []Reports!TypeOK
<1>1. ReportsInv => Reports!TypeOK
    BY ReportsInvTypes
<1> QED BY <1>1, ReportsInvariant, PTL

\* A browser's report is of the account and of the groups that were configured
\* when it asked, whoever else asked, whatever was saved meanwhile and however the
\* queries of the pool ended.
THEOREM OwnReports ==
    ASSUME Reports!ReportParameters
    PROVE  Reports!Spec => []Reports!OwnAnswer
<1>1. ReportsInv => Reports!OwnAnswer
    BY ReportsInvTypes
<1> QED BY <1>1, ReportsInvariant, PTL

\* A question is read once at a time, and only a read under way is pending.
THEOREM ReadOnce ==
    ASSUME Reports!ReportParameters
    PROVE  Reports!Spec => []Reports!OneReadPerKey
<1>1. ReportsInv => Reports!OneReadPerKey
    BY ReportsInvTypes
<1> QED BY <1>1, ReportsInvariant, PTL

\* The statistics of a report are no older than a wait for the connection, a
\* statement and the time a result is shared, however many browsers share them.
THEOREM ReportsFresh ==
    ASSUME Reports!ReportParameters
    PROVE  Reports!Spec => []Reports!Fresh
<1>1. ReportsInv => Reports!Fresh
    BY ReportsInvTypes
<1> QED BY <1>1, ReportsInvariant, PTL
----------------------------------------------------------------------------
(* The confirmations.                                                       *)

\* A request has a number of its own.
Numbered == \A r, s \in inFlight : r.id = s.id => r = s

DialogInv ==
    /\ target \in Targets \cup {None} /\ closing \in BOOLEAN /\ entered \in BOOLEAN
    /\ (target = None => ~closing /\ ~entered)
    /\ standing \in {"idle", "pending", "error"} /\ variable \in Targets \cup {None}
    /\ inFlight \subseteq [id : 1..sent, target : Targets]
    /\ observed \in 0..sent /\ sent \in 0..MaxSent
    /\ (standing = "pending" <=> \E r \in inFlight : r.id = observed)
    /\ Numbered

\* Without an animation a dialog stays as long as the request it sent, which is
\* the only one.
OneRequest == /\ ~closing
              /\ \A r \in inFlight : r.id = observed /\ r.target = target

LEMMA DialogInit ==
    ASSUME Dialog!ConfirmationParameters, Dialog!Init
    PROVE  DialogInv /\ OneRequest
<1>1. /\ target = None /\ closing = FALSE /\ entered = FALSE
      /\ standing = "idle" /\ variable = None /\ observed = 0
      /\ inFlight = {} /\ sent = 0 /\ MaxSent \in Nat
    BY DEF Dialog!ConfirmationParameters, Dialog!Init
<1>2. Numbered /\ OneRequest
    BY <1>1 DEF Numbered, OneRequest
<1>3. inFlight \subseteq [id : 1..sent, target : Targets] /\ ~(\E r \in inFlight : r.id = observed)
    BY <1>1
<1>4. observed \in 0..sent /\ sent \in 0..MaxSent
    BY <1>1
<1>5. closing \in BOOLEAN /\ entered \in BOOLEAN /\ ~closing /\ ~entered
    BY <1>1
<1> QED BY <1>1, <1>2, <1>3, <1>4, <1>5 DEF DialogInv

LEMMA OpenKept ==
    ASSUME Dialog!ConfirmationParameters, DialogInv, NEW t \in Targets, Dialog!Open(t)
    PROVE  DialogInv' /\ (OneRequest => OneRequest')
<1>1. /\ target = None /\ target' = t /\ standing' = "idle" /\ variable' = None /\ observed' = 0
      /\ UNCHANGED <<closing, entered, inFlight, sent>>
    BY DEF Dialog!Open, Dialog!Enabled
<1>2. \A r \in inFlight : r.id # 0 /\ r.target # None
    BY DEF DialogInv, Dialog!ConfirmationParameters
<1>3. DialogInv'
    BY <1>1, <1>2 DEF DialogInv, Numbered, Dialog!ConfirmationParameters
<1>4. OneRequest => OneRequest'
    BY <1>1, <1>2 DEF OneRequest
<1> QED BY <1>3, <1>4

LEMMA FieldsKept ==
    ASSUME Dialog!ConfirmationParameters, DialogInv,
           Dialog!Type \/ Dialog!Dismiss \/ Dialog!CloseTimer \/ UNCHANGED Dialog!vars
    PROVE  DialogInv' /\ (ReducedMotion /\ OneRequest => OneRequest')
<1>1. UNCHANGED <<standing, variable, inFlight, observed, sent>>
    BY DEF Dialog!Type, Dialog!Dismiss, Dialog!CloseTimer, Dialog!vars
<1>2. /\ target' \in Targets \cup {None} /\ closing' \in BOOLEAN /\ entered' \in BOOLEAN
      /\ (target' = None => ~closing' /\ ~entered')
  <2>1. CASE Dialog!Type
      BY <2>1 DEF Dialog!Type, DialogInv, Dialog!ConfirmationParameters
  <2>2. CASE Dialog!Dismiss \/ Dialog!CloseTimer
      BY <2>2 DEF Dialog!Dismiss, Dialog!CloseTimer, Dialog!Unmounted, DialogInv
  <2>3. CASE UNCHANGED Dialog!vars
      BY <2>3 DEF Dialog!vars, DialogInv
  <2> QED BY <2>1, <2>2, <2>3
<1>3. DialogInv'
    BY <1>1, <1>2 DEF DialogInv, Numbered
<1>4. ASSUME ReducedMotion, OneRequest PROVE OneRequest'
  <2>1. CASE Dialog!Type \/ UNCHANGED Dialog!vars
      BY <1>4, <2>1 DEF Dialog!Type, Dialog!vars, OneRequest
  <2>2. CASE Dialog!Dismiss
    <3>1. standing # "pending" /\ ~closing'
        BY <1>4, <2>2 DEF Dialog!Dismiss, Dialog!Unmounted
    <3>2. inFlight = {}
        BY <1>4, <3>1 DEF OneRequest, DialogInv
    <3> QED BY <1>1, <3>1, <3>2 DEF OneRequest
  <2>3. ~Dialog!CloseTimer
      BY <1>4 DEF Dialog!CloseTimer, OneRequest
  <2> QED BY <2>1, <2>2, <2>3
<1> QED BY <1>3, <1>4

LEMMA ConfirmKept ==
    ASSUME Dialog!ConfirmationParameters, DialogInv, Dialog!Confirm
    PROVE  DialogInv' /\ (OneRequest => OneRequest')
<1> DEFINE new == [id |-> sent + 1, target |-> target]
<1>1. /\ target # None /\ standing # "pending" /\ sent < MaxSent
      /\ standing' = "pending" /\ variable' = target
      /\ sent' = sent + 1 /\ observed' = sent + 1 /\ inFlight' = inFlight \cup {new}
      /\ UNCHANGED <<target, closing, entered>>
    BY DEF Dialog!Confirm
<1>2. /\ sent \in Nat /\ MaxSent \in Nat /\ sent' \in 0..MaxSent /\ observed' \in 0..sent'
      /\ sent + 1 \in 1..sent'
    BY <1>1 DEF DialogInv, Dialog!ConfirmationParameters
<1>3. \A r \in inFlight : r \in [id : 1..sent', target : Targets] /\ r.id # sent + 1
    BY <1>1, <1>2 DEF DialogInv
<1>4. new \in [id : 1..sent', target : Targets] /\ new.id = sent + 1 /\ new.target = target
    BY <1>1, <1>2 DEF DialogInv
<1> HIDE DEF new
<1>5. Numbered'
    BY <1>1, <1>3, <1>4 DEF DialogInv, Numbered
<1>6. /\ inFlight' \subseteq [id : 1..sent', target : Targets]
      /\ \E r \in inFlight' : r.id = observed'
    BY <1>1, <1>3, <1>4
<1>7. DialogInv'
    BY <1>1, <1>2, <1>5, <1>6 DEF DialogInv
<1>8. ASSUME OneRequest PROVE OneRequest'
  <2>1. inFlight = {}
      BY <1>1, <1>8 DEF OneRequest, DialogInv
  <2> QED BY <1>1, <1>4, <1>8, <2>1 DEF OneRequest
<1> QED BY <1>7, <1>8

\* The other requests are not concerned by an answer.
LEMMA RestKept ==
    ASSUME DialogInv, NEW r \in inFlight, inFlight' = inFlight \ {r},
           UNCHANGED <<variable, observed, sent>>,
           standing' \in {"idle", "pending", "error"},
           r.id = observed => standing' # "pending", r.id # observed => standing' = standing,
           target' \in Targets \cup {None}, closing' \in BOOLEAN, entered' \in BOOLEAN,
           target' = None => ~closing' /\ ~entered'
    PROVE  DialogInv'
<1>1. Numbered'
    BY DEF DialogInv, Numbered
<1>2. standing' = "pending" <=> \E s \in inFlight' : s.id = observed'
    BY DEF DialogInv, Numbered
<1>3. /\ inFlight' \subseteq [id : 1..sent', target : Targets]
      /\ observed' \in 0..sent' /\ sent' \in 0..MaxSent /\ variable' \in Targets \cup {None}
    BY DEF DialogInv
<1> QED BY <1>1, <1>2, <1>3 DEF DialogInv

LEMMA AnswerKept ==
    ASSUME Dialog!ConfirmationParameters, DialogInv, NEW r \in inFlight,
           Dialog!Succeed(r) \/ Dialog!Fail(r)
    PROVE  DialogInv' /\ (OneRequest => OneRequest')
<1>1. inFlight' = inFlight \ {r} /\ UNCHANGED <<variable, observed, sent>>
    BY DEF Dialog!Succeed, Dialog!Fail
<1>2. CASE Dialog!Succeed(r)
  <2>1. /\ target' = None /\ closing' = FALSE /\ entered' = FALSE
        /\ IF r.id = observed THEN standing' = "idle" ELSE standing' = standing
      BY <1>2 DEF Dialog!Succeed, Dialog!Unmounted
  <2>2. standing' \in {"idle", "pending", "error"}
      BY <2>1 DEF DialogInv
  <2>3. DialogInv'
      BY <1>1, <2>1, <2>2, RestKept
  <2>4. OneRequest => inFlight' = {}
      BY <1>1 DEF OneRequest, DialogInv, Numbered
  <2> QED BY <2>1, <2>3, <2>4 DEF OneRequest
<1>3. CASE Dialog!Fail(r)
  <2>1. /\ UNCHANGED <<target, closing, entered>>
        /\ IF r.id = observed THEN standing' = "error" ELSE standing' = standing
      BY <1>3 DEF Dialog!Fail
  <2>2. /\ standing' \in {"idle", "pending", "error"}
        /\ target' \in Targets \cup {None} /\ closing' \in BOOLEAN /\ entered' \in BOOLEAN
        /\ (target' = None => ~closing' /\ ~entered')
      BY <2>1 DEF DialogInv
  <2>3. DialogInv'
      BY <1>1, <2>1, <2>2, RestKept
  <2>4. OneRequest => OneRequest'
      BY <1>1, <2>1 DEF OneRequest
  <2> QED BY <2>3, <2>4
<1> QED BY <1>2, <1>3

LEMMA DialogNext ==
    ASSUME Dialog!ConfirmationParameters, DialogInv, [Dialog!Next]_Dialog!vars
    PROVE  DialogInv' /\ (ReducedMotion /\ OneRequest => OneRequest')
<1>1. ASSUME NEW t \in Targets, Dialog!Open(t)
      PROVE  DialogInv' /\ (OneRequest => OneRequest')
    BY <1>1, OpenKept
<1>2. ASSUME NEW r \in inFlight, Dialog!Succeed(r) \/ Dialog!Fail(r)
      PROVE  DialogInv' /\ (OneRequest => OneRequest')
    BY <1>2, AnswerKept
<1> QED BY <1>1, <1>2, FieldsKept, ConfirmKept DEF Dialog!Next, Dialog!Answer

LEMMA DialogInvariant ==
    ASSUME Dialog!ConfirmationParameters
    PROVE  Dialog!Spec => []DialogInv
<1>1. Dialog!Init => DialogInv
    BY DialogInit
<1>2. DialogInv /\ [Dialog!Next]_Dialog!vars => DialogInv'
    BY DialogNext
<1> QED BY <1>1, <1>2, PTL DEF Dialog!Spec

LEMMA OneRequestInvariant ==
    ASSUME Dialog!ConfirmationParameters, ReducedMotion
    PROVE  Dialog!Spec => [](DialogInv /\ OneRequest)
<1>1. Dialog!Init => DialogInv /\ OneRequest
    BY DialogInit
<1>2. (DialogInv /\ OneRequest) /\ [Dialog!Next]_Dialog!vars => (DialogInv /\ OneRequest)'
    BY DialogNext
<1> QED BY <1>1, <1>2, PTL DEF Dialog!Spec

\* What a page keeps of its dialog and its requests fits together: it waits
\* exactly while the request it sent last is under way.
THEOREM DialogTyped ==
    ASSUME Dialog!ConfirmationParameters
    PROVE  Dialog!Spec => []Dialog!TypeOK
<1>1. DialogInv => Dialog!TypeOK
    BY DEF DialogInv, Dialog!TypeOK
<1> QED BY <1>1, DialogInvariant, PTL

\* A request is only sent from the dialog of its target, with its text typed in
\* that very dialog, with the animation or without it.
THEOREM SentAsTyped ==
    ASSUME Dialog!ConfirmationParameters
    PROVE  Dialog!Spec => Dialog!SentAsConfirmed
<1> DEFINE Sent ==
        sent' # sent => /\ \E r \in inFlight' \ inFlight : r.target = target
                        /\ target \in Typed => entered /\ entered'
<1>1. DialogInv /\ [Dialog!Next]_Dialog!vars => [Sent]_Dialog!vars
  <2> SUFFICES ASSUME DialogInv, Dialog!Next, sent' # sent PROVE Sent
      BY DEF Dialog!vars
  <2>1. Dialog!Confirm
      BY DEF Dialog!Next, Dialog!Open, Dialog!Type, Dialog!Dismiss, Dialog!CloseTimer,
             Dialog!Answer, Dialog!Succeed, Dialog!Fail
  <2>2. /\ inFlight' = inFlight \cup {[id |-> sent + 1, target |-> target]}
        /\ target \in Typed => entered /\ entered'
      BY <2>1 DEF Dialog!Confirm
  <2>3. [id |-> sent + 1, target |-> target] \notin inFlight
      BY DEF DialogInv
  <2> QED BY <2>2, <2>3
<1> QED BY <1>1, DialogInvariant, PTL DEF Dialog!SentAsConfirmed, Dialog!Spec

\* Without the animation nothing is asked for twice at a time.
THEOREM NoRepeatedRequest ==
    ASSUME Dialog!ConfirmationParameters, ReducedMotion
    PROVE  Dialog!Spec => []Dialog!NoRepeat
<1>1. DialogInv /\ OneRequest => Dialog!NoRepeat
    BY DEF DialogInv, Numbered, OneRequest, Dialog!NoRepeat
<1> QED BY <1>1, OneRequestInvariant, PTL

\* Without the animation a dialog answers for its own request: a success closes
\* it and a failure is shown in it.
THEOREM DialogAnswersItsOwn ==
    ASSUME Dialog!ConfirmationParameters, ReducedMotion
    PROVE  Dialog!Spec => Dialog!AnswersItsOwn
<1>1. DialogInv /\ OneRequest /\ [Dialog!Next]_Dialog!vars => [Dialog!AnswerItsOwn]_Dialog!vars
  <2> SUFFICES ASSUME DialogInv, OneRequest, Dialog!Next, NEW r \in inFlight \ inFlight'
               PROVE  /\ target = r.target
                      /\ \/ target' = None /\ standing' = "idle"
                         \/ target' = target /\ standing' = "error"
      BY DEF Dialog!AnswerItsOwn
  <2>1. PICK s \in inFlight : Dialog!Succeed(s) \/ Dialog!Fail(s)
      BY DEF Dialog!Next, Dialog!Open, Dialog!Type, Dialog!Dismiss, Dialog!CloseTimer,
             Dialog!Confirm, Dialog!Answer
  <2>2. s = r /\ r.id = observed /\ r.target = target
      BY <2>1 DEF Dialog!Succeed, Dialog!Fail, OneRequest
  <2> QED BY <2>1, <2>2 DEF Dialog!Succeed, Dialog!Fail, Dialog!Unmounted
<1> QED BY <1>1, OneRequestInvariant, PTL DEF Dialog!AnswersItsOwn, Dialog!Spec
----------------------------------------------------------------------------
(* The settings form.                                                       *)

\* The accounts of a draft beside its fixed groups.
AccountsOK(list, fixed) ==
    /\ list \in Seq(Form!Accounts) /\ Len(list) \in 1..MaxAccounts
    /\ \A i \in DOMAIN list : list[i].groups \cap fixed = {}
    /\ \A i, j \in DOMAIN list : i # j =>
          /\ list[i].groups \cap list[j].groups = {}
          /\ list[i].email # Form!NoEmail => list[i].email # list[j].email

DraftOK(d) ==
    /\ d \in Form!Drafts /\ AccountsOK(d.accounts, d.fixed) /\ Len(d.windows) \in 1..4

FormInv ==
    /\ DraftOK(draft) /\ DraftOK(savedConfig) /\ Form!SavedWasAccepted
    /\ sending = None \/ DraftOK(sending)
    /\ failed \in BOOLEAN /\ (failed => sending = None)
    /\ options \in BOOLEAN /\ edits \in 0..MaxEdits

\* One field of an account changes.
LEMMA AccountChanged ==
    ASSUME NEW fixed, NEW list, AccountsOK(list, fixed), NEW i \in DOMAIN list,
           NEW b \in Form!Accounts, b.groups \cap fixed = {},
           \A j \in DOMAIN list : j # i =>
              /\ b.groups \cap list[j].groups = {}
              /\ b.email # Form!NoEmail => b.email # list[j].email
    PROVE  AccountsOK([list EXCEPT ![i] = b], fixed)
<1> DEFINE new == [list EXCEPT ![i] = b]
<1>1. list \in Seq(Form!Accounts)
    BY DEF AccountsOK
<1>2. /\ new \in Seq(Form!Accounts) /\ Len(new) = Len(list) /\ DOMAIN new = DOMAIN list
      /\ \A j \in DOMAIN list : new[j] = IF j = i THEN b ELSE list[j]
    BY <1>1
<1> HIDE DEF new
<1>3. ASSUME NEW j \in DOMAIN new, NEW k \in DOMAIN new, j # k
      PROVE  /\ new[j].groups \cap new[k].groups = {}
             /\ new[j].email # Form!NoEmail => new[j].email # new[k].email
  <2>1. /\ list[j].groups \cap list[k].groups = {}
        /\ list[j].email # Form!NoEmail => list[j].email # list[k].email
      BY <1>2, <1>3 DEF AccountsOK
  <2>2. CASE j = i
    <3>1. new[j] = b /\ new[k] = list[k] /\ k \in DOMAIN list /\ k # i
        BY <1>2, <1>3, <2>2
    <3> QED BY <3>1
  <2>3. CASE k = i
    <3>1. new[k] = b /\ new[j] = list[j] /\ j \in DOMAIN list /\ j # i
        BY <1>2, <1>3, <2>3
    <3>2. /\ b.groups \cap list[j].groups = {}
          /\ b.email # Form!NoEmail => b.email # list[j].email
        BY <3>1
    <3> QED BY <3>1, <3>2
  <2>4. CASE j # i /\ k # i
      BY <1>2, <1>3, <2>1, <2>4
  <2> QED BY <2>2, <2>3, <2>4
<1>4. \A j \in DOMAIN new : new[j].groups \cap fixed = {}
    BY <1>2 DEF AccountsOK
<1>5. Len(new) \in 1..MaxAccounts
    BY <1>2 DEF AccountsOK
<1>6. AccountsOK(new, fixed)
    BY <1>2, <1>3, <1>4, <1>5 DEF AccountsOK
<1> QED BY <1>6 DEF new

LEMMA DraftWithAccounts ==
    ASSUME NEW d, DraftOK(d), NEW list, AccountsOK(list, d.fixed)
    PROVE  DraftOK([d EXCEPT !.accounts = list])
<1> DEFINE new == [d EXCEPT !.accounts = list]
<1>1. d \in Form!Drafts /\ Len(d.windows) \in 1..4 /\ list \in Seq(Form!Accounts)
    BY DEF DraftOK, AccountsOK
<1>2. new \in Form!Drafts /\ new.accounts = list /\ new.fixed = d.fixed /\ new.windows = d.windows
    BY <1>1 DEF Form!Drafts
<1> HIDE DEF new
<1>3. DraftOK(new)
    BY <1>1, <1>2 DEF DraftOK
<1> QED BY <1>3 DEF new

LEMMA DraftWithFixed ==
    ASSUME NEW d, DraftOK(d), NEW f \in SUBSET Groups,
           \A i \in DOMAIN d.accounts : d.accounts[i].groups \cap f = {}
    PROVE  DraftOK([d EXCEPT !.fixed = f])
<1> DEFINE new == [d EXCEPT !.fixed = f]
<1>1. d \in Form!Drafts /\ Len(d.windows) \in 1..4 /\ AccountsOK(d.accounts, f)
    BY DEF DraftOK, AccountsOK
<1>2. new \in Form!Drafts /\ new.accounts = d.accounts /\ new.fixed = f /\ new.windows = d.windows
    BY <1>1 DEF Form!Drafts
<1> HIDE DEF new
<1>3. DraftOK(new)
    BY <1>1, <1>2 DEF DraftOK
<1> QED BY <1>3 DEF new

LEMMA DraftWithWindows ==
    ASSUME NEW d, DraftOK(d), NEW w \in Seq(Form!Windows), Len(w) \in 1..4
    PROVE  DraftOK([d EXCEPT !.windows = w])
<1> DEFINE new == [d EXCEPT !.windows = w]
<1>1. d \in Form!Drafts /\ AccountsOK(d.accounts, d.fixed)
    BY DEF DraftOK
<1>2. new \in Form!Drafts /\ new.accounts = d.accounts /\ new.fixed = d.fixed /\ new.windows = w
    BY <1>1 DEF Form!Drafts
<1> HIDE DEF new
<1>3. DraftOK(new)
    BY <1>1, <1>2 DEF DraftOK
<1> QED BY <1>3 DEF new

LEMMA DraftParts ==
    ASSUME NEW d, DraftOK(d)
    PROVE  /\ d.accounts \in Seq(Form!Accounts) /\ AccountsOK(d.accounts, d.fixed)
           /\ d.fixed \in SUBSET Groups /\ d.windows \in Seq(Form!Windows)
           /\ Len(d.windows) \in 1..4
BY DEF DraftOK, Form!Drafts

\* A field of an account only writes that account.
LEMMA ChangeAccountKept ==
    ASSUME DraftOK(draft), NEW i \in DOMAIN draft.accounts, NEW b \in Form!Accounts,
           b.groups \cap draft.fixed = {},
           \A j \in DOMAIN draft.accounts : j # i =>
              /\ b.groups \cap draft.accounts[j].groups = {}
              /\ b.email # Form!NoEmail => b.email # draft.accounts[j].email
    PROVE  DraftOK(Form!ChangeAccount(i, b))
<1>1. AccountsOK(draft.accounts, draft.fixed)
    BY DraftParts
<1> DEFINE list == [draft.accounts EXCEPT ![i] = b]
<1>2. AccountsOK(list, draft.fixed)
    BY <1>1, AccountChanged
<1>3. Form!ChangeAccount(i, b) = [draft EXCEPT !.accounts = list]
    BY DEF Form!ChangeAccount
<1> HIDE DEF list
<1> QED BY <1>2, <1>3, DraftWithAccounts
\* A draft that is edited is still one that can be edited.
LEMMA EditKept ==
    ASSUME Form!FormParameters, FormInv, NEW d, DraftOK(d), Form!Edit(d)
    PROVE  FormInv'
<1>1. /\ edits < MaxEdits /\ edits' = edits + 1 /\ draft' = d
      /\ UNCHANGED <<savedConfig, sending, failed, options>>
    BY DEF Form!Edit
<1>2. edits' \in 0..MaxEdits
    BY <1>1 DEF FormInv, Form!FormParameters
<1>3. DraftOK(draft') /\ DraftOK(savedConfig') /\ (sending' = None \/ DraftOK(sending'))
    BY <1>1 DEF FormInv
<1> QED BY <1>1, <1>2, <1>3 DEF FormInv, Form!SavedWasAccepted, DraftOK, AccountsOK

LEMMA AddAccountKept ==
    ASSUME Form!FormParameters, FormInv, Form!AddAccount
    PROVE  FormInv'
<1> DEFINE list == draft.accounts
           b == [key |-> Form!NewKey(Len(list) + 1), email |-> Form!NoEmail, groups |-> {},
                 percent |-> FALSE, value |-> 100]
           longer == Append(list, b)
           d == [draft EXCEPT !.accounts = longer]
<1>1. Len(list) < MaxAccounts /\ Form!Edit(d)
    BY DEF Form!AddAccount, Form!EditField
<1>2. DraftOK(draft) /\ list \in Seq(Form!Accounts) /\ AccountsOK(list, draft.fixed)
    BY DraftParts DEF FormInv
<1>3. b \in Form!Accounts /\ b.email = Form!NoEmail /\ b.groups = {}
    BY DEF Form!Accounts, Form!NewKey, Form!Keys, Form!Values
<1> HIDE DEF b
<1>4. /\ longer \in Seq(Form!Accounts) /\ Len(longer) = Len(list) + 1
      /\ \A i \in DOMAIN longer : i \in DOMAIN list \/ i = Len(list) + 1
      /\ \A i \in DOMAIN list : longer[i] = list[i]
      /\ longer[Len(list) + 1] = b
    BY <1>2, <1>3
<1>5. Len(longer) \in 1..MaxAccounts
    BY <1>1, <1>2, <1>4 DEF AccountsOK, Form!FormParameters
<1> HIDE DEF longer
<1>6. ASSUME NEW i \in DOMAIN longer
      PROVE  longer[i].groups \cap draft.fixed = {}
    BY <1>2, <1>3, <1>4, <1>6 DEF AccountsOK
<1>7. ASSUME NEW i \in DOMAIN longer, NEW j \in DOMAIN longer, i # j
      PROVE  /\ longer[i].groups \cap longer[j].groups = {}
             /\ longer[i].email # Form!NoEmail => longer[i].email # longer[j].email
  <2>1. CASE i \in DOMAIN list /\ j \in DOMAIN list
      BY <1>2, <1>4, <1>7, <2>1 DEF AccountsOK
  <2>2. CASE i \notin DOMAIN list
      BY <1>3, <1>4, <2>2
  <2>3. CASE j \notin DOMAIN list
    <3>1. longer[j].groups = {} /\ longer[j].email = Form!NoEmail
        BY <1>3, <1>4, <2>3
    <3> QED BY <3>1
  <2> QED BY <2>1, <2>2, <2>3
<1>8. AccountsOK(longer, draft.fixed)
    BY <1>4, <1>5, <1>6, <1>7 DEF AccountsOK
<1>9. DraftOK(d)
    BY <1>2, <1>8, DraftWithAccounts
<1> HIDE DEF d
<1> QED BY <1>1, <1>9, EditKept

LEMMA DeleteAccountKept ==
    ASSUME Form!FormParameters, FormInv, Form!DeleteAccount
    PROVE  FormInv'
<1> DEFINE list == draft.accounts
<1>1. PICK i \in DOMAIN list :
        /\ Len(list) > 1
        /\ Form!Edit([draft EXCEPT !.accounts = Form!RemoveAt(list, i)])
    BY DEF Form!DeleteAccount, Form!EditField
<1>2. DraftOK(draft) /\ list \in Seq(Form!Accounts) /\ AccountsOK(list, draft.fixed)
    BY DraftParts DEF FormInv
<1> DEFINE u == Form!RemoveAt(list, i)
           d == [draft EXCEPT !.accounts = u]
<1>3. u = SubSeq(list, 1, i - 1) \o SubSeq(list, i + 1, Len(list))
    BY DEF Form!RemoveAt
<1> HIDE DEF u, list
<1>4. /\ u \in Seq(Form!Accounts) /\ Len(u) = Len(list) - 1
      /\ \A j \in 1..(Len(list) - 1) : u[j] = IF j < i THEN list[j] ELSE list[j + 1]
    BY <1>2, <1>3, Removed
<1>5. DOMAIN u = 1..(Len(list) - 1) /\ DOMAIN list = 1..Len(list) /\ Len(list) \in Nat
    BY <1>2, <1>4
<1>6. Len(u) \in 1..MaxAccounts
  <2>1. Len(list) \in 1..MaxAccounts /\ MaxAccounts \in Nat
      BY <1>2 DEF AccountsOK, Form!FormParameters
  <2> QED BY <1>1, <1>4, <2>1
<1> DEFINE at(j) == IF j < i THEN j ELSE j + 1
<1>7. \A j \in DOMAIN u : at(j) \in DOMAIN list /\ u[j] = list[at(j)]
    BY <1>4, <1>5
<1>8. \A j, k \in DOMAIN u : j # k => at(j) # at(k)
    BY <1>5
<1> HIDE DEF at
<1>9. AccountsOK(u, draft.fixed)
    BY <1>2, <1>4, <1>6, <1>7, <1>8 DEF AccountsOK
<1>10. DraftOK(d)
    BY <1>2, <1>9, DraftWithAccounts
<1>11. Form!Edit(d)
    BY <1>1 DEF u, list
<1> HIDE DEF d
<1> QED BY <1>10, <1>11, EditKept

\* The key, the email and the reserve of an account, and the groups it gives up.
LEMMA SetFieldKept ==
    ASSUME Form!FormParameters, FormInv,
           \/ Form!SetKey \/ Form!SetEmail \/ Form!SetReserve \/ Form!SetReserveMode
           \/ Form!RemoveGroup
    PROVE  FormInv'
<1>1. DraftOK(draft) /\ draft.accounts \in Seq(Form!Accounts) /\ AccountsOK(draft.accounts, draft.fixed)
    BY DraftParts DEF FormInv
<1>2. ASSUME NEW i \in DOMAIN draft.accounts, NEW b \in Form!Accounts,
             b.groups \subseteq draft.accounts[i].groups,
             \/ b.email = draft.accounts[i].email
             \/ Form!EmailEnabled(i, b.email),
             Form!Edit(Form!ChangeAccount(i, b))
      PROVE  FormInv'
  <2>1. b.groups \cap draft.fixed = {}
      BY <1>1, <1>2 DEF AccountsOK
  <2>2. \A j \in DOMAIN draft.accounts : j # i =>
           /\ b.groups \cap draft.accounts[j].groups = {}
           /\ b.email # Form!NoEmail => b.email # draft.accounts[j].email
      BY <1>1, <1>2 DEF AccountsOK, Form!EmailEnabled
  <2>3. DraftOK(Form!ChangeAccount(i, b))
      BY <1>1, <1>2, <2>1, <2>2, ChangeAccountKept
  <2> QED BY <1>2, <2>3, EditKept
<1>3. \A i \in DOMAIN draft.accounts : draft.accounts[i] \in Form!Accounts
    BY <1>1
<1>4. CASE Form!SetKey
  <2>1. PICK i \in DOMAIN draft.accounts, k \in Form!Keys :
          Form!Edit(Form!ChangeAccount(i, [draft.accounts[i] EXCEPT !.key = k]))
      BY <1>4 DEF Form!SetKey, Form!EditField
  <2> DEFINE b == [draft.accounts[i] EXCEPT !.key = k]
  <2>2. b \in Form!Accounts /\ b.groups = draft.accounts[i].groups
        /\ b.email = draft.accounts[i].email
      BY <1>3 DEF Form!Accounts
  <2>3. Form!Edit(Form!ChangeAccount(i, b))
      BY <2>1
  <2> HIDE DEF b
  <2> QED BY <1>2, <2>2, <2>3
<1>5. CASE Form!SetEmail
  <2>1. PICK i \in DOMAIN draft.accounts, e \in Emails :
          /\ Form!EmailEnabled(i, e)
          /\ Form!Edit(Form!ChangeAccount(i, [draft.accounts[i] EXCEPT !.email = e]))
      BY <1>5 DEF Form!SetEmail, Form!EditField
  <2> DEFINE b == [draft.accounts[i] EXCEPT !.email = e]
  <2>2. b \in Form!Accounts /\ b.groups = draft.accounts[i].groups /\ b.email = e
      BY <1>3 DEF Form!Accounts
  <2>3. Form!Edit(Form!ChangeAccount(i, b))
      BY <2>1
  <2> HIDE DEF b
  <2> QED BY <1>2, <2>1, <2>2, <2>3
<1>6. CASE Form!SetReserve
  <2>1. PICK i \in DOMAIN draft.accounts, v \in Form!Values :
          Form!Edit(Form!ChangeAccount(i, [draft.accounts[i] EXCEPT !.value = v]))
      BY <1>6 DEF Form!SetReserve, Form!EditField
  <2> DEFINE b == [draft.accounts[i] EXCEPT !.value = v]
  <2>2. b \in Form!Accounts /\ b.groups = draft.accounts[i].groups
        /\ b.email = draft.accounts[i].email
      BY <1>3 DEF Form!Accounts
  <2>3. Form!Edit(Form!ChangeAccount(i, b))
      BY <2>1
  <2> HIDE DEF b
  <2> QED BY <1>2, <2>2, <2>3
<1>7. CASE Form!SetReserveMode
  <2> DEFINE a(i) == draft.accounts[i]
             percent(i) == ~a(i).percent
             v(i) == IF ~a(i).percent /\ a(i).value > 100 THEN 100 ELSE a(i).value
             b(i) == [a(i) EXCEPT !.percent = percent(i), !.value = v(i)]
  <2>1. PICK i \in DOMAIN draft.accounts : Form!Edit(Form!ChangeAccount(i, b(i)))
      BY <1>7 DEF Form!SetReserveMode, Form!EditField
  <2>2. a(i) \in Form!Accounts
      BY <1>3
  <2>3. percent(i) \in BOOLEAN
      BY Zenon
  <2>4. v(i) \in Form!Values
      BY <2>2 DEF Form!Accounts, Form!Values
  <2> HIDE DEF percent, v, a
  <2>5. b(i) \in Form!Accounts /\ b(i).groups = a(i).groups /\ b(i).email = a(i).email
      BY <2>2, <2>3, <2>4 DEF Form!Accounts
  <2> HIDE DEF b
  <2> QED BY <1>2, <2>1, <2>5 DEF a
<1>8. CASE Form!RemoveGroup
  <2>1. PICK i \in DOMAIN draft.accounts, g \in Groups :
          Form!Edit(Form!ChangeAccount(i, [draft.accounts[i] EXCEPT !.groups = @ \ {g}]))
      BY <1>8 DEF Form!RemoveGroup
  <2> DEFINE b == [draft.accounts[i] EXCEPT !.groups = draft.accounts[i].groups \ {g}]
  <2>2. b \in Form!Accounts /\ b.groups = draft.accounts[i].groups \ {g}
        /\ b.email = draft.accounts[i].email
      BY <1>3 DEF Form!Accounts
  <2>3. Form!Edit(Form!ChangeAccount(i, b))
      BY <2>1
  <2> HIDE DEF b
  <2> QED BY <1>2, <2>2, <2>3
<1> QED BY <1>4, <1>5, <1>6, <1>7, <1>8

\* A group that is added is in no other select.
LEMMA AddGroupKept ==
    ASSUME Form!FormParameters, FormInv, Form!AddGroup
    PROVE  FormInv'
<1>1. DraftOK(draft) /\ draft.accounts \in Seq(Form!Accounts) /\ AccountsOK(draft.accounts, draft.fixed)
    BY DraftParts DEF FormInv
<1>2. PICK i \in DOMAIN draft.accounts, g \in Groups :
        /\ Form!GroupEnabled(i, g)
        /\ Form!Edit(Form!ChangeAccount(i, [draft.accounts[i] EXCEPT !.groups = @ \cup {g}]))
    BY DEF Form!AddGroup, Form!EditField
<1> DEFINE b == [draft.accounts[i] EXCEPT !.groups = draft.accounts[i].groups \cup {g}]
<1>3. b \in Form!Accounts /\ b.groups = draft.accounts[i].groups \cup {g}
      /\ b.email = draft.accounts[i].email
  <2>1. draft.accounts[i] \in Form!Accounts
      BY <1>1
  <2> QED BY <2>1 DEF Form!Accounts
<1>4. Form!Edit(Form!ChangeAccount(i, b))
    BY <1>2
<1> HIDE DEF b
<1>5. b.groups \cap draft.fixed = {}
    BY <1>1, <1>2, <1>3 DEF AccountsOK, Form!GroupEnabled
<1>6. \A j \in DOMAIN draft.accounts : j # i =>
         /\ b.groups \cap draft.accounts[j].groups = {}
         /\ b.email # Form!NoEmail => b.email # draft.accounts[j].email
    BY <1>1, <1>2, <1>3 DEF AccountsOK, Form!GroupEnabled
<1>7. DraftOK(Form!ChangeAccount(i, b))
    BY <1>1, <1>3, <1>5, <1>6, ChangeAccountKept
<1> QED BY <1>4, <1>7, EditKept

LEMMA FixedKept ==
    ASSUME Form!FormParameters, FormInv, Form!AddFixed \/ Form!RemoveFixed
    PROVE  FormInv'
<1>1. /\ DraftOK(draft) /\ AccountsOK(draft.accounts, draft.fixed) /\ draft.fixed \in SUBSET Groups
    BY DraftParts DEF FormInv
<1>2. CASE Form!AddFixed
  <2>1. PICK g \in Groups \ Form!assignedGroupIds :
          Form!Edit([draft EXCEPT !.fixed = draft.fixed \cup {g}])
      BY <1>2 DEF Form!AddFixed, Form!EditField
  <2> DEFINE f == draft.fixed \cup {g}
  <2>2. f \in SUBSET Groups
      BY <1>1
  <2>3. \A i \in DOMAIN draft.accounts : draft.accounts[i].groups \cap f = {}
      BY <1>1, <2>1 DEF AccountsOK, Form!assignedGroupIds
  <2>4. Form!Edit([draft EXCEPT !.fixed = f])
      BY <2>1
  <2> HIDE DEF f
  <2> QED BY <1>1, <2>2, <2>3, <2>4, DraftWithFixed, EditKept
<1>3. CASE Form!RemoveFixed
  <2>1. PICK g \in draft.fixed : Form!Edit([draft EXCEPT !.fixed = draft.fixed \ {g}])
      BY <1>3 DEF Form!RemoveFixed
  <2> DEFINE f == draft.fixed \ {g}
  <2>2. f \in SUBSET Groups
      BY <1>1
  <2>3. \A i \in DOMAIN draft.accounts : draft.accounts[i].groups \cap f = {}
      BY <1>1 DEF AccountsOK
  <2>4. Form!Edit([draft EXCEPT !.fixed = f])
      BY <2>1
  <2> HIDE DEF f
  <2> QED BY <1>1, <2>2, <2>3, <2>4, DraftWithFixed, EditKept
<1> QED BY <1>2, <1>3

LEMMA WindowsKept ==
    ASSUME Form!FormParameters, FormInv,
           Form!AddPeakWindow \/ Form!ChangePeakWindow \/ Form!RemovePeakWindow
    PROVE  FormInv'
<1> DEFINE list == draft.windows
<1>1. DraftOK(draft) /\ list \in Seq(Form!Windows) /\ Len(list) \in 1..4
    BY DraftParts DEF FormInv
<1>2. ASSUME NEW w \in Seq(Form!Windows), Len(w) \in 1..4, Form!Edit([draft EXCEPT !.windows = w])
      PROVE  FormInv'
    BY <1>1, <1>2, DraftWithWindows, EditKept
<1>3. CASE Form!AddPeakWindow
  <2> DEFINE w == Append(list, "evening")
  <2>1. Len(list) < 4 /\ Form!Edit([draft EXCEPT !.windows = w])
      BY <1>3 DEF Form!AddPeakWindow, Form!EditField
  <2>2. w \in Seq(Form!Windows) /\ Len(w) = Len(list) + 1
      BY <1>1 DEF Form!Windows
  <2> HIDE DEF w, list
  <2>3. Len(w) \in 1..4
      BY <1>1, <2>1, <2>2
  <2> QED BY <1>2, <2>1, <2>2, <2>3
<1>4. CASE Form!ChangePeakWindow
  <2>1. PICK i \in DOMAIN list, v \in Form!Windows : Form!Edit([draft EXCEPT !.windows[i] = v])
      BY <1>4 DEF Form!ChangePeakWindow, Form!EditField
  <2> DEFINE w == [list EXCEPT ![i] = v]
  <2>2. w \in Seq(Form!Windows) /\ Len(w) = Len(list)
      BY <1>1
  <2>3. Form!Edit([draft EXCEPT !.windows = w])
      BY <2>1
  <2> HIDE DEF w
  <2> QED BY <1>1, <1>2, <2>2, <2>3
<1>5. CASE Form!RemovePeakWindow
  <2>1. PICK i \in DOMAIN list :
          /\ Len(list) # 1
          /\ Form!Edit([draft EXCEPT !.windows = Form!RemoveAt(list, i)])
      BY <1>5 DEF Form!RemovePeakWindow, Form!EditField
  <2> DEFINE w == Form!RemoveAt(list, i)
  <2>2. w = SubSeq(list, 1, i - 1) \o SubSeq(list, i + 1, Len(list))
      BY DEF Form!RemoveAt
  <2>3. Form!Edit([draft EXCEPT !.windows = w])
      BY <2>1
  <2> HIDE DEF w, list
  <2>4. w \in Seq(Form!Windows) /\ Len(w) = Len(list) - 1
      BY <1>1, <2>2, Removed
  <2>5. Len(w) \in 1..4
      BY <1>1, <2>1, <2>4
  <2> QED BY <1>2, <2>3, <2>4, <2>5 DEF list
<1> QED BY <1>3, <1>4, <1>5

\* Reading the options, saving and discarding.
LEMMA SavingKept ==
    ASSUME Form!FormParameters, FormInv,
           \/ Form!ReadOptions \/ Form!Submit \/ Form!SaveSucceeds \/ Form!SaveFails
           \/ Form!Discard \/ UNCHANGED Form!vars
    PROVE  FormInv'
<1>1. /\ DraftOK(draft) /\ DraftOK(savedConfig) /\ Form!SavedWasAccepted
      /\ sending = None \/ DraftOK(sending)
      /\ failed \in BOOLEAN /\ (failed => sending = None)
      /\ options \in BOOLEAN /\ edits \in 0..MaxEdits
    BY DEF FormInv
<1>2. ASSUME UNCHANGED savedConfig, DraftOK(draft'), sending' = None \/ DraftOK(sending'),
             failed' \in BOOLEAN, failed' => sending' = None, options' \in BOOLEAN, edits' = edits
      PROVE  FormInv'
  <2>1. Form!SavedWasAccepted'
      BY <1>1, <1>2 DEF Form!SavedWasAccepted
  <2>2. DraftOK(draft)' /\ DraftOK(savedConfig)' /\ (sending = None \/ DraftOK(sending))'
      BY <1>1, <1>2 DEF DraftOK, AccountsOK
  <2> QED BY <1>1, <1>2, <2>1, <2>2 DEF FormInv
<1>3. CASE Form!ReadOptions
    BY <1>1, <1>2, <1>3 DEF Form!ReadOptions
<1>4. CASE Form!Submit
    BY <1>1, <1>2, <1>4 DEF Form!Submit
<1>5. CASE Form!SaveSucceeds
  <2>1. /\ sending # None /\ Form!Accepts(sending)
        /\ draft' = sending /\ savedConfig' = sending
        /\ sending' = None /\ UNCHANGED <<failed, options, edits>>
      BY <1>5 DEF Form!SaveSucceeds
  <2>2. DraftOK(sending)
      BY <1>1, <2>1
  <2>3. Form!SavedWasAccepted'
      BY <2>1 DEF Form!SavedWasAccepted, Form!Accepts
  <2>4. DraftOK(draft)' /\ DraftOK(savedConfig)'
      BY <2>1, <2>2 DEF DraftOK, AccountsOK
  <2> QED BY <1>1, <2>1, <2>3, <2>4 DEF FormInv
<1>6. CASE Form!SaveFails
    BY <1>1, <1>2, <1>6 DEF Form!SaveFails
<1>7. CASE Form!Discard
    BY <1>1, <1>2, <1>7 DEF Form!Discard
<1>8. CASE UNCHANGED Form!vars
    BY <1>1, <1>2, <1>8 DEF Form!vars
<1> QED BY <1>3, <1>4, <1>5, <1>6, <1>7, <1>8

LEMMA FormInvariant ==
    ASSUME Form!FormParameters
    PROVE  Form!Spec => []FormInv
<1>1. Form!Init => FormInv
  <2> SUFFICES ASSUME Form!Init PROVE FormInv
      OBVIOUS
  <2>1. /\ draft = Opened /\ savedConfig = Opened /\ sending = None /\ failed = FALSE
        /\ options = FALSE /\ edits = 0
      BY DEF Form!Init
  <2>2. /\ Opened \in Form!Drafts /\ Len(Opened.accounts) \in 1..MaxAccounts
        /\ Len(Opened.windows) \in 1..4 /\ Form!Accepts(Opened)
      BY DEF Form!FormParameters
  <2>3. AccountsOK(Opened.accounts, Opened.fixed)
      BY <2>2 DEF AccountsOK, Form!Drafts, Form!Accepts
  <2>4. DraftOK(Opened)
      BY <2>2, <2>3 DEF DraftOK
  <2>5. Form!SavedWasAccepted /\ edits \in 0..MaxEdits
      BY <2>1 DEF Form!SavedWasAccepted, Form!FormParameters
  <2> QED BY <2>1, <2>4, <2>5 DEF FormInv
<1>2. FormInv /\ [Form!Next]_Form!vars => FormInv'
    BY AddAccountKept, DeleteAccountKept, SetFieldKept, AddGroupKept, FixedKept, WindowsKept,
       SavingKept DEF Form!Next
<1> QED BY <1>1, <1>2, PTL DEF Form!Spec

\* A draft has the shape of a configuration, with an account and a window to
\* change and no more windows than the server takes, whatever is edited, saved
\* and discarded, the chips that can be removed during a save included.
THEOREM DraftEditable ==
    ASSUME Form!FormParameters
    PROVE  Form!Spec => [](Form!TypeOK /\ Form!Editable)
<1>1. FormInv => Form!TypeOK /\ Form!Editable
  <2> SUFFICES ASSUME FormInv PROVE Form!TypeOK /\ Form!Editable
      OBVIOUS
  <2>1. /\ draft \in Form!Drafts /\ savedConfig \in Form!Drafts
        /\ sending = None \/ sending \in Form!Drafts
        /\ Len(draft.windows) \in 1..4
      BY DEF FormInv, DraftOK
  <2>2. draft.accounts \in Seq(Form!Accounts) /\ Len(draft.accounts) \in 1..MaxAccounts
      BY DEF FormInv, DraftOK, AccountsOK
  <2>3. draft.accounts # <<>> /\ Len(draft.accounts) <= MaxAccounts
      BY <2>2
  <2>4. /\ failed \in BOOLEAN /\ (failed => sending = None)
        /\ options \in BOOLEAN /\ edits \in 0..MaxEdits
      BY DEF FormInv
  <2> QED BY <2>1, <2>3, <2>4 DEF Form!TypeOK, Form!Editable
<1> QED BY <1>1, FormInvariant, PTL

\* No group is in two fields of a draft: the options that the selects disable
\* keep it within the server's rule of one owner.
THEOREM OneOwner ==
    ASSUME Form!FormParameters
    PROVE  Form!Spec => []Form!GroupsApart
<1>1. FormInv => Form!GroupsApart
    BY DEF FormInv, DraftOK, AccountsOK, Form!GroupsApart
<1> QED BY <1>1, FormInvariant, PTL

\* No two accounts of a draft are the same account upstream.
THEOREM OneAccountEach ==
    ASSUME Form!FormParameters
    PROVE  Form!Spec => []Form!EmailsApart
<1>1. FormInv => Form!EmailsApart
    BY DEF FormInv, DraftOK, AccountsOK, Form!EmailsApart
<1> QED BY <1>1, FormInvariant, PTL

\* What the page takes for saved is what the server accepted, although chips were
\* removed while it was being saved.
THEOREM SavedAccepted ==
    ASSUME Form!FormParameters
    PROVE  Form!Spec => []Form!SavedWasAccepted
<1>1. FormInv => Form!SavedWasAccepted
    BY DEF FormInv
<1> QED BY <1>1, FormInvariant, PTL

----------------------------------------------------------------------------
(* The configuration: what is accepted, and what the conversions keep.      *)

\* What parsing makes of an account and of the schedule of a form.
ParsedAccount(a) ==
    [key |-> Trimmed[a.key], email |-> Lower[a.email], label |-> Trimmed[a.label],
     shareCount |-> a.shareCount, redistributionEnabled |-> a.redistributionEnabled,
     reserveMode |-> a.reserveMode, reserveValue |-> a.reserveValue,
     targetGroupIds |-> a.targetGroupIds, enabled |-> a.enabled]

ParsedSchedule(u) ==
    [enabled |-> u.enabled, timezone |-> Trimmed[u.timezone], peakWindows |-> u.peakWindows,
     exemptUserIds |-> u.exemptUserIds, peakConcurrency |-> u.peakConcurrency,
     idleConcurrency |-> u.idleConcurrency, peakRpm |-> u.peakRpm, idleRpm |-> u.idleRpm]

ParsedForm(c) ==
    [fixedGroupIds |-> c.fixedGroupIds, resetSync |-> c.resetSync,
     capacitySync |-> c.capacitySync, promptAudit |-> c.promptAudit,
     userConcurrencySchedule |-> ParsedSchedule(c.userConcurrencySchedule),
     accounts |-> [i \in DOMAIN c.accounts |-> ParsedAccount(c.accounts[i])]]

\* The two mappings of parseServiceConfig lose no field and swap none.
LEMMA ParsesForm ==
    ASSUME NEW c \in Configuring!Configurations
    PROVE  Configuring!ParseService(c) = ParsedForm(c)
<1> DEFINE raw == Configuring!ToRaw(c)
           parsed == Configuring!Parsed(raw)
<1>1. /\ raw.fixed_group_ids = c.fixedGroupIds
      /\ raw.reset_sync = [interval_seconds |-> c.resetSync.intervalSeconds,
            request_timeout_seconds |-> c.resetSync.requestTimeoutSeconds,
            reset_at_tolerance_seconds |-> c.resetSync.resetAtToleranceSeconds,
            usage_drop_tolerance_percent |-> c.resetSync.usageDropTolerancePercent]
      /\ raw.capacity_sync = [interval_seconds |-> c.capacitySync.intervalSeconds,
            minimum_used_percent |-> c.capacitySync.minimumUsedPercent,
            minimum_change_usd |-> c.capacitySync.minimumChangeUsd]
      /\ raw.prompt_audit = [max_request_body_mib |-> c.promptAudit.maxRequestBodyMiB,
            normal_retention_days |-> c.promptAudit.normalRetentionDays,
            risk_retention_days |-> c.promptAudit.riskRetentionDays]
      /\ raw.accounts = [i \in DOMAIN c.accounts |-> Configuring!ToRawAccount(c.accounts[i])]
    BY DEF Configuring!ToRaw
<1>2. raw.user_concurrency_schedule =
        LET u == c.userConcurrencySchedule
        IN [enabled |-> u.enabled, timezone |-> u.timezone,
            peak_windows |-> u.peakWindows, exempt_user_ids |-> u.exemptUserIds,
            peak_concurrency |-> u.peakConcurrency, idle_concurrency |-> u.idleConcurrency,
            peak_rpm |-> u.peakRpm, idle_rpm |-> u.idleRpm]
    BY DEF Configuring!ToRaw
<1>3. raw = [fixed_group_ids |-> raw.fixed_group_ids, reset_sync |-> raw.reset_sync,
        capacity_sync |-> raw.capacity_sync, prompt_audit |-> raw.prompt_audit,
        user_concurrency_schedule |-> raw.user_concurrency_schedule,
        accounts |-> raw.accounts]
    BY DEF Configuring!ToRaw
<1> HIDE DEF raw
<1>4. /\ parsed.fixed_group_ids = raw.fixed_group_ids
      /\ parsed.reset_sync = raw.reset_sync
      /\ parsed.capacity_sync = raw.capacity_sync
      /\ parsed.prompt_audit = raw.prompt_audit
      /\ parsed.user_concurrency_schedule =
            [raw.user_concurrency_schedule EXCEPT !.timezone = Trimmed[@]]
      /\ parsed.accounts
            = [i \in DOMAIN raw.accounts |-> Configuring!TrimmedAccount(raw.accounts[i])]
    BY <1>3 DEF Configuring!Parsed
<1> HIDE DEF parsed
<1> DEFINE new == Configuring!FromRaw(parsed)
<1>5. new.resetSync = c.resetSync /\ new.capacitySync = c.capacitySync /\ new.promptAudit = c.promptAudit
  <2> DEFINE rs == parsed.reset_sync
             cs == parsed.capacity_sync
             pa == parsed.prompt_audit
  <2>1. /\ rs.interval_seconds = c.resetSync.intervalSeconds
        /\ rs.request_timeout_seconds = c.resetSync.requestTimeoutSeconds
        /\ rs.reset_at_tolerance_seconds = c.resetSync.resetAtToleranceSeconds
        /\ rs.usage_drop_tolerance_percent = c.resetSync.usageDropTolerancePercent
        /\ cs.interval_seconds = c.capacitySync.intervalSeconds
        /\ cs.minimum_used_percent = c.capacitySync.minimumUsedPercent
        /\ cs.minimum_change_usd = c.capacitySync.minimumChangeUsd
        /\ pa.max_request_body_mib = c.promptAudit.maxRequestBodyMiB
        /\ pa.normal_retention_days = c.promptAudit.normalRetentionDays
        /\ pa.risk_retention_days = c.promptAudit.riskRetentionDays
      BY <1>1, <1>4
  <2>2. /\ new.resetSync = [intervalSeconds |-> rs.interval_seconds,
              requestTimeoutSeconds |-> rs.request_timeout_seconds,
              resetAtToleranceSeconds |-> rs.reset_at_tolerance_seconds,
              usageDropTolerancePercent |-> rs.usage_drop_tolerance_percent]
        /\ new.capacitySync = [intervalSeconds |-> cs.interval_seconds,
              minimumUsedPercent |-> cs.minimum_used_percent,
              minimumChangeUsd |-> cs.minimum_change_usd]
        /\ new.promptAudit = [maxRequestBodyMiB |-> pa.max_request_body_mib,
              normalRetentionDays |-> pa.normal_retention_days,
              riskRetentionDays |-> pa.risk_retention_days]
      BY DEF Configuring!FromRaw
  <2> HIDE DEF rs, cs, pa
  <2>3. /\ new.resetSync = [intervalSeconds |-> c.resetSync.intervalSeconds,
              requestTimeoutSeconds |-> c.resetSync.requestTimeoutSeconds,
              resetAtToleranceSeconds |-> c.resetSync.resetAtToleranceSeconds,
              usageDropTolerancePercent |-> c.resetSync.usageDropTolerancePercent]
        /\ new.capacitySync = [intervalSeconds |-> c.capacitySync.intervalSeconds,
              minimumUsedPercent |-> c.capacitySync.minimumUsedPercent,
              minimumChangeUsd |-> c.capacitySync.minimumChangeUsd]
        /\ new.promptAudit = [maxRequestBodyMiB |-> c.promptAudit.maxRequestBodyMiB,
              normalRetentionDays |-> c.promptAudit.normalRetentionDays,
              riskRetentionDays |-> c.promptAudit.riskRetentionDays]
      BY <2>1, <2>2
  <2> HIDE DEF new
  <2>4. /\ c.resetSync \in Configuring!ResetForms /\ c.capacitySync \in Configuring!CapacityForms
        /\ c.promptAudit \in Configuring!AuditForms
      BY DEF Configuring!Configurations
  <2>5. new.resetSync = c.resetSync
      BY <2>3, <2>4 DEF Configuring!ResetForms
  <2>6. new.capacitySync = c.capacitySync
      BY <2>3, <2>4 DEF Configuring!CapacityForms
  <2>7. new.promptAudit = c.promptAudit
      BY <2>3, <2>4 DEF Configuring!AuditForms
  <2> QED BY <2>5, <2>6, <2>7
<1>6. new.userConcurrencySchedule = ParsedSchedule(c.userConcurrencySchedule)
  <2> DEFINE v == parsed.user_concurrency_schedule
             u == c.userConcurrencySchedule
  <2>1. v = [raw.user_concurrency_schedule EXCEPT !.timezone = Trimmed[@]]
      BY <1>4
  <2> HIDE DEF v, u
  <2>2. raw.user_concurrency_schedule =
          [enabled |-> u.enabled, timezone |-> u.timezone,
           peak_windows |-> u.peakWindows, exempt_user_ids |-> u.exemptUserIds,
           peak_concurrency |-> u.peakConcurrency, idle_concurrency |-> u.idleConcurrency,
           peak_rpm |-> u.peakRpm, idle_rpm |-> u.idleRpm]
      BY <1>2 DEF u
  <2>3. /\ v.enabled = u.enabled /\ v.timezone = Trimmed[u.timezone]
        /\ v.peak_windows = u.peakWindows /\ v.exempt_user_ids = u.exemptUserIds
        /\ v.peak_concurrency = u.peakConcurrency /\ v.idle_concurrency = u.idleConcurrency
        /\ v.peak_rpm = u.peakRpm /\ v.idle_rpm = u.idleRpm
      BY <2>1, <2>2
  <2>4. new.userConcurrencySchedule =
          [enabled |-> v.enabled, timezone |-> v.timezone, peakWindows |-> v.peak_windows,
           exemptUserIds |-> v.exempt_user_ids, peakConcurrency |-> v.peak_concurrency,
           idleConcurrency |-> v.idle_concurrency, peakRpm |-> v.peak_rpm, idleRpm |-> v.idle_rpm]
      BY DEF Configuring!FromRaw, v
  <2> QED BY <2>3, <2>4 DEF ParsedSchedule, u
<1>7. new.accounts
        = [i \in DOMAIN c.accounts |-> ParsedAccount(c.accounts[i])]
  <2>1. DOMAIN parsed.accounts = DOMAIN c.accounts
      BY <1>1, <1>4
  <2>2. ASSUME NEW i \in DOMAIN c.accounts
        PROVE  Configuring!FromRawAccount(parsed.accounts[i]) = ParsedAccount(c.accounts[i])
    <3> DEFINE a == c.accounts[i]
    <3>1. raw.accounts[i] = Configuring!ToRawAccount(a)
        BY <1>1
    <3>2. parsed.accounts[i] = Configuring!TrimmedAccount(raw.accounts[i])
        BY <1>1, <1>4
    <3> DEFINE p == parsed.accounts[i]
    <3> HIDE DEF a, p
    <3>3. /\ p.key = Trimmed[a.key] /\ p.email = a.email /\ p.label = Trimmed[a.label]
          /\ p.share_count = a.shareCount /\ p.redistribution_enabled = a.redistributionEnabled
          /\ p.reserve_mode = a.reserveMode /\ p.reserve_value = a.reserveValue
          /\ p.target_group_ids = a.targetGroupIds /\ p.enabled = a.enabled
        BY <3>1, <3>2 DEF Configuring!ToRawAccount, Configuring!TrimmedAccount, p
    <3>4. Configuring!FromRawAccount(p) = ParsedAccount(a)
        BY <3>3 DEF Configuring!FromRawAccount, ParsedAccount
    <3> QED BY <3>4 DEF a, p
  <2>3. new.accounts
          = [i \in DOMAIN parsed.accounts |-> Configuring!FromRawAccount(parsed.accounts[i])]
      BY DEF Configuring!FromRaw
  <2> QED BY <2>1, <2>2, <2>3
<1>8. /\ new.fixedGroupIds = c.fixedGroupIds
      /\ new \in
            [fixedGroupIds : {new.fixedGroupIds},
             resetSync : {new.resetSync},
             capacitySync : {new.capacitySync},
             promptAudit : {new.promptAudit},
             userConcurrencySchedule : {new.userConcurrencySchedule},
             accounts : {new.accounts}]
    BY <1>1, <1>4 DEF Configuring!FromRaw
<1>9. Configuring!ParseService(c) = new
    BY DEF Configuring!ParseService, raw, parsed
<1> QED BY <1>5, <1>6, <1>7, <1>8, <1>9 DEF ParsedForm

\* A parsed form is a form, and parsing it again changes nothing.
LEMMA ParsesOnce ==
    ASSUME Configuring!ConfigParameters, NEW c \in Configuring!Configurations
    PROVE  /\ ParsedForm(c) \in Configuring!Configurations
           /\ ParsedForm(ParsedForm(c)) = ParsedForm(c)
<1> DEFINE u == c.userConcurrencySchedule
           s == c.accounts
<1>1. /\ c.fixedGroupIds \in Seq(Int) /\ c.resetSync \in Configuring!ResetForms
      /\ c.capacitySync \in Configuring!CapacityForms /\ c.promptAudit \in Configuring!AuditForms
      /\ u \in Configuring!ScheduleForms /\ s \in Seq(Configuring!AccountForms)
    BY DEF Configuring!Configurations
<1> HIDE DEF u, s
<1>2. ParsedSchedule(u) \in Configuring!ScheduleForms
    BY <1>1 DEF Configuring!ConfigParameters, Configuring!ScheduleForms, ParsedSchedule
<1>3. ParsedSchedule(ParsedSchedule(u)) = ParsedSchedule(u)
    BY <1>1 DEF Configuring!ConfigParameters, Configuring!ScheduleForms, ParsedSchedule
<1>4. ASSUME NEW a \in Configuring!AccountForms
      PROVE  /\ ParsedAccount(a) \in Configuring!AccountForms
             /\ ParsedAccount(ParsedAccount(a)) = ParsedAccount(a)
    BY DEF Configuring!ConfigParameters, Configuring!AccountForms, ParsedAccount
<1> DEFINE t == [i \in DOMAIN s |-> ParsedAccount(s[i])]
<1>5. t \in Seq(Configuring!AccountForms)
    BY <1>1, <1>4
<1>6. [i \in DOMAIN t |-> ParsedAccount(t[i])] = t
    BY <1>1, <1>4
<1> HIDE DEF t
<1>7. ParsedForm(c) = [fixedGroupIds |-> c.fixedGroupIds, resetSync |-> c.resetSync,
        capacitySync |-> c.capacitySync, promptAudit |-> c.promptAudit,
        userConcurrencySchedule |-> ParsedSchedule(u), accounts |-> t]
    BY DEF ParsedForm, u, s, t
<1>8. ParsedForm(c) \in Configuring!Configurations
    BY <1>1, <1>2, <1>5, <1>7 DEF Configuring!Configurations
<1>9. ParsedForm(ParsedForm(c)) = ParsedForm(c)
    BY <1>3, <1>6, <1>7 DEF ParsedForm
<1> QED BY <1>8, <1>9

\* A parsed form is written as it is: toRawConfig changes nothing of it.
LEMMA WrittenAsKept ==
    ASSUME Configuring!ConfigParameters, NEW c \in Configuring!Configurations
    PROVE  Configuring!Parsed(Configuring!ToRaw(ParsedForm(c))) = Configuring!ToRaw(ParsedForm(c))
<1> DEFINE d == ParsedForm(c)
           raw == Configuring!ToRaw(d)
           u == c.userConcurrencySchedule
           v == raw.user_concurrency_schedule
<1>1. /\ Trimmed[u.timezone] = Trimmed[Trimmed[u.timezone]]
      /\ \A i \in DOMAIN c.accounts :
            /\ Trimmed[c.accounts[i].key] = Trimmed[Trimmed[c.accounts[i].key]]
            /\ Trimmed[c.accounts[i].label] = Trimmed[Trimmed[c.accounts[i].label]]
  <2>1. u.timezone \in DOMAIN Trimmed
      BY DEF Configuring!Configurations, Configuring!ScheduleForms
  <2>2. ASSUME NEW i \in DOMAIN c.accounts
        PROVE  c.accounts[i].key \in DOMAIN Trimmed /\ c.accounts[i].label \in DOMAIN Trimmed
    <3>1. c.accounts[i] \in Configuring!AccountForms
        BY DEF Configuring!Configurations
    <3> QED BY <3>1 DEF Configuring!AccountForms
  <2> QED BY <2>1, <2>2 DEF Configuring!ConfigParameters
<1>2. /\ d.userConcurrencySchedule = ParsedSchedule(u)
      /\ d.accounts = [i \in DOMAIN c.accounts |-> ParsedAccount(c.accounts[i])]
    BY DEF ParsedForm
<1> HIDE DEF d
<1>3. /\ raw = [fixed_group_ids |-> raw.fixed_group_ids, reset_sync |-> raw.reset_sync,
            capacity_sync |-> raw.capacity_sync, prompt_audit |-> raw.prompt_audit,
            user_concurrency_schedule |-> v, accounts |-> raw.accounts]
      /\ raw.accounts = [i \in DOMAIN d.accounts |-> Configuring!ToRawAccount(d.accounts[i])]
    BY DEF Configuring!ToRaw
<1>4. v = [enabled |-> v.enabled, timezone |-> Trimmed[u.timezone], peak_windows |-> v.peak_windows,
           exempt_user_ids |-> v.exempt_user_ids, peak_concurrency |-> v.peak_concurrency,
           idle_concurrency |-> v.idle_concurrency, peak_rpm |-> v.peak_rpm, idle_rpm |-> v.idle_rpm]
    BY <1>2 DEF Configuring!ToRaw, ParsedSchedule
<1>5. [v EXCEPT !.timezone = Trimmed[v.timezone]] = v
    BY <1>1, <1>4
<1>6. ASSUME NEW i \in DOMAIN raw.accounts
      PROVE  Configuring!TrimmedAccount(raw.accounts[i]) = raw.accounts[i]
  <2> DEFINE a == c.accounts[i]
             p == raw.accounts[i]
  <2>1. i \in DOMAIN c.accounts /\ p = Configuring!ToRawAccount(ParsedAccount(a))
      BY <1>2, <1>3
  <2>2. Trimmed[a.key] = Trimmed[Trimmed[a.key]] /\ Trimmed[a.label] = Trimmed[Trimmed[a.label]]
      BY <1>1, <2>1
  <2> HIDE DEF a, p
  <2>3. p = [key |-> Trimmed[a.key], email |-> p.email, label |-> Trimmed[a.label],
             share_count |-> p.share_count, redistribution_enabled |-> p.redistribution_enabled,
             reserve_mode |-> p.reserve_mode, reserve_value |-> p.reserve_value,
             target_group_ids |-> p.target_group_ids, enabled |-> p.enabled]
      BY <2>1 DEF Configuring!ToRawAccount, ParsedAccount
  <2>4. p.key = Trimmed[p.key] /\ p.label = Trimmed[p.label]
      BY <2>2, <2>3
  <2>5. [p EXCEPT !.key = Trimmed[p.key], !.label = Trimmed[p.label]] = p
      BY <2>3, <2>4
  <2> QED BY <2>5 DEF Configuring!TrimmedAccount, p
<1> HIDE DEF raw, v
<1>7. [i \in DOMAIN raw.accounts |-> Configuring!TrimmedAccount(raw.accounts[i])] = raw.accounts
    BY <1>3, <1>6
<1>8. Configuring!Parsed(raw) = [raw EXCEPT !.user_concurrency_schedule = v, !.accounts = raw.accounts]
    BY <1>3, <1>5, <1>7 DEF Configuring!Parsed, v
<1> QED BY <1>3, <1>8 DEF d, raw

\* What the file's schema accepts the page's schema accepts.
LEMMA PageTakesWhatFileTakes ==
    ASSUME NEW c \in Configuring!Configurations, Configuring!RawConfig(Configuring!ToRaw(c))
    PROVE  Configuring!ServiceConfig(c)
<1> DEFINE raw == Configuring!ToRaw(c)
<1>1. /\ raw.fixed_group_ids = c.fixedGroupIds
      /\ raw.reset_sync = [interval_seconds |-> c.resetSync.intervalSeconds,
            request_timeout_seconds |-> c.resetSync.requestTimeoutSeconds,
            reset_at_tolerance_seconds |-> c.resetSync.resetAtToleranceSeconds,
            usage_drop_tolerance_percent |-> c.resetSync.usageDropTolerancePercent]
      /\ raw.capacity_sync = [interval_seconds |-> c.capacitySync.intervalSeconds,
            minimum_used_percent |-> c.capacitySync.minimumUsedPercent,
            minimum_change_usd |-> c.capacitySync.minimumChangeUsd]
      /\ raw.prompt_audit = [max_request_body_mib |-> c.promptAudit.maxRequestBodyMiB,
            normal_retention_days |-> c.promptAudit.normalRetentionDays,
            risk_retention_days |-> c.promptAudit.riskRetentionDays]
      /\ raw.user_concurrency_schedule =
            LET u == c.userConcurrencySchedule
            IN [enabled |-> u.enabled, timezone |-> u.timezone,
                peak_windows |-> u.peakWindows, exempt_user_ids |-> u.exemptUserIds,
                peak_concurrency |-> u.peakConcurrency, idle_concurrency |-> u.idleConcurrency,
                peak_rpm |-> u.peakRpm, idle_rpm |-> u.idleRpm]
      /\ raw.accounts = [i \in DOMAIN c.accounts |-> Configuring!ToRawAccount(c.accounts[i])]
    BY DEF Configuring!ToRaw
<1> HIDE DEF raw
<1>2. Configuring!RawShape(raw) /\ Configuring!Claims(raw)
    BY DEF Configuring!RawConfig, raw
<1>3. /\ Configuring!Ids(c.fixedGroupIds) /\ Configuring!RawSchedule(raw.user_concurrency_schedule)
      /\ raw.accounts # <<>>
      /\ \A i \in DOMAIN raw.accounts : Configuring!RawAccount(raw.accounts[i])
      /\ c.promptAudit.riskRetentionDays >= c.promptAudit.normalRetentionDays
  <2>1. /\ Configuring!Ids(raw.fixed_group_ids)
        /\ Configuring!RawSchedule(raw.user_concurrency_schedule) /\ raw.accounts # <<>>
        /\ \A i \in DOMAIN raw.accounts : Configuring!RawAccount(raw.accounts[i])
      BY <1>2 DEF Configuring!RawShape
  <2>2. raw.prompt_audit.risk_retention_days >= raw.prompt_audit.normal_retention_days
      BY <1>2 DEF Configuring!Claims
  <2>3. /\ raw.prompt_audit.risk_retention_days = c.promptAudit.riskRetentionDays
        /\ raw.prompt_audit.normal_retention_days = c.promptAudit.normalRetentionDays
        /\ raw.fixed_group_ids = c.fixedGroupIds
      BY <1>1
  <2>4. Configuring!Ids(c.fixedGroupIds)
      BY <2>1, <2>3
  <2>5. c.promptAudit.riskRetentionDays >= c.promptAudit.normalRetentionDays
      BY ONLY <2>2, <2>3
  <2> QED BY ONLY <2>1, <2>4, <2>5
<1>4. Configuring!Within(c.resetSync, [intervalSeconds |-> <<30, 86400>>,
          requestTimeoutSeconds |-> <<1, 120>>, resetAtToleranceSeconds |-> <<0, 3600>>,
          usageDropTolerancePercent |-> <<0, 1000>>])
  <2>1. Configuring!Within(raw.reset_sync, [interval_seconds |-> <<30, 86400>>,
          request_timeout_seconds |-> <<1, 120>>, reset_at_tolerance_seconds |-> <<0, 3600>>,
          usage_drop_tolerance_percent |-> <<0, 1000>>])
      BY <1>2 DEF Configuring!RawShape
  <2> QED BY <1>1, <2>1 DEF Configuring!Within
<1>5. Configuring!Within(c.capacitySync, [intervalSeconds |-> <<60, 86400>>,
          minimumUsedPercent |-> <<1, 1000>>, minimumChangeUsd |-> <<0, 10000>>])
  <2>1. Configuring!Within(raw.capacity_sync, [interval_seconds |-> <<60, 86400>>,
          minimum_used_percent |-> <<1, 1000>>, minimum_change_usd |-> <<0, 10000>>])
      BY <1>2 DEF Configuring!RawShape
  <2> QED BY <1>1, <2>1 DEF Configuring!Within
<1>6. Configuring!Within(c.promptAudit, [maxRequestBodyMiB |-> <<1, 16>>,
          normalRetentionDays |-> <<1, 365>>, riskRetentionDays |-> <<1, 3650>>])
  <2>1. Configuring!Within(raw.prompt_audit, [max_request_body_mib |-> <<1, 16>>,
          normal_retention_days |-> <<1, 365>>, risk_retention_days |-> <<1, 3650>>])
      BY <1>2 DEF Configuring!RawShape
  <2> QED BY <1>1, <2>1 DEF Configuring!Within
<1>7. Configuring!ServiceSchedule(c.userConcurrencySchedule)
  <2> DEFINE u == c.userConcurrencySchedule
             v == raw.user_concurrency_schedule
  <2>1. /\ v.timezone = u.timezone /\ v.peak_windows = u.peakWindows
        /\ v.exempt_user_ids = u.exemptUserIds /\ v.peak_concurrency = u.peakConcurrency
        /\ v.idle_concurrency = u.idleConcurrency
        /\ v.peak_rpm = u.peakRpm /\ v.idle_rpm = u.idleRpm
      BY <1>1
  <2> HIDE DEF u, v
  <2>2. Configuring!RawSchedule(v)
      BY <1>3 DEF v
  <2>3. Configuring!Within(u, [peakConcurrency |-> <<1, 100>>, idleConcurrency |-> <<1, 100>>,
                  peakRpm |-> <<1, 10000>>, idleRpm |-> <<1, 10000>>])
    <3>1. Configuring!Within(v, [peak_concurrency |-> <<1, 100>>, idle_concurrency |-> <<1, 100>>,
                  peak_rpm |-> <<1, 10000>>, idle_rpm |-> <<1, 10000>>])
        BY <2>2 DEF Configuring!RawSchedule
    <3> QED BY <2>1, <3>1 DEF Configuring!Within
  <2>4. /\ Trimmed[u.timezone] \in Timezones /\ Configuring!PeakWindows(u.peakWindows)
        /\ Configuring!Ids(u.exemptUserIds) /\ Len(u.exemptUserIds) <= 10000
        /\ Configuring!Distinct(u.exemptUserIds)
        /\ u.peakConcurrency <= u.idleConcurrency /\ u.peakRpm <= u.idleRpm
      BY <2>1, <2>2 DEF Configuring!RawSchedule
  <2>5. Configuring!ServiceSchedule(u)
      BY <2>3, <2>4 DEF Configuring!ServiceSchedule
  <2> QED BY <2>5 DEF u
<1>8. c.accounts # <<>>
    BY <1>1, <1>3
<1>9. ASSUME NEW i \in DOMAIN c.accounts
      PROVE  Configuring!ReserveFits(c.accounts[i].reserveMode, c.accounts[i].reserveValue)
  <2>1. Configuring!RawAccount(Configuring!ToRawAccount(c.accounts[i]))
      BY <1>1, <1>3
  <2> QED BY <2>1 DEF Configuring!RawAccount, Configuring!ToRawAccount
<1> QED BY <1>3, <1>4, <1>5, <1>6, <1>7, <1>8, <1>9 DEF Configuring!ServiceConfig

\* A configuration that is accepted is accepted as it was parsed.
LEMMA StaysAccepted ==
    ASSUME Configuring!ConfigParameters, NEW c \in Configuring!Configurations,
           Configuring!RawConfig(Configuring!ToRaw(c))
    PROVE  Configuring!RawConfig(Configuring!ToRaw(ParsedForm(c)))
<1> DEFINE raw == Configuring!ToRaw(c)
           new == Configuring!ToRaw(ParsedForm(c))
           u == raw.user_concurrency_schedule
           v == new.user_concurrency_schedule
           s == raw.accounts
           t == new.accounts
<1>1. /\ new.fixed_group_ids = raw.fixed_group_ids /\ new.reset_sync = raw.reset_sync
      /\ new.capacity_sync = raw.capacity_sync /\ new.prompt_audit = raw.prompt_audit
    BY DEF Configuring!ToRaw, ParsedForm
<1>2. /\ v.timezone = Trimmed[u.timezone] /\ v.peak_windows = u.peak_windows
      /\ v.exempt_user_ids = u.exempt_user_ids
      /\ v.peak_concurrency = u.peak_concurrency /\ v.idle_concurrency = u.idle_concurrency
      /\ v.peak_rpm = u.peak_rpm /\ v.idle_rpm = u.idle_rpm
      /\ u.timezone = c.userConcurrencySchedule.timezone
    BY DEF Configuring!ToRaw, ParsedForm, ParsedSchedule
<1>3. /\ s = [i \in DOMAIN c.accounts |-> Configuring!ToRawAccount(c.accounts[i])]
      /\ t = [i \in DOMAIN c.accounts |-> Configuring!ToRawAccount(ParsedAccount(c.accounts[i]))]
    BY DEF Configuring!ToRaw, ParsedForm
<1>4. Configuring!RawShape(raw) /\ Configuring!Claims(raw)
    BY DEF Configuring!RawConfig
<1> HIDE DEF raw, new, u, v, s, t
<1>5. u.timezone \in DOMAIN Trimmed /\ c.accounts \in Seq(Configuring!AccountForms)
    BY <1>2 DEF Configuring!Configurations, Configuring!ScheduleForms
<1>6. /\ DOMAIN t = DOMAIN s /\ DOMAIN t = DOMAIN c.accounts
      /\ t = [i \in DOMAIN s |-> t[i]] /\ s = [i \in DOMAIN s |-> s[i]]
    BY <1>3
<1>7. ASSUME NEW i \in DOMAIN t
      PROVE  /\ t[i].key = Trimmed[s[i].key] /\ Trimmed[t[i].key] = Trimmed[s[i].key]
             /\ t[i].email = Lower[s[i].email]
             /\ t[i].label = Trimmed[s[i].label] /\ Trimmed[t[i].label] = Trimmed[s[i].label]
             /\ t[i].share_count = s[i].share_count /\ t[i].reserve_mode = s[i].reserve_mode
             /\ t[i].reserve_value = s[i].reserve_value
             /\ t[i].target_group_ids = s[i].target_group_ids
             /\ Lower[t[i].email] = Lower[s[i].email]
             /\ s[i].email \in DOMAIN Lower
  <2> DEFINE a == c.accounts[i]
             p == s[i]
             q == t[i]
  <2>1. p = Configuring!ToRawAccount(a) /\ q = Configuring!ToRawAccount(ParsedAccount(a))
      BY <1>3, <1>6
  <2>2. a \in Configuring!AccountForms
      BY <1>5, <1>6
  <2> HIDE DEF a, p, q
  <2>3. a.key \in DOMAIN Trimmed /\ a.label \in DOMAIN Trimmed /\ a.email \in DOMAIN Lower
      BY <2>2 DEF Configuring!AccountForms
  <2>4. /\ Trimmed[Trimmed[a.key]] = Trimmed[a.key] /\ Trimmed[Trimmed[a.label]] = Trimmed[a.label]
        /\ Lower[Lower[a.email]] = Lower[a.email]
      BY <2>3 DEF Configuring!ConfigParameters
  <2>5. /\ p.key = a.key /\ p.email = a.email /\ p.label = a.label
        /\ q.key = Trimmed[a.key] /\ q.email = Lower[a.email] /\ q.label = Trimmed[a.label]
        /\ q.share_count = p.share_count /\ q.reserve_mode = p.reserve_mode
        /\ q.reserve_value = p.reserve_value /\ q.target_group_ids = p.target_group_ids
      BY <2>1 DEF Configuring!ToRawAccount, ParsedAccount
  <2> QED BY <2>3, <2>4, <2>5 DEF p, q
<1>8. Configuring!RawSchedule(v)
  <2>1. Configuring!RawSchedule(u)
      BY <1>4 DEF Configuring!RawShape, u
  <2>2. Trimmed[v.timezone] = Trimmed[u.timezone]
      BY <1>2, <1>5 DEF Configuring!ConfigParameters
  <2>3. Configuring!Within(v, [peak_concurrency |-> <<1, 100>>, idle_concurrency |-> <<1, 100>>,
                  peak_rpm |-> <<1, 10000>>, idle_rpm |-> <<1, 10000>>])
    <3>1. Configuring!Within(u, [peak_concurrency |-> <<1, 100>>, idle_concurrency |-> <<1, 100>>,
                  peak_rpm |-> <<1, 10000>>, idle_rpm |-> <<1, 10000>>])
        BY <2>1 DEF Configuring!RawSchedule
    <3> QED BY <1>2, <3>1 DEF Configuring!Within
  <2> QED BY <1>2, <2>1, <2>2, <2>3 DEF Configuring!RawSchedule
<1>9. ASSUME NEW i \in DOMAIN t PROVE Configuring!RawAccount(t[i])
  <2> DEFINE p == s[i]
             q == t[i]
  <2>1. Configuring!RawAccount(p)
      BY <1>4, <1>6 DEF Configuring!RawShape, s
  <2>2. /\ Trimmed[q.key] = Trimmed[p.key] /\ q.email = Lower[p.email]
        /\ Trimmed[q.label] = Trimmed[p.label] /\ q.share_count = p.share_count
        /\ q.reserve_mode = p.reserve_mode /\ q.reserve_value = p.reserve_value
        /\ q.target_group_ids = p.target_group_ids
      BY <1>7
  <2> HIDE DEF p, q
  <2>3. q.email \in Emails
      BY <2>1, <2>2 DEF Configuring!RawAccount, Configuring!ConfigParameters
  <2>4. Configuring!Within(q, [share_count |-> <<1, 100>>])
    <3>1. Configuring!Within(p, [share_count |-> <<1, 100>>])
        BY <2>1 DEF Configuring!RawAccount
    <3> QED BY <2>2, <3>1 DEF Configuring!Within
  <2>5. Configuring!RawAccount(q)
      BY <2>1, <2>2, <2>3, <2>4 DEF Configuring!RawAccount
  <2> QED BY <2>5 DEF q
<1>10. t # <<>>
  <2>1. s # <<>>
      BY <1>4 DEF Configuring!RawShape, s
  <2> QED BY <1>6, <2>1
<1>11. Configuring!RawShape(new)
  <2>1. /\ Configuring!RawSchedule(new.user_concurrency_schedule) /\ new.accounts # <<>>
        /\ \A i \in DOMAIN new.accounts : Configuring!RawAccount(new.accounts[i])
      BY <1>8, <1>9, <1>10 DEF t, v
  <2> QED BY <1>1, <1>4, <2>1 DEF Configuring!RawShape
<1>12. Configuring!Claims(new)
  <2>1. /\ raw.prompt_audit.risk_retention_days >= raw.prompt_audit.normal_retention_days
        /\ \A i, j \in DOMAIN s : i < j => /\ Trimmed[s[i].key] # Trimmed[s[j].key]
                                           /\ Lower[s[i].email] # Lower[s[j].email]
        /\ \A i \in DOMAIN s : \A g \in DOMAIN s[i].target_group_ids :
            /\ \A f \in DOMAIN raw.fixed_group_ids :
                  raw.fixed_group_ids[f] # s[i].target_group_ids[g]
            /\ ~ \E j \in DOMAIN s : \E h \in DOMAIN s[j].target_group_ids :
                  /\ j < i \/ (j = i /\ h < g)
                  /\ s[j].target_group_ids[h] = s[i].target_group_ids[g]
      BY <1>4 DEF Configuring!Claims, s
  <2>2. new.prompt_audit.risk_retention_days >= new.prompt_audit.normal_retention_days
      BY ONLY <1>1, <2>1
  <2>3. ASSUME NEW i \in DOMAIN t, NEW j \in DOMAIN t, i < j
        PROVE  Trimmed[t[i].key] # Trimmed[t[j].key] /\ Lower[t[i].email] # Lower[t[j].email]
    <3>1. i \in DOMAIN s /\ j \in DOMAIN s
        BY <1>6
    <3>2. Trimmed[s[i].key] # Trimmed[s[j].key] /\ Lower[s[i].email] # Lower[s[j].email]
        BY <2>1, <2>3, <3>1
    <3>3. /\ Trimmed[t[i].key] = Trimmed[s[i].key] /\ Lower[t[i].email] = Lower[s[i].email]
          /\ Trimmed[t[j].key] = Trimmed[s[j].key] /\ Lower[t[j].email] = Lower[s[j].email]
        BY <1>7
    <3> QED BY ONLY <3>2, <3>3
  <2>4. \A i \in DOMAIN t : t[i].target_group_ids = s[i].target_group_ids
      BY <1>7
  <2>5. ASSUME NEW i \in DOMAIN t, NEW g \in DOMAIN t[i].target_group_ids
        PROVE  /\ \A f \in DOMAIN new.fixed_group_ids :
                     new.fixed_group_ids[f] # t[i].target_group_ids[g]
               /\ ~ \E j \in DOMAIN t : \E h \in DOMAIN t[j].target_group_ids :
                     /\ j < i \/ (j = i /\ h < g)
                     /\ t[j].target_group_ids[h] = t[i].target_group_ids[g]
    <3>1. i \in DOMAIN s /\ g \in DOMAIN s[i].target_group_ids
        BY <1>6, <2>4
    <3>2. \A f \in DOMAIN new.fixed_group_ids :
              new.fixed_group_ids[f] # t[i].target_group_ids[g]
        BY <1>1, <2>1, <2>4, <3>1
    <3>3. ASSUME NEW j \in DOMAIN t, NEW h \in DOMAIN t[j].target_group_ids,
                 j < i \/ (j = i /\ h < g)
          PROVE  t[j].target_group_ids[h] # t[i].target_group_ids[g]
      <4>1. j \in DOMAIN s /\ h \in DOMAIN s[j].target_group_ids
          BY <1>6, <2>4
      <4>2. s[j].target_group_ids[h] # s[i].target_group_ids[g]
          BY <2>1, <3>1, <3>3, <4>1
      <4> QED BY <2>4, <4>2
    <3> QED BY <3>2, <3>3
  <2> QED BY <2>2, <2>3, <2>5 DEF Configuring!Claims, t
<1> QED BY <1>11, <1>12 DEF Configuring!RawConfig, new

\* The file holds a form, and the process what the file parses to.
ConfigInv ==
    \E c \in Configuring!Configurations :
        /\ file = Configuring!ToRaw(c)
        /\ config # Nothing => config = ParsedForm(c) /\ Configuring!RawConfig(file)

LEMMA ConfigInvariant ==
    ASSUME Configuring!ConfigParameters
    PROVE  Configuring!Spec => []ConfigInv
<1>1. Configuring!Init => ConfigInv
    BY DEF Configuring!Init, ConfigInv, Configuring!ConfigParameters
<1>2. ConfigInv /\ [Configuring!Next]_Configuring!vars => ConfigInv'
  <2> SUFFICES ASSUME ConfigInv, [Configuring!Next]_Configuring!vars PROVE ConfigInv'
      OBVIOUS
  <2>1. PICK c \in Configuring!Configurations :
          /\ file = Configuring!ToRaw(c)
          /\ config # Nothing => config = ParsedForm(c) /\ Configuring!RawConfig(file)
      BY DEF ConfigInv
  <2>2. CASE Configuring!Start
    <3>1. file' = file /\ Configuring!RawConfig(file)
          /\ config' = Configuring!FromRaw(Configuring!Parsed(file))
        BY <2>2 DEF Configuring!Start
    <3>2. config' = ParsedForm(c)
        BY <2>1, <3>1, ParsesForm DEF Configuring!ParseService
    <3>3. file' = Configuring!ToRaw(c) /\ Configuring!RawConfig(file')
        BY <2>1, <3>1
    <3> QED BY <3>2, <3>3 DEF ConfigInv
  <2>3. CASE Configuring!Stop
      BY <2>1, <2>3 DEF Configuring!Stop, ConfigInv
  <2>4. CASE Configuring!PutConfig
    <3>1. PICK d \in Configuring!AcceptedForms :
            /\ Configuring!RawConfig(Configuring!ToRaw(Configuring!ParseService(d)))
            /\ file' = Configuring!Parsed(Configuring!ToRaw(Configuring!ParseService(d)))
            /\ config' = Configuring!ParseService(d)
        BY <2>4 DEF Configuring!PutConfig
    <3>2. d \in Configuring!Configurations
        BY <3>1 DEF Configuring!AcceptedForms, Configuring!ConfigParameters
    <3> DEFINE new == ParsedForm(d)
    <3>3. /\ new \in Configuring!Configurations /\ ParsedForm(new) = new
          /\ Configuring!ParseService(d) = new
          /\ Configuring!Parsed(Configuring!ToRaw(new)) = Configuring!ToRaw(new)
        BY <3>2, ParsesForm, ParsesOnce, WrittenAsKept
    <3> HIDE DEF new
    <3>4. /\ file' = Configuring!ToRaw(new) /\ config' = ParsedForm(new)
          /\ Configuring!RawConfig(file')
        BY <3>1, <3>3
    <3> QED BY <3>3, <3>4 DEF ConfigInv
  <2>5. CASE UNCHANGED Configuring!vars
      BY <2>1, <2>5 DEF Configuring!vars, ConfigInv
  <2> QED BY <2>2, <2>3, <2>4, <2>5 DEF Configuring!Next
<1> QED BY <1>1, <1>2, PTL DEF Configuring!Spec

\* The configuration in use is a parsed form that the file's schema accepts.
LEMMA InUse ==
    ASSUME Configuring!ConfigParameters, ConfigInv, config # Nothing
    PROVE  /\ config \in Configuring!Configurations /\ ParsedForm(config) = config
           /\ Configuring!RawConfig(Configuring!ToRaw(config))
           /\ Configuring!RawConfig(file)
           /\ Configuring!FromRaw(Configuring!Parsed(file)) = config
<1>1. PICK c \in Configuring!Configurations :
        file = Configuring!ToRaw(c) /\ config = ParsedForm(c) /\ Configuring!RawConfig(file)
    BY DEF ConfigInv
<1>2. Configuring!RawConfig(Configuring!ToRaw(config))
    BY <1>1, StaysAccepted
<1>3. config \in Configuring!Configurations /\ ParsedForm(config) = config
    BY <1>1, ParsesOnce
<1>4. Configuring!FromRaw(Configuring!Parsed(file)) = config
    BY <1>1, ParsesForm DEF Configuring!ParseService
<1> QED BY <1>1, <1>2, <1>3, <1>4

\* What the settings page put is what the next start reads: the process does not
\* refuse a file that it wrote itself, nor read another configuration from it
\* than the one it ran with.
THEOREM ConfigReloads ==
    ASSUME Configuring!ConfigParameters
    PROVE  Configuring!Spec => []Configuring!Reloads
<1>1. ConfigInv => Configuring!Reloads
    BY InUse DEF Configuring!Reloads
<1> QED BY <1>1, ConfigInvariant, PTL

\* The configuration in use, put back unchanged, is accepted and stays what it
\* is: the schema of the page refuses nothing that the schema of the file
\* accepts, and the two mappings between them lose nothing.
THEOREM PutsBack ==
    ASSUME Configuring!ConfigParameters
    PROVE  Configuring!Spec => []Configuring!PutBackIsNeutral
<1>1. ConfigInv => Configuring!PutBackIsNeutral
  <2> SUFFICES ASSUME ConfigInv, config # Nothing
               PROVE  Configuring!Accepted(config) /\ Configuring!ParseService(config) = config
      BY DEF Configuring!PutBackIsNeutral
  <2>1. /\ config \in Configuring!Configurations /\ ParsedForm(config) = config
        /\ Configuring!RawConfig(Configuring!ToRaw(config))
      BY InUse
  <2>2. Configuring!ParseService(config) = config
      BY <2>1, ParsesForm
  <2> QED BY <2>1, <2>2, PageTakesWhatFileTakes DEF Configuring!Accepted
<1> QED BY <1>1, ConfigInvariant, PTL

\* What the accounts and the windows of a configuration in use satisfy.
LEMMA AccountsInUse ==
    ASSUME Configuring!ConfigParameters, ConfigInv, config # Nothing
    PROVE  LET a == config.accounts IN
           /\ a \in Seq(Configuring!AccountForms) /\ a # <<>>
           /\ \A i \in DOMAIN a : a[i].email \in Emails /\ Trimmed[a[i].key] = a[i].key
           /\ \A i, j \in DOMAIN a : i < j => /\ Trimmed[a[i].key] # Trimmed[a[j].key]
                                              /\ Lower[a[i].email] # Lower[a[j].email]
           /\ \A i \in DOMAIN a : \A g \in DOMAIN a[i].targetGroupIds :
                /\ \A f \in DOMAIN config.fixedGroupIds :
                      config.fixedGroupIds[f] # a[i].targetGroupIds[g]
                /\ \A j \in DOMAIN a : \A h \in DOMAIN a[j].targetGroupIds :
                      (j < i \/ (j = i /\ h < g)) =>
                          a[j].targetGroupIds[h] # a[i].targetGroupIds[g]
<1> DEFINE a == config.accounts
           raw == Configuring!ToRaw(config)
           s == raw.accounts
<1>1. /\ config \in Configuring!Configurations /\ ParsedForm(config) = config
      /\ Configuring!RawConfig(raw)
    BY InUse
<1>2. /\ s = [i \in DOMAIN a |-> Configuring!ToRawAccount(a[i])]
      /\ raw.fixed_group_ids = config.fixedGroupIds
    BY DEF Configuring!ToRaw
<1>3. a = [i \in DOMAIN a |-> ParsedAccount(config.accounts[i])] /\ a \in Seq(Configuring!AccountForms)
    BY <1>1 DEF ParsedForm, Configuring!Configurations
<1> HIDE DEF a, s, raw
<1>4. DOMAIN s = DOMAIN a
    BY <1>2
<1>5. ASSUME NEW i \in DOMAIN a
      PROVE  /\ s[i].key = a[i].key /\ s[i].email = a[i].email
             /\ s[i].target_group_ids = a[i].targetGroupIds
             /\ Trimmed[a[i].key] = a[i].key
  <2>1. s[i] = Configuring!ToRawAccount(a[i])
      BY <1>2
  <2>2. a[i] \in Configuring!AccountForms /\ a[i] = ParsedAccount(a[i])
      BY <1>3 DEF a
  <2>3. a[i].key \in DOMAIN Trimmed /\ a[i].key = Trimmed[a[i].key]
      BY <2>2 DEF Configuring!AccountForms, ParsedAccount
  <2> QED BY <2>1, <2>3 DEF Configuring!ToRawAccount
<1>6. /\ s # <<>> /\ \A i \in DOMAIN s : Configuring!RawAccount(s[i])
    BY <1>1 DEF Configuring!RawConfig, Configuring!RawShape, s
<1>7. a # <<>> /\ \A i \in DOMAIN a : a[i].email \in Emails
    BY <1>2, <1>4, <1>5, <1>6 DEF Configuring!RawAccount
<1>8. /\ \A i, j \in DOMAIN s : i < j => /\ Trimmed[s[i].key] # Trimmed[s[j].key]
                                         /\ Lower[s[i].email] # Lower[s[j].email]
      /\ \A i \in DOMAIN s : \A g \in DOMAIN s[i].target_group_ids :
            /\ \A f \in DOMAIN raw.fixed_group_ids :
                  raw.fixed_group_ids[f] # s[i].target_group_ids[g]
            /\ ~ \E j \in DOMAIN s : \E h \in DOMAIN s[j].target_group_ids :
                  /\ j < i \/ (j = i /\ h < g)
                  /\ s[j].target_group_ids[h] = s[i].target_group_ids[g]
    BY <1>1 DEF Configuring!RawConfig, Configuring!Claims, s
<1>9. ASSUME NEW i \in DOMAIN a, NEW j \in DOMAIN a, i < j
      PROVE  Trimmed[a[i].key] # Trimmed[a[j].key] /\ Lower[a[i].email] # Lower[a[j].email]
  <2>1. Trimmed[s[i].key] # Trimmed[s[j].key] /\ Lower[s[i].email] # Lower[s[j].email]
      BY <1>4, <1>8, <1>9
  <2> QED BY <1>5, <2>1
<1>10. ASSUME NEW i \in DOMAIN a, NEW g \in DOMAIN a[i].targetGroupIds
       PROVE  /\ \A f \in DOMAIN config.fixedGroupIds :
                    config.fixedGroupIds[f] # a[i].targetGroupIds[g]
              /\ \A j \in DOMAIN a : \A h \in DOMAIN a[j].targetGroupIds :
                    (j < i \/ (j = i /\ h < g)) =>
                        a[j].targetGroupIds[h] # a[i].targetGroupIds[g]
  <2>1. i \in DOMAIN s /\ g \in DOMAIN s[i].target_group_ids
      BY <1>4, <1>5
  <2>2. \A f \in DOMAIN config.fixedGroupIds :
            config.fixedGroupIds[f] # a[i].targetGroupIds[g]
      BY <1>2, <1>5, <1>8, <2>1
  <2>3. ASSUME NEW j \in DOMAIN a, NEW h \in DOMAIN a[j].targetGroupIds,
               j < i \/ (j = i /\ h < g)
        PROVE  a[j].targetGroupIds[h] # a[i].targetGroupIds[g]
    <3>1. j \in DOMAIN s /\ h \in DOMAIN s[j].target_group_ids
        BY <1>4, <1>5
    <3>2. s[j].target_group_ids[h] # s[i].target_group_ids[g]
        BY <1>8, <2>1, <2>3, <3>1
    <3> QED BY <1>5, <3>2
  <2> QED BY <2>2, <2>3
<1> QED BY <1>3, <1>5, <1>7, <1>9, <1>10 DEF a

\* An account is managed once: no two entries of a configuration in use are the
\* same account upstream or share an entry of the state file.
THEOREM OneEntry ==
    ASSUME Configuring!ConfigParameters
    PROVE  Configuring!Spec => [](Configuring!TypeOK /\ Configuring!OneEntryPerAccount)
<1>1. ConfigInv => Configuring!TypeOK
  <2> SUFFICES ASSUME ConfigInv, config # Nothing
               PROVE  /\ DOMAIN config = {"fixedGroupIds", "resetSync", "capacitySync",
                            "promptAudit", "userConcurrencySchedule", "accounts"}
                      /\ Len(config.accounts) >= 1
                      /\ \A i \in DOMAIN config.accounts : config.accounts[i].email \in Emails
      BY DEF Configuring!TypeOK
  <2>1. config.accounts \in Seq(Configuring!AccountForms) /\ config.accounts # <<>>
        /\ \A i \in DOMAIN config.accounts : config.accounts[i].email \in Emails
      BY AccountsInUse
  <2>2. config \in Configuring!Configurations
      BY InUse
  <2>3. DOMAIN config = {"fixedGroupIds", "resetSync", "capacitySync",
                         "promptAudit", "userConcurrencySchedule", "accounts"}
      BY <2>2 DEF Configuring!Configurations
  <2> QED BY <2>1, <2>3
<1>2. ConfigInv => Configuring!OneEntryPerAccount
  <2> SUFFICES ASSUME ConfigInv, config # Nothing,
                      NEW i \in DOMAIN config.accounts, NEW j \in DOMAIN config.accounts, i # j
               PROVE  /\ Lower[config.accounts[i].email] # Lower[config.accounts[j].email]
                      /\ config.accounts[i].key # config.accounts[j].key
      BY DEF Configuring!OneEntryPerAccount
  <2> DEFINE a == config.accounts
  <2>1. /\ a \in Seq(Configuring!AccountForms)
        /\ \A k \in DOMAIN a : Trimmed[a[k].key] = a[k].key
        /\ \A k, l \in DOMAIN a : k < l => /\ Trimmed[a[k].key] # Trimmed[a[l].key]
                                           /\ Lower[a[k].email] # Lower[a[l].email]
      BY AccountsInUse
  <2> HIDE DEF a
  <2>2. i \in DOMAIN a /\ j \in DOMAIN a
      BY DEF a
  <2>3. i < j \/ j < i
      BY <2>1, <2>2
  <2>4. Lower[a[i].email] # Lower[a[j].email] /\ a[i].key # a[j].key
      BY <2>1, <2>2, <2>3
  <2> QED BY <2>4 DEF a
<1> QED BY <1>1, <1>2, ConfigInvariant, PTL

\* A group has one owner: it is in the list of one account, once, or it is fixed.
THEOREM GroupsOwned ==
    ASSUME Configuring!ConfigParameters
    PROVE  Configuring!Spec => []Configuring!OneOwner
<1>1. ASSUME ConfigInv, config # Nothing PROVE Configuring!OneOwner
  <2> DEFINE a == config.accounts
             claims == UNION {{i} \X DOMAIN a[i].targetGroupIds : i \in DOMAIN a}
             Group(p) == a[p[1]].targetGroupIds[p[2]]
             owned == {Group(p) : p \in claims}
             owner == [p \in claims |-> Group(p)]
  <2>1. /\ a \in Seq(Configuring!AccountForms)
        /\ \A i \in DOMAIN a : \A g \in DOMAIN a[i].targetGroupIds :
             /\ \A f \in DOMAIN config.fixedGroupIds :
                   config.fixedGroupIds[f] # a[i].targetGroupIds[g]
             /\ \A j \in DOMAIN a : \A h \in DOMAIN a[j].targetGroupIds :
                   (j < i \/ (j = i /\ h < g)) =>
                       a[j].targetGroupIds[h] # a[i].targetGroupIds[g]
      BY <1>1, AccountsInUse
  <2> HIDE DEF a
  <2>2. DOMAIN a \subseteq Nat /\ DOMAIN a = 1..Len(a) /\ Len(a) \in Nat
      BY <2>1
  <2>3. ASSUME NEW i \in DOMAIN a
        PROVE  /\ DOMAIN a[i].targetGroupIds = 1..Len(a[i].targetGroupIds)
               /\ Len(a[i].targetGroupIds) \in Nat
      BY <2>1 DEF Configuring!AccountForms
  <2>4. \A p \in claims : /\ p[1] \in DOMAIN a /\ p[2] \in DOMAIN a[p[1]].targetGroupIds
                          /\ p = <<p[1], p[2]>>
      OBVIOUS
  <2>5. IsFiniteSet(claims)
    <3>1. ASSUME NEW i \in DOMAIN a PROVE IsFiniteSet({i} \X DOMAIN a[i].targetGroupIds)
      <4>1. IsFiniteSet(DOMAIN a[i].targetGroupIds)
          BY <2>3, FS_Interval
      <4> QED BY <4>1, FS_Singleton, FS_Product
    <3>2. IsFiniteSet({{i} \X DOMAIN a[i].targetGroupIds : i \in DOMAIN a})
      <4> DEFINE Row(i) == {i} \X DOMAIN a[i].targetGroupIds
      <4>1. IsFiniteSet(DOMAIN a)
          BY <2>2, FS_Interval
      <4> DEFINE f == [i \in DOMAIN a |-> Row(i)]
                 T == {Row(i) : i \in DOMAIN a}
      <4>2. f \in Surjection(DOMAIN a, T)
          BY DEF Surjection
      <4> HIDE DEF f, T
      <4>3. IsFiniteSet(T)
          BY <4>1, <4>2, FS_Surjection
      <4> QED BY <4>3 DEF T
    <3> QED BY <3>1, <3>2, FS_UNION
  <2>6. ASSUME NEW p \in claims, NEW q \in claims, Group(p) = Group(q) PROVE p = q
    <3>1. /\ p[1] \in DOMAIN a /\ q[1] \in DOMAIN a
          /\ p[2] \in DOMAIN a[p[1]].targetGroupIds /\ q[2] \in DOMAIN a[q[1]].targetGroupIds
          /\ p = <<p[1], p[2]>> /\ q = <<q[1], q[2]>>
        BY <2>4
    <3> HIDE DEF claims
    <3>2. p[1] \in Nat /\ q[1] \in Nat
        BY <2>2, <3>1
    <3>3. p[2] \in Nat /\ q[2] \in Nat
        BY <2>3, <3>1
    <3>4. ~(p[1] < q[1]) /\ ~(p[1] = q[1] /\ p[2] < q[2])
        BY <2>1, <2>6, <3>1
    <3>5. ~(q[1] < p[1]) /\ ~(q[1] = p[1] /\ q[2] < p[2])
        BY <2>1, <2>6, <3>1
    <3>6. p[1] = q[1] /\ p[2] = q[2]
        BY ONLY <3>2, <3>3, <3>4, <3>5
    <3> QED BY ONLY <3>1, <3>6
  <2> HIDE DEF claims
  <2>7. owner \in Surjection(claims, owned)
      BY DEF Surjection
  <2>8. owner \in Injection(claims, owned)
    <3>1. owner \in [claims -> owned] /\ \A p \in claims : owner[p] = Group(p)
        OBVIOUS
    <3> HIDE DEF owner, owned
    <3>2. \A p, q \in claims : owner[p] = owner[q] => p = q
        BY <2>6, <3>1
    <3> QED BY <3>1, <3>2 DEF Injection, IsInjective
  <2> HIDE DEF owner, owned
  <2>9. Cardinality(owned) = Cardinality(claims)
      BY <2>5, <2>7, <2>8, FS_Surjection
  <2>10. \A f \in DOMAIN config.fixedGroupIds : config.fixedGroupIds[f] \notin owned
      BY <2>1, <2>4 DEF owned
  <2>11. \A S : Configuring!Cardinality(S) = Cardinality(S)
      BY DEF Cardinality, Configuring!Cardinality
  <2> QED BY <2>9, <2>10, <2>11 DEF Configuring!OneOwner, owned, claims, a
<1>2. config = Nothing => Configuring!OneOwner
    BY DEF Configuring!OneOwner
<1>3. ConfigInv => Configuring!OneOwner
    BY <1>1, <1>2
<1> QED BY <1>3, ConfigInvariant, PTL

\* A minute at which a peak window begins is in that window and in no other, so
\* that the schedule of the users' limits never has two answers.
THEOREM WindowsApart ==
    ASSUME Configuring!ConfigParameters
    PROVE  Configuring!Spec => []Configuring!OneWindow
<1>1. ASSUME ConfigInv, config # Nothing PROVE Configuring!OneWindow
  <2> DEFINE w == config.userConcurrencySchedule.peakWindows
             From(i) == 60 * w[i].start[1] + w[i].start[2]
             To(i) == 60 * w[i].end[1] + w[i].end[2]
  <2>1. /\ config \in Configuring!Configurations
        /\ Configuring!RawConfig(Configuring!ToRaw(config))
      BY <1>1, InUse
  <2>2. w \in Seq([start : Configuring!TimesOfDay, end : Configuring!TimesOfDay])
      BY <2>1 DEF Configuring!Configurations, Configuring!ScheduleForms
  <2>3. Configuring!PeakWindows(w)
    <3>1. Configuring!ToRaw(config).user_concurrency_schedule.peak_windows = w
        BY DEF Configuring!ToRaw
    <3>2. Configuring!RawSchedule(Configuring!ToRaw(config).user_concurrency_schedule)
        BY <2>1 DEF Configuring!RawConfig, Configuring!RawShape
    <3> QED BY <3>1, <3>2 DEF Configuring!RawSchedule
  <2> HIDE DEF w
  <2>4. ASSUME NEW i \in DOMAIN w PROVE From(i) \in Int /\ To(i) \in Int
    <3>1. w[i] \in [start : Configuring!TimesOfDay, end : Configuring!TimesOfDay]
      <4> DEFINE W == [start : Configuring!TimesOfDay, end : Configuring!TimesOfDay]
      <4>1. w \in Seq(W)
          BY <2>2
      <4> HIDE DEF W
      <4>2. w[i] \in W
          BY <4>1
      <4> QED BY <4>2 DEF W
    <3>2. w[i].start \in Int \X Int /\ w[i].end \in Int \X Int
        BY <3>1 DEF Configuring!TimesOfDay
    <3> QED BY <3>2
  <2>5. /\ \A i \in DOMAIN w : From(i) < To(i)
        /\ \A i, j \in DOMAIN w : i < j => ~(From(i) < To(j) /\ From(j) < To(i))
      BY <2>3 DEF Configuring!PeakWindows, Configuring!ToMinutes
  <2> DEFINE Holding(m) == {i \in DOMAIN w : Configuring!Inside(m, w[i])}
  <2>6. ASSUME NEW i \in DOMAIN w PROVE Holding(From(i)) = {i}
    <3>1. \A j \in DOMAIN w : Configuring!Inside(From(i), w[j])
                                <=> From(j) <= From(i) /\ From(i) < To(j)
        BY DEF Configuring!Inside
    <3> HIDE DEF From, To
    <3>2. i \in Holding(From(i))
        BY <2>4, <2>5, <3>1
    <3>3. ASSUME NEW j \in DOMAIN w, j # i PROVE j \notin Holding(From(i))
      <4>1. i \in Nat /\ j \in Nat /\ (i < j \/ j < i)
          BY <2>2, <3>3
      <4>2. ~(From(i) < To(j) /\ From(j) < To(i))
          BY <2>5, <4>1
      <4>3. From(i) < To(i) /\ From(i) \in Int /\ From(j) \in Int /\ To(i) \in Int /\ To(j) \in Int
          BY <2>4, <2>5
      <4>4. ~(From(j) <= From(i) /\ From(i) < To(j))
          BY ONLY <4>2, <4>3
      <4> QED BY <3>1, <4>4
    <3> QED BY <3>2, <3>3
  <2>7. \A i \in DOMAIN w : Cardinality(Holding(From(i))) = 1
      BY <2>6, FS_Singleton
  <2>8. \A S : Configuring!Cardinality(S) = Cardinality(S)
      BY DEF Cardinality, Configuring!Cardinality
  <2>9. \A m \in {From(i) : i \in DOMAIN w} : Configuring!Cardinality(Holding(m)) = 1
      BY <2>7, <2>8
  <2> QED BY <2>9 DEF Configuring!OneWindow, w
<1>2. config = Nothing => Configuring!OneWindow
    BY DEF Configuring!OneWindow
<1>3. ConfigInv => Configuring!OneWindow
    BY <1>1, <1>2
<1> QED BY <1>3, ConfigInvariant, PTL
=============================================================================
