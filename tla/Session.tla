-------------------------------- MODULE Session --------------------------------
(***************************************************************************)
(* The administrator's session (server/auth.ts, its routes and the page's    *)
(* App, LoginPage, api and oauth): an encrypted cookie that the browser      *)
(* keeps, with a pair of tokens of Sub2API that every protected request      *)
(* checks, and refreshes, upstream.  One browser with several requests       *)
(* under way; answers arrive in any order, and each may carry the cookie.    *)
(*                                                                          *)
(* A pair is a number.  Upstream a refresh token is spent by its use, which  *)
(* is why the code stores the one of the answer.  Left out: rate limits,     *)
(* Turnstile, and the twelve hours after which the cookie expires by itself. *)
(***************************************************************************)
EXTENDS Naturals, FiniteSetsExt

CONSTANTS
    Requests,               \* slots for the browser's requests
    Offers,                 \* what may come with the pair of a login
    MaxPairs, MaxFaults     \* bounds


VARIABLES
    access, refresh,    \* access and refresh tokens that are valid upstream
    due,                \* pairs whose access token expires within 30 seconds
    given,              \* what came with a pair: a refresh token, an expiry
    members,            \* pairs of accounts that are no administrators
    admin,              \* is the administrator's account still one, and active
    cookie,             \* the pair in the browser's cookie, NoPair without one
    tab, stale,         \* what the page shows; did its last poll fail
    fragment,           \* tokens or error in the address after OAuth
    req,                \* the requests; turned: was one turned away with 401 or 403
                        \* by an answer that says nothing of its pair
    ended,              \* pair whose session was logged out last
    faults

upstreamVars == <<access, refresh, due, given, members>>
pageVars == <<tab, stale, fragment>>
vars == <<upstreamVars, admin, cookie, pageVars, req, ended, faults>>

NoPair == 0
Pairs == 1..MaxPairs
Parts == {"refresh", "expiry"}

SessionParameters ==
    /\ Requests # {} /\ Offers # {} /\ Offers \subseteq SUBSET Parts
    /\ MaxPairs \in Nat \ {0} /\ MaxFaults \in Nat

Idle == [stage |-> "idle", kind |-> "none", auth |-> NoPair, change |-> "none", status |-> 0,
         turned |-> FALSE]
Stages == {"idle", "sent", "refresh", "check", "refreshAgain", "checkAgain", "handler",
           "event", "reply"}
Logins == {"password", "totp", "oauth"}
Kinds == {"none", "bootstrap", "poll", "logout"} \cup Logins

TypeOK ==
    /\ access \subseteq Pairs /\ refresh \subseteq Pairs /\ due \subseteq access
    /\ given \in [Pairs -> SUBSET Parts] /\ members \subseteq Pairs /\ admin \in BOOLEAN
    /\ cookie \in Pairs \cup {NoPair} /\ ended \in Pairs \cup {NoPair}
    /\ tab \in {"loading", "login", "unavailable", "challenge", "console"} /\ stale \in BOOLEAN
    /\ fragment \in {"none", "tokens", "error"} /\ faults \in 0..MaxFaults
    /\ req \in [Requests -> [stage : Stages, kind : Kinds, auth : Pairs \cup {NoPair},
                             change : {"none", "set", "deleted", "challenge"},
                             status : {0, 200, 400, 401, 403, 500, 502, 503},
                             turned : BOOLEAN]]
    /\ \A r \in Requests : req[r].kind \in Logins \/ req[r].status \in {0, 200, 401, 403, 503}

Init ==
    /\ access = {} /\ refresh = {} /\ due = {} /\ members = {} /\ admin = TRUE
    /\ given = [p \in Pairs |-> {}]
    /\ cookie = NoPair /\ ended = NoPair
    /\ tab = "loading" /\ stale = FALSE /\ fragment = "none"
    /\ req = [r \in Requests |-> Idle] /\ faults = 0

----------------------------------------------------------------------------
(* Sub2API, as the client sees it. *)

\* Answers of a Sub2API in trouble, or of something in front of it: none at all,
\* JSON that is no envelope; a page or an envelope with an error code, each with
\* any status of HTTP.
Troubles == {[status |-> 0, body |-> "none"], [status |-> 200, body |-> "other"]}
            \cup [status : {200, 401, 403, 503}, body : {"page", "error"}]
\* The status of the Sub2ApiError that an answer becomes.
ErrorStatus(answer) ==
    IF answer.body \in {"none", "other"} THEN 502 ELSE answer.status
\* The status an error has for the page (errorResponse).
Clamped(status) == IF status < 400 THEN 400 ELSE status

\* A new pair for an account.  Pairs that nothing holds any more are forgotten
\* and their numbers used again.
Held == {cookie, ended} \cup {req[r].auth : r \in Requests}
Fresh == Pairs \ Held
Issue(p, parts, member) ==
    /\ p = Min(Fresh)
    /\ access' = (access \cap Held) \cup {p}
    /\ due' = due \cap Held
    /\ given' = [q \in Pairs |-> IF q = p THEN parts ELSE IF q \in Held THEN given[q] ELSE {}]
    /\ members' = (members \cap Held) \cup (IF member THEN {p} ELSE {})

\* Time passes for an access token; a refresh token lapses; the account is
\* disabled or loses its role.
Age(p) ==
    /\ p \in access \cap Held
    /\ IF p \in due THEN access' = access \ {p} /\ due' = due \ {p}
                    ELSE due' = due \cup {p} /\ UNCHANGED access
    /\ UNCHANGED <<refresh, given, members, admin, cookie, pageVars, req, ended, faults>>
Lapse(p) ==
    /\ p \in refresh \cap Held
    /\ refresh' = refresh \ {p}
    /\ UNCHANGED <<access, due, given, members, admin, cookie, pageVars, req, ended, faults>>
Revoke ==
    /\ admin /\ admin' = FALSE
    /\ UNCHANGED <<upstreamVars, cookie, pageVars, req, ended, faults>>

----------------------------------------------------------------------------
(* The server. *)

Expires(p) == "expiry" \in given[p] /\ p \in due \cup (Pairs \ access)
Renewable(p) == "refresh" \in given[p]

\* requireAdmin: what an error of validate becomes.
Denied(r, status) ==
    IF status \in {401, 403}
    THEN [req[r] EXCEPT !.stage = "reply", !.status = status, !.change = "deleted"]
    ELSE [req[r] EXCEPT !.stage = "reply", !.status = 503]

\* validate: an access token that is refused is refreshed, once.
Failed(r, status) ==
    IF status = 401 /\ req[r].stage = "check" /\ Renewable(req[r].auth)
    THEN [req[r] EXCEPT !.stage = "refreshAgain"] ELSE Denied(r, status)

\* validate, to its first call.
Arrive(r) ==
    /\ req[r].stage = "sent" /\ req[r].kind \notin Logins
    /\ req' = [req EXCEPT ![r] =
            IF req[r].auth = NoPair THEN Denied(r, 401)
            ELSE IF ~Expires(req[r].auth) THEN [@ EXCEPT !.stage = "check"]
            ELSE IF Renewable(req[r].auth) THEN [@ EXCEPT !.stage = "refresh"]
            ELSE Denied(r, 401)]
    /\ UNCHANGED <<upstreamVars, admin, cookie, pageVars, ended, faults>>

Trouble(r) ==
    /\ faults < MaxFaults /\ faults' = faults + 1
    /\ \E answer \in Troubles :
          req' = [req EXCEPT ![r] = [Failed(r, ErrorStatus(answer)) EXCEPT
                                        !.turned = @ \/ ErrorStatus(answer) \in {401, 403}]]

\* currentUser, before or after a refresh.
Check(r) ==
    LET p == req[r].auth
    IN  /\ req[r].stage \in {"check", "checkAgain"}
        /\ \/ /\ p \in access /\ admin /\ p \notin members
              /\ req' = [req EXCEPT ![r].change = "set", ![r].stage = "handler"]
              /\ UNCHANGED faults
           \/ /\ p \in access /\ ~(admin /\ p \notin members)
              /\ req' = [req EXCEPT ![r] = Denied(r, 403)]
              /\ UNCHANGED faults
           \/ /\ p \notin access
              /\ req' = [req EXCEPT ![r] = Failed(r, 401)]
              /\ UNCHANGED faults
           \/ Trouble(r)
        /\ UNCHANGED <<upstreamVars, admin, cookie, pageVars, ended>>

\* refresh stores the new pair in the session at once.
Refreshed(r, p) ==
    [req[r] EXCEPT !.auth = p, !.change = "set",
                   !.stage = IF @ = "refresh" THEN "check" ELSE "checkAgain"]

\* A refresh spends the token, also when its answer is lost.
Refresh(r) ==
    LET p == req[r].auth
    IN  /\ req[r].stage \in {"refresh", "refreshAgain"}
        /\ \/ /\ p \in refresh
              /\ \E q \in Fresh :
                    /\ Issue(q, Parts, p \in members)
                    /\ refresh' = ((refresh \cap Held) \ {p}) \cup {q}
                    /\ \/ req' = [req EXCEPT ![r] = Refreshed(r, q)] /\ UNCHANGED faults
                       \/ Trouble(r)
           \/ /\ p \notin refresh \/ ~admin
              /\ req' = [req EXCEPT ![r] = Denied(r, 401)]
              /\ UNCHANGED <<upstreamVars, faults>>
           \/ Trouble(r) /\ UNCHANGED upstreamVars
        /\ UNCHANGED <<admin, cookie, pageVars, ended>>

\* Mutant: the token of the cookie is revoked, not that of the session as it is now.
RevokesSent(r) == IF req[r].auth = cookie THEN {cookie} ELSE {}

\* The refresh token that logout revokes.
Revoked(r) == {req[r].auth}

\* The handler behind requireAdmin: reads answer at once, logout ends the session.
Handle(r) ==
    /\ req[r].stage = "handler"
    /\ IF req[r].kind # "logout"
       THEN /\ req' = [req EXCEPT ![r].stage = "reply", ![r].status = 200]
            /\ UNCHANGED <<refresh, ended, faults>>
       ELSE /\ req' = [req EXCEPT ![r].stage = "reply", ![r].status = 200, ![r].change = "deleted"]
            /\ \/ /\ refresh' = refresh \ Revoked(r) /\ ended' = req[r].auth
                  /\ UNCHANGED faults
               \/ /\ faults < MaxFaults /\ faults' = faults + 1
                  /\ ended' = NoPair /\ UNCHANGED refresh
    /\ UNCHANGED <<access, due, given, members, admin, cookie, pageVars>>

\* toAdminUser
IsAdmin(member) == admin /\ ~member

Refused(r, status) == req' = [req EXCEPT ![r].stage = "reply", ![r].status = status]

\* login, login2fa, loginOAuth: an administrator's pair becomes the session,
\* and then an event is stored, which may fail.
LogIn(r) ==
    /\ req[r].stage = "sent" /\ req[r].kind \in Logins
    /\ \/ \E p \in Fresh, parts \in Offers, member \in BOOLEAN :
            /\ Issue(p, parts, member)
            /\ refresh' = (refresh \cap Held) \cup (IF "refresh" \in parts THEN {p} ELSE {})
            /\ IF IsAdmin(member)
               THEN req' = [req EXCEPT ![r].stage = "event", ![r].auth = p, ![r].change = "set"]
               ELSE Refused(r, 403)
            /\ UNCHANGED faults
       \/ /\ req[r].kind = "password"
          /\ req' = [req EXCEPT ![r].stage = "reply", ![r].status = 200, ![r].change = "challenge"]
          /\ UNCHANGED <<upstreamVars, faults>>
       \/ Refused(r, 401) /\ UNCHANGED <<upstreamVars, faults>>
       \/ /\ faults < MaxFaults /\ faults' = faults + 1
          /\ \E answer \in Troubles : Refused(r, Clamped(ErrorStatus(answer)))
          /\ UNCHANGED upstreamVars
    /\ UNCHANGED <<admin, cookie, pageVars, ended>>

StoreEvent(r) ==
    /\ req[r].stage = "event"
    /\ \/ Refused(r, 200) /\ UNCHANGED faults
       \/ faults < MaxFaults /\ faults' = faults + 1 /\ Refused(r, 500)
    /\ UNCHANGED <<upstreamVars, admin, cookie, pageVars, ended>>

----------------------------------------------------------------------------
(* The browser. *)

Send(r, kind) ==
    /\ req[r] = Idle
    /\ req' = [req EXCEPT ![r] = [Idle EXCEPT !.stage = "sent", !.kind = kind,
                                  !.auth = IF kind \in Logins THEN NoPair ELSE cookie]]
Waiting(kinds) == \E r \in Requests : req[r].kind \in kinds

\* App: the page asks once for the user and the dashboard.
Bootstrap(r) ==
    /\ tab = "loading" /\ ~Waiting({"bootstrap"}) /\ Send(r, "bootstrap")
    /\ UNCHANGED <<upstreamVars, admin, cookie, pageVars, ended, faults>>

\* Console: the dashboard every minute, and what else its pages ask.
Poll(r) ==
    /\ tab = "console" /\ Send(r, "poll")
    /\ UNCHANGED <<upstreamVars, admin, cookie, pageVars, ended, faults>>

LogOut(r) ==
    /\ tab = "console" /\ ~Waiting({"logout"}) /\ Send(r, "logout")
    /\ UNCHANGED <<upstreamVars, admin, cookie, pageVars, ended, faults>>

\* The login form, with the message of a bootstrap that failed, or without.
AtLogin == tab \in {"login", "unavailable"}

\* The operator sends the form of LoginPage, or takes the way back from its second step.
Submit(r) ==
    /\ ~Waiting(Logins)
    /\ \/ tab = "login" /\ Send(r, "password")
       \/ tab = "challenge" /\ Send(r, "totp")
    /\ UNCHANGED <<upstreamVars, admin, cookie, pageVars, ended, faults>>
Return ==
    /\ tab = "challenge" /\ ~Waiting(Logins) /\ tab' = "login"
    /\ UNCHANGED <<upstreamVars, admin, cookie, stale, fragment, req, ended, faults>>

\* OAuth: away to the provider and back, with tokens or an error in the address.
ReturnFromProvider == AtLogin /\ fragment' \in {"tokens", "error"}

\* The page is loaded anew, perhaps with an answer of an OAuth provider.
Load ==
    /\ tab # "loading" /\ \A r \in Requests : req[r] = Idle
    /\ tab' = "loading" /\ stale' = FALSE
    /\ \/ UNCHANGED fragment
       \/ ReturnFromProvider
    /\ UNCHANGED <<upstreamVars, admin, cookie, req, ended, faults>>

\* consumeOAuthCallback: the fragment leaves the address before it is used.
Consume(r) ==
    /\ AtLogin /\ fragment # "none" /\ ~Waiting(Logins) /\ req[r] = Idle
    /\ fragment' = "none"
    /\ IF fragment = "tokens" THEN Send(r, "oauth") ELSE UNCHANGED req
    /\ UNCHANGED <<upstreamVars, admin, cookie, tab, stale, ended, faults>>

Cookie(r) ==
    CASE req[r].change = "set" -> req[r].auth [] req[r].change = "deleted" -> NoPair [] OTHER -> cookie

\* LoginPage: what a login that was accepted leads to.
Settled(a) == IF a.change = "challenge" THEN "challenge" ELSE "console"

\* The page an answer leads to: api.ts announces a 401 of anything but
\* bootstrap and login to App, which then asks for a login.
Page(r) ==
    LET a == req[r]
    IN  CASE a.kind = "bootstrap" ->
                CASE a.status = 200 -> "console" [] a.status = 401 -> "login"
                  [] OTHER -> "unavailable"
          [] a.status = 401 /\ a.kind # "password" -> IF tab = "challenge" THEN tab ELSE "login"
          [] a.kind = "logout" /\ a.status = 200 -> "login"
          [] a.kind \in Logins /\ a.status = 200 -> Settled(a)
          [] OTHER -> tab

\* An answer arrives.
Reply(r) ==
    /\ req[r].stage = "reply"
    /\ cookie' = Cookie(r)
    /\ tab' = Page(r)
    /\ stale' = (tab' = "console" /\ IF req[r].kind = "poll" THEN req[r].status # 200 ELSE stale)
    /\ fragment' = IF tab' = "console" THEN "none" ELSE fragment
    /\ ended' = IF req[r].kind \in Logins THEN NoPair ELSE ended
    /\ req' = [req EXCEPT ![r] = Idle]
    /\ UNCHANGED <<upstreamVars, admin, faults>>

Served(r) == Arrive(r) \/ Check(r) \/ Refresh(r) \/ Handle(r) \/ LogIn(r) \/ StoreEvent(r) \/ Reply(r)

Next ==
    \/ \E p \in Pairs : Age(p) \/ Lapse(p)
    \/ Revoke \/ Return \/ Load
    \/ \E r \in Requests :
        \/ Arrive(r) \/ Check(r) \/ Refresh(r) \/ Handle(r) \/ LogIn(r) \/ StoreEvent(r) \/ Reply(r)
        \/ Bootstrap(r) \/ Poll(r) \/ LogOut(r) \/ Submit(r) \/ Consume(r)

Spec == Init /\ [][Next]_vars

\* Every request is answered: the client waits for Sub2API no longer than its
\* timeout.  The page sends its first request, and polls while it is shown.
\* Access tokens expire.
FairSpec ==
    /\ Spec
    /\ \A r \in Requests : WF_vars(Served(r))
    /\ \A p \in Pairs : WF_vars(Age(p))
    /\ WF_vars(\E r \in Requests : Bootstrap(r))
    /\ WF_vars(\E r \in Requests : Poll(r))

----------------------------------------------------------------------------

Usable(p) == p \in refresh \/ p \in access \ due

\* Only a pair of an administrator is ever in the cookie or behind a handler.
OnlyAdmins ==
    /\ cookie \notin members
    /\ \A r \in Requests : req[r].stage = "handler" => req[r].auth \notin members

\* docs/specs/001: the session is given up only when the credentials in it are
\* no longer good, the account is no administrator any more, or by a logout; and,
\* which the document does not say, when a request was itself turned away with
\* 401 or 403 by something that did not look at its pair.  No other trouble ends it.
SessionKept ==
    [][cookie # NoPair /\ cookie' = NoPair =>
        \/ ~Usable(cookie) \/ ~admin
        \/ \E r \in Requests :
              req[r].stage = "reply" /\ (req[r].kind = "logout" \/ req[r].turned)]_vars

\* After a logout that reached Sub2API nothing is left of the session, neither
\* in the browser nor upstream, whatever was refreshed on the way.
LogoutIsFinal ==
    ended # NoPair /\ (\A r \in Requests : req[r] = Idle) => cookie = NoPair /\ ended \notin refresh

\* Only an administrator's session opens the console, a logout leaves nothing of
\* it, and it is given up for no other reason (auth.ts, api.ts; docs 001).
SessionSafe == [](OnlyAdmins /\ LogoutIsFinal) /\ SessionKept

\* An account that is no administrator any more loses the console for good.
RevokedLeaves == <>[](~admin => tab # "console")

\* A console whose data could not be refreshed gets data again, or asks for a login.
OutageEnds == []<>~stale
=============================================================================
