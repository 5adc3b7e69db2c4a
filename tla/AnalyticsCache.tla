----------------------------- MODULE AnalyticsCache -----------------------------
(***************************************************************************)
(* The usage reports of an account (analytics.ts and the route of it): reads *)
(* of one question are merged while one is under way, a result is shared for *)
(* a while, and every read needs two queries of a pool that has a single     *)
(* connection.  The range and the cycle of a question are like its account.  *)
(*                                                                          *)
(* The time unit is five seconds: all the waits of the code are multiples.   *)
(***************************************************************************)
EXTENDS Integers, Sequences, SequencesExt, FiniteSets, FiniteSetsExt

CONSTANTS
    Clients,        \* browsers
    Accounts,
    GroupLists,     \* values of targetGroupIds, sequences
    Shared,         \* how long a result is shared: 6 units in the code
    Wait,           \* connectionTimeoutMillis: 1 unit in the code
    Statement,      \* statement_timeout: 3 units in the code
    MaxResults,     \* 32 in the code
    Reads,          \* bound: numbers of the reads that have a query somewhere
    None

ReportParameters ==
    /\ Shared \in Nat /\ Wait \in Nat /\ Statement \in Nat /\ MaxResults \in Nat \ {0}
    /\ None \notin Reads

Queries == {"usage", "users"}   \* MODEL_USAGE_QUERY, ELIGIBLE_USERS_QUERY

VARIABLES
    config,     \* of each account, its targetGroupIds
    client,     \* of each browser: [at, account, groups, read] and its last answer
    answer,     \* of each browser: [key, age] of the last report, or None
    reads,      \* the reads that are not settled: [key, age, done]
    pending,    \* of a key, its read
    results,    \* of a key, the shared report: [of, age, left]
    connection, \* the query that runs: [read, query, key, time], or None
    queue       \* the queries that wait for the connection, likewise

vars == <<config, client, answer, reads, pending, results, connection, queue>>

Key(account, groups) == [account |-> account, groups |-> ToSet(groups)]
Keys == [account : Accounts, groups : SUBSET UNION {ToSet(g) : g \in GroupLists}]
Idle == [at |-> "idle", account |-> None, groups |-> None, read |-> None]
Without(f, k) == [x \in DOMAIN f \ {k} |-> f[x]]
With(f, k, v) == [x \in DOMAIN f \cup {k} |-> IF x = k THEN v ELSE f[x]]

InPool == ToSet(queue) \cup ({connection} \ {None})
Cached(key) == key \in DOMAIN results /\ results[key].left > 0

TypeOK ==
    /\ config \in [Accounts -> GroupLists]
    /\ \A c \in Clients :
          /\ client[c].at \in {"idle", "resolving", "waiting"}
          /\ client[c].read \in Reads \cup {None}
          /\ answer[c] = None \/ answer[c].key \in Keys
    /\ DOMAIN reads \subseteq Reads /\ \A r \in DOMAIN reads : reads[r].key \in Keys
    /\ DOMAIN pending \subseteq Keys
    /\ DOMAIN results \subseteq Keys /\ Cardinality(DOMAIN results) <= MaxResults
    /\ \A q \in InPool : q.query \in Queries /\ q.time \in 0..(Wait + Statement)

Init ==
    /\ config \in [Accounts -> GroupLists]
    /\ client = [c \in Clients |-> Idle] /\ answer = [c \in Clients |-> None]
    /\ reads = <<>> /\ pending = <<>> /\ results = <<>>
    /\ connection = None /\ queue = <<>>

-----------------------------------------------------------------------------
(* The route.                                                               *)

\* The groups are those of the configuration when the request comes in; the
\* account is then looked up upstream.
Ask(c) ==
    /\ client[c].at = "idle"
    /\ \E a \in Accounts :
          client' = [client EXCEPT ![c] = [at |-> "resolving", account |-> a,
                                           groups |-> config[a], read |-> None]]
    /\ answer' = [answer EXCEPT ![c] = None]
    /\ UNCHANGED <<config, reads, pending, results, connection, queue>>

\* The account is not found upstream, or the cycle that was asked for is unknown.
Fail(c) ==
    /\ client[c].at = "resolving"
    /\ client' = [client EXCEPT ![c] = Idle]
    /\ UNCHANGED <<config, answer, reads, pending, results, connection, queue>>

\* The configuration is saved meanwhile.
Configure(a) ==
    /\ \E g \in GroupLists \ {config[a]} : config' = [config EXCEPT ![a] = g]
    /\ UNCHANGED <<client, answer, reads, pending, results, connection, queue>>

-----------------------------------------------------------------------------
(* AnalyticsRepository                                                      *)

FromResults(c, key) ==
    /\ Cached(key)
    /\ answer' = [answer EXCEPT ![c] = [key |-> results[key].of, age |-> results[key].age]]
    /\ client' = [client EXCEPT ![c] = [@ EXCEPT !.at = "idle"]]
    /\ UNCHANGED <<reads, pending, queue>>

FromPending(c, key) ==
    /\ ~Cached(key) /\ key \in DOMAIN pending
    /\ client' = [client EXCEPT ![c] = [@ EXCEPT !.at = "waiting", !.read = pending[key]]]
    /\ UNCHANGED <<answer, reads, pending, queue>>

\* readAccountAnalytics: both queries are handed to the pool.
NewRead(c, key) ==
    /\ ~Cached(key)
    /\ LET free == Reads \ (DOMAIN reads \cup {q.read : q \in InPool})
       IN \E r \in free :
          /\ r = Min(free)
          /\ reads' = With(reads, r, [key |-> key, age |-> 0, done |-> {},
                                      of |-> [account |-> client[c].account,
                                              groups |-> ToSet(client[c].groups)]])
          /\ pending' = With(pending, key, r)
          /\ queue' = queue \o <<[read |-> r, query |-> "usage", key |-> key, time |-> 0],
                                 [read |-> r, query |-> "users", key |-> key, time |-> 0]>>
          /\ client' = [client EXCEPT ![c] = [@ EXCEPT !.at = "waiting", !.read = r]]
    /\ UNCHANGED answer

\* accountAnalytics
AccountAnalytics(c) ==
    LET key == Key(client[c].account, client[c].groups) IN
    /\ client[c].at = "resolving"
    /\ \/ FromResults(c, key)
       \/ FromPending(c, key)
       \/ key \notin DOMAIN pending /\ NewRead(c, key)
    /\ UNCHANGED <<config, results, connection>>

\* The expired results go, then the oldest one when there is no room: of those
\* of one moment any.
Live == {k \in DOMAIN results : results[k].left > 0}
Oldest == {k \in Live : \A l \in Live : results[k].left <= results[l].left}
Add(r) ==
    \E gone \in IF Cardinality(Live) < MaxResults THEN {{}} ELSE {{k} : k \in Oldest} :
        results' = With([k \in Live \ gone |-> results[k]], reads[r].key,
                        [of |-> reads[r].of, age |-> reads[r].age, left |-> Shared])

\* A read is settled for all who wait for it.
Settle(r) ==
    /\ reads' = Without(reads, r)
    /\ client' = [c \in Clients |->
                    IF client[c].read = r THEN [client[c] EXCEPT !.at = "idle", !.read = None]
                    ELSE client[c]]
Succeed(r) ==
    /\ Settle(r)
    /\ Add(r)
    /\ pending' = Without(pending, reads[r].key)
    /\ answer' = [c \in Clients |->
                    IF client[c].read = r THEN [key |-> reads[r].of, age |-> reads[r].age]
                    ELSE answer[c]]
\* Mutant: the read stays pending when it failed.
FailAndStay(r) == Settle(r) /\ UNCHANGED <<results, pending, answer>>
FailRead(r) ==
    /\ Settle(r)
    /\ pending' = Without(pending, reads[r].key)
    /\ UNCHANGED <<results, answer>>

-----------------------------------------------------------------------------
(* The pool: one connection, first come, first served.  A query is not       *)
(* withdrawn when the other one of its read fails.                           *)

Serve ==
    /\ connection = None /\ queue # <<>>
    /\ connection' = [Head(queue) EXCEPT !.time = 0]
    /\ queue' = Tail(queue)
    /\ UNCHANGED <<config, client, answer, reads, pending, results>>

\* The query ends well, or not: after Statement it is cancelled.
QueryEnds(ok) ==
    /\ connection # None
    /\ connection' = None
    /\ LET r == connection.read
           done == reads[r].done \cup {connection.query}
       IN IF r \notin DOMAIN reads THEN UNCHANGED <<client, answer, reads, pending, results>>
          ELSE IF ~ok THEN FailRead(r)
          ELSE IF done = Queries THEN Succeed(r)
          ELSE /\ reads' = [reads EXCEPT ![r].done = done]
               /\ UNCHANGED <<client, answer, pending, results>>
    /\ UNCHANGED <<config, queue>>

\* "timeout exceeded when trying to connect"
WaitEnds ==
    /\ \E i \in DOMAIN queue :
          /\ queue[i].time = Wait
          /\ queue' = RemoveAt(queue, i)
          /\ IF queue[i].read \in DOMAIN reads THEN FailRead(queue[i].read)
             ELSE UNCHANGED <<client, answer, reads, pending, results>>
    /\ UNCHANGED <<config, connection>>

\* Five seconds pass: a timer that is due comes first.
Tick ==
    /\ connection = None => queue = <<>>
    /\ connection # None => connection.time < Statement
    /\ \A q \in ToSet(queue) : q.time < Wait
    /\ connection' = IF connection = None THEN None ELSE [connection EXCEPT !.time = @ + 1]
    /\ queue' = [i \in DOMAIN queue |-> [queue[i] EXCEPT !.time = @ + 1]]
    /\ reads' = [r \in DOMAIN reads |-> [reads[r] EXCEPT !.age = @ + 1]]
    /\ results' = [k \in DOMAIN results |->
                     IF results[k].left > 0
                       THEN [results[k] EXCEPT !.left = @ - 1, !.age = @ + 1] ELSE results[k]]
    /\ UNCHANGED <<config, client, answer, pending>>

Next ==
    \/ \E c \in Clients : Ask(c) \/ Fail(c) \/ AccountAnalytics(c)
    \/ \E a \in Accounts : Configure(a)
    \/ Serve \/ WaitEnds \/ Tick
    \/ \E ok \in BOOLEAN : QueryEnds(ok)

Spec == Init /\ [][Next]_vars

-----------------------------------------------------------------------------
(* Properties                                                               *)

\* A report is of the account and of the groups that were configured when it was
\* asked for, whoever else asked and whatever was saved meanwhile.
OwnAnswer ==
    \A c \in Clients : client[c].at = "idle" /\ client[c].account # None /\ answer[c] # None =>
        answer[c].key = [account |-> client[c].account, groups |-> ToSet(client[c].groups)]

\* The statistics of a report are never older than a read can take and a result
\* is shared.
Fresh == \A c \in Clients : answer[c] # None => answer[c].age <= Wait + Statement + Shared

\* A question is being read once, and only a read under way is pending: a
\* failure leaves nothing behind that a later request could be given.
OneReadPerKey ==
    /\ \A r, s \in DOMAIN reads : reads[r].key = reads[s].key => r = s
    /\ \A k \in DOMAIN pending : pending[k] \in DOMAIN reads /\ reads[pending[k]].key = k
=============================================================================
