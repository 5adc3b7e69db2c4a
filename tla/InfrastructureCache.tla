-------------------------- MODULE InfrastructureCache --------------------------
(***************************************************************************)
(* The proxies of the accounts on the dashboard (routes.ts): one cache for   *)
(* the configured accounts, refreshed by the polls that find it old, in the   *)
(* background and one refresh at a time, whichever accounts it is for.        *)
(***************************************************************************)
EXTENDS Integers

CONSTANTS
    AccountSets,    \* what config.accounts can be
    Nobody,         \* not one of them: the key before the first poll
    MaxAge,         \* when a value is old: 60 s in the code
    MaxSaves        \* bound: number of configurations

VARIABLES
    accounts,   \* config.accounts
    saves,
    key,        \* infrastructureCache.key
    value,      \* of which accounts the value is, or Nobody when it is empty
    age,        \* since refreshedAt
    pending,    \* the accounts that are being read, or Nobody
    polled,     \* whether somebody waits for an answer
    shown       \* the last answer: [accounts, value], or Nobody

vars == <<accounts, saves, key, value, age, pending, polled, shown>>

TypeOK ==
    /\ accounts \in AccountSets /\ saves \in 0..MaxSaves
    /\ {key, value, pending} \subseteq AccountSets \cup {Nobody}
    /\ age \in 0..MaxAge /\ polled \in BOOLEAN
    /\ shown.accounts \in AccountSets \cup {Nobody}

Init ==
    /\ accounts \in AccountSets /\ saves = 0
    /\ key = Nobody /\ value = Nobody /\ age = MaxAge
    /\ pending = Nobody /\ polled = FALSE
    /\ shown = [accounts |-> Nobody, value |-> Nobody]

Save ==
    /\ saves < MaxSaves /\ saves' = saves + 1
    /\ \E a \in AccountSets \ {accounts} : accounts' = a
    /\ UNCHANGED <<key, value, age, pending, polled, shown>>

Poll ==
    /\ ~polled /\ polled' = TRUE
    /\ UNCHANGED <<accounts, saves, key, value, age, pending, shown>>

\* refreshInfrastructure
Refresh ==
    /\ key' = accounts
    /\ value' = IF key = accounts THEN value ELSE Nobody
    /\ age' = IF key = accounts THEN age ELSE MaxAge
    /\ pending' = IF pending = Nobody /\ age' = MaxAge THEN accounts ELSE pending

\* dashboardResponse: the answer has what there is.
Respond ==
    /\ polled /\ polled' = FALSE
    /\ Refresh
    /\ shown' = [accounts |-> accounts, value |-> value']
    /\ UNCHANGED <<accounts, saves>>

\* The accounts were read, or could not be: the error is shown as the value.
Read ==
    /\ pending # Nobody /\ pending' = Nobody
    /\ IF key = pending THEN value' = pending /\ age' = 0
                        ELSE UNCHANGED <<value, age>>
    /\ UNCHANGED <<accounts, saves, key, polled, shown>>

Tick ==
    /\ age < MaxAge /\ age' = age + 1
    /\ UNCHANGED <<accounts, saves, key, value, pending, polled, shown>>

Next == Save \/ Poll \/ Respond \/ Read \/ Tick

\* A page in the foreground polls, the server answers, and a request upstream
\* ends at its timeout.
Spec == Init /\ [][Next]_vars
             /\ WF_vars(Poll) /\ WF_vars(Respond) /\ WF_vars(Read) /\ WF_vars(Tick)

-----------------------------------------------------------------------------
(* Properties                                                               *)

\* An answer never has the proxies of accounts other than the configured ones
\* beside it, though a read for earlier accounts ends later.
ShownBelongs == shown.value = Nobody \/ shown.value = shown.accounts

\* A read for earlier accounts blocks the next one, but not for ever: the
\* dashboard comes to show the proxies of the configured accounts.
ShownInTheEnd ==
    \A a \in AccountSets : []<>(accounts = a => shown = [accounts |-> a, value |-> a])

\* An old value is read again, also when nothing else changes.
ReadAgain == []<>(pending # Nobody)
=============================================================================
