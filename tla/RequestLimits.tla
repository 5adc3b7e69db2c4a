----------------------------- MODULE RequestLimits -----------------------------
(***************************************************************************)
(* The policy of request sizes: its file and the queue of saves             *)
(* (request-limits/policy.ts), the routes that read and save it, and the    *)
(* panels of the web interface that edit it.  The revision of the policy is *)
(* the digest of its file, which holds the time of the save: every replaced *)
(* file has a new one, here the next number.                                *)
(*                                                                          *)
(* Settings are compared by their key, which sorts the user overrides: two  *)
(* members of Settings are two different keys.                              *)
(***************************************************************************)
EXTENDS Naturals, Sequences, FiniteSetsExt

CONSTANTS
    Panels,
    Settings, InitialSettings,
    None,
    MaxSaves,       \* bound on saves sent
    MaxFailures, MaxCrashes

LimitsParameters ==
    /\ InitialSettings \in Settings /\ None \notin Settings
    /\ MaxSaves \in Nat /\ MaxFailures \in Nat /\ MaxCrashes \in Nat

VARIABLES
    policy,         \* the file: its revision and settings
    queue,          \* tasks of RequestLimitsStore.queue, the first one running
    stage,          \* await that the running task has reached
    recorded,       \* revisions that the audit events of the route name
    data,           \* what each panel's query holds
    polled,         \* answer to a panel's query that has not arrived yet
    draft,          \* edited input of each panel
    answers,        \* answers to saves on their way back
    saves, failures, crashes

storeVars == <<policy, queue, stage, recorded>>
panelVars == <<data, polled, draft, saves>>
vars == <<storeVars, panelVars, answers, failures, crashes>>

Input == [revision : Nat, settings : Settings]
\* A save also names the revision that the panel showed when editing began.
Save == [panel : Panels, number : 1..MaxSaves, input : Input, seen : Nat]

TypeOK ==
    /\ policy \in Input
    /\ queue \in Seq(Save) /\ stage \in {"queued", "compared", "renamed"}
    /\ recorded \in Seq(Nat)
    /\ data \in [Panels -> Input] /\ polled \in [Panels -> Input \cup {None}]
    /\ draft \in [Panels -> Input \cup {None}]
    /\ answers \subseteq [panel : Panels, number : 1..MaxSaves, result : Input \cup {None}]
    /\ saves \in 0..MaxSaves
    /\ failures \in 0..MaxFailures /\ crashes \in 0..MaxCrashes

Init ==
    /\ policy = [revision |-> 1, settings |-> InitialSettings]
    /\ queue = <<>> /\ stage = "queued" /\ recorded = <<>>
    /\ data = [p \in Panels |-> policy] /\ polled = [p \in Panels |-> None]
    /\ draft = [p \in Panels |-> None]
    /\ answers = {} /\ saves = 0
    /\ failures = 0 /\ crashes = 0

Fail == failures < MaxFailures /\ failures' = failures + 1

----------------------------------------------------------------------------
(* The panels.                                                              *)

Values(p) == IF draft[p] = None THEN data[p] ELSE draft[p]
Stale(p) == draft[p] # None /\ draft[p].revision # data[p].revision

\* set: the draft keeps the revision it was started from.  It also resets the
\* mutation, so that a save in flight no longer disables the form.
Edit(p, s) ==
    /\ Values(p).settings # s
    /\ draft' = [draft EXCEPT ![p] = [Values(p) EXCEPT !.settings = s]]
    /\ UNCHANGED <<storeVars, data, polled, saves, answers, failures, crashes>>

Reload(p) ==
    /\ draft[p] # None
    /\ draft' = [draft EXCEPT ![p] = None]
    /\ UNCHANGED <<storeVars, data, polled, saves, answers, failures, crashes>>

MayPoll(p) == polled[p] = None

\* The query reads the file now and its answer arrives later.
Poll(p) ==
    /\ MayPoll(p) /\ data[p] # policy
    /\ polled' = [polled EXCEPT ![p] = policy]
    /\ UNCHANGED <<storeVars, data, draft, saves, answers, failures, crashes>>

PollArrives(p) ==
    /\ polled[p] # None
    /\ data' = [data EXCEPT ![p] = polled[p]] /\ polled' = [polled EXCEPT ![p] = None]
    /\ UNCHANGED <<storeVars, draft, saves, answers, failures, crashes>>

MaySend(p) == draft[p] # None /\ ~Stale(p)

\* submit: the request joins the queue of the store.
Submit(p) ==
    /\ MaySend(p) /\ saves < MaxSaves
    /\ saves' = saves + 1
    /\ queue' = Append(queue, [panel |-> p, number |-> saves + 1,
                               input |-> draft[p], seen |-> draft[p].revision])
    /\ UNCHANGED <<policy, stage, recorded, data, polled, draft, answers, failures, crashes>>

Shown(a) == IF a.result = None THEN data[a.panel] ELSE a.result

\* onSuccess shows the result and drops the draft, edited meanwhile or not.
AnswerArrives(a) ==
    /\ answers' = answers \ {a}
    /\ data' = [data EXCEPT ![a.panel] = Shown(a)]
    /\ draft' = [draft EXCEPT ![a.panel] = IF a.result = None THEN @ ELSE None]
    /\ UNCHANGED <<storeVars, polled, saves, failures, crashes>>

AnswerLost(a) ==
    /\ Fail
    /\ answers' = answers \ {a}
    /\ UNCHANGED <<storeVars, panelVars, crashes>>

----------------------------------------------------------------------------
(* RequestLimitsStore.save and the route that calls it.                     *)

Task == Head(queue)

IsChange(result) == result # None /\ result.revision # Task.input.revision

\* The task settles and the next one starts; the route records a change and
\* answers, also when the record fails.
Settle(result) ==
    /\ queue' = Tail(queue) /\ stage' = "queued"
    /\ \/ recorded' = IF IsChange(result) THEN Append(recorded, result.revision) ELSE recorded
       \/ IsChange(result) /\ failures < MaxFailures /\ UNCHANGED recorded
    /\ answers' = answers \cup {[panel |-> Task.panel, number |-> Task.number, result |-> result]}

\* Mutant: the revision is not compared.
AnyRevision(input) == TRUE

CurrentRevision(input) == input.revision = policy.revision

SameSettings(input) == input.settings = policy.settings

\* The file is read and its revision compared: 409, nothing to do, or a
\* temporary file to be written.
Compare ==
    /\ queue # <<>> /\ stage = "queued"
    /\ \/ /\ ~CurrentRevision(Task.input) /\ Settle(None)
       \/ /\ CurrentRevision(Task.input) /\ SameSettings(Task.input) /\ Settle(policy)
       \/ /\ CurrentRevision(Task.input) /\ ~SameSettings(Task.input)
          /\ stage' = "compared" /\ UNCHANGED <<queue, recorded, answers>>
    /\ UNCHANGED <<policy, panelVars, failures, crashes>>

\* The file cannot be read, or the temporary one cannot be written.
CompareFails ==
    /\ queue # <<>> /\ stage \in {"queued", "compared"} /\ Fail
    /\ Settle(None)
    /\ UNCHANGED <<policy, panelVars, crashes>>

Rename ==
    /\ stage = "compared"
    /\ policy' = [revision |-> policy.revision + 1, settings |-> Task.input.settings]
    /\ stage' = "renamed"
    /\ UNCHANGED <<queue, recorded, panelVars, answers, failures, crashes>>

\* The directory cannot be synced or the file not read again: the route
\* answers 503 and records nothing, with the new policy in force.
SyncFails ==
    /\ stage = "renamed" /\ Fail
    /\ Settle(None)
    /\ UNCHANGED <<policy, panelVars, crashes>>

Saved ==
    /\ stage = "renamed"
    /\ Settle(policy)
    /\ UNCHANGED <<policy, panelVars, failures, crashes>>

\* The process ends: the queue and every request are gone.
Crash ==
    /\ crashes < MaxCrashes /\ crashes' = crashes + 1
    /\ queue' = <<>> /\ stage' = "queued" /\ answers' = {}
    /\ UNCHANGED <<policy, recorded, panelVars, failures>>

StoreStep == Compare \/ CompareFails \/ Rename \/ SyncFails \/ Saved

Next ==
    \/ \E p \in Panels :
          \/ \E s \in Settings : Edit(p, s)
          \/ Reload(p) \/ Poll(p) \/ PollArrives(p) \/ Submit(p)
    \/ \E a \in answers : AnswerArrives(a) \/ AnswerLost(a)
    \/ StoreStep
    \/ Crash

Spec == Init /\ [][Next]_vars

\* The store's awaits end, queries poll every 15 seconds and their answers
\* arrive.
FairSpec ==
    /\ Spec /\ WF_vars(StoreStep)
    /\ \A p \in Panels : WF_vars(Poll(p)) /\ WF_vars(PollArrives(p))

----------------------------------------------------------------------------
(* Properties.                                                              *)

\* Docs 012: a save with an old version is refused.  A panel replaces only
\* the policy that its administrator saw when the editing began, although
\* comparing and replacing are two steps and other saves wait meanwhile.
NoLostUpdate ==
    [][policy' # policy => /\ queue # <<>>
                           /\ Task.seen = policy.revision]_vars

\* Docs 012: saving the same settings changes no revision, and makes no
\* audit record: every record names a change of its own.
ChangesAreReal ==
    [][policy' # policy => policy'.settings # policy.settings]_vars
RecordsAreChanges ==
    /\ \A i, j \in DOMAIN recorded : i < j => recorded[i] < recorded[j]
    /\ \A i \in DOMAIN recorded : recorded[i] \in 2..policy.revision

\* A panel never has to stay with an old policy: it shows the file again,
\* whatever answers overtook each other and whatever it is editing.
PanelCatchesUp == \A p \in Panels : []<>(data[p] = policy)
=============================================================================
