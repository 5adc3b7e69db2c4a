------------------------------ MODULE StateStore ------------------------------
(***************************************************************************)
(* The state file of the Ops process and its queue of updates (store.ts).   *)
(* An update works on a copy, shows the copy to every reader and then       *)
(* writes it to a temporary file that replaces the state file.  The queue   *)
(* is one promise: when an update is rejected, every later one is.          *)
(*                                                                          *)
(* A state is the history of the updates in it and what they left of the    *)
(* accounts and the audit events.                                           *)
(***************************************************************************)
EXTENDS Naturals, SequencesExt, FiniteSetsExt

CONSTANTS
    Updates,        \* calls of update; each is made once
    Accounts,       \* keys of accounts
    Call,           \* what each update is: ensureAccounts, updateAccount or addEvent
    MAX_EVENTS,
    MaxFailures, MaxCrashes     \* bounds

StoreParameters ==
    /\ Call \in [Updates -> [name : {"ensure"}, accounts : SUBSET Accounts]
                           \cup [name : {"account"}, key : Accounts]
                           \cup [name : {"event"}]]
    /\ MAX_EVENTS \in Nat /\ MaxFailures \in Nat /\ MaxCrashes \in Nat

VARIABLES
    state,      \* StateStore.state
    file,       \* the state file
    queue,      \* updates that wait, the first one running
    writing,    \* is the running one past its mutation
    broken,     \* has an update been rejected: the queue is a rejected promise
    resolved, rejected, \* updates whose caller was told so
    failures, crashes

vars == <<state, file, queue, writing, broken, resolved, rejected, failures, crashes>>

\* touched: the updates of an account since it was last configured anew.
State == [applied : Seq(Updates), accounts : SUBSET Accounts,
          touched : [Accounts -> SUBSET Updates], events : Seq(Updates)]

TypeOK ==
    /\ state \in State /\ file \in State
    /\ Len(state.events) <= MAX_EVENTS
    /\ queue \in Seq(Updates) /\ writing \in BOOLEAN /\ broken \in BOOLEAN
    /\ resolved \subseteq Updates /\ rejected \subseteq Updates
    /\ failures \in 0..MaxFailures /\ crashes \in 0..MaxCrashes

Init ==
    /\ state = [applied |-> <<>>, accounts |-> {}, touched |-> [a \in Accounts |-> {}],
                events |-> <<>>]
    /\ file = state
    /\ queue = <<>> /\ writing = FALSE /\ broken = FALSE
    /\ resolved = {} /\ rejected = {}
    /\ failures = 0 /\ crashes = 0

----------------------------------------------------------------------------
(* What the updates do.                                                     *)

\* ensureAccounts: what is not configured is forgotten, the others keep theirs.
Ensure(s, configured) ==
    [s EXCEPT !.accounts = configured,
              !.touched = [a \in Accounts |-> IF a \in configured THEN @[a] ELSE {}]]

\* Mutant: every event is kept.
KeepAll(events) == events

Cut(events) == SubSeq(events, 1, IF Len(events) > MAX_EVENTS THEN MAX_EVENTS ELSE Len(events))

\* updateAccount finds no state of its account.
Throws(u) == Call[u].name = "account" /\ Call[u].key \notin state.accounts

Mutated(u) ==
    LET s == [state EXCEPT !.applied = Append(@, u)]
    IN  CASE Call[u].name = "event" -> [s EXCEPT !.events = Cut(<<u>> \o @)]
          [] Call[u].name = "account" -> [s EXCEPT !.touched[Call[u].key] = @ \cup {u}]
          [] OTHER -> Ensure(s, Call[u].accounts)

----------------------------------------------------------------------------
\* Mutant: the queue recovers from a rejected update.
Recovers == FALSE

Rejects == TRUE

UpdateCalled(u) ==
    /\ u \notin resolved \cup rejected \cup ToSet(queue) \cup ToSet(file.applied)
    /\ IF broken THEN rejected' = rejected \cup {u} /\ UNCHANGED queue
       ELSE queue' = Append(queue, u) /\ UNCHANGED rejected
    /\ UNCHANGED <<state, file, writing, broken, resolved, failures, crashes>>

\* Every update in the queue is rejected with the first one.
Reject ==
    /\ broken' = Rejects
    /\ IF Rejects THEN rejected' = rejected \cup ToSet(queue) /\ queue' = <<>>
       ELSE rejected' = rejected \cup {Head(queue)} /\ queue' = Tail(queue)
    /\ writing' = FALSE
    /\ UNCHANGED <<file, resolved, crashes>>

Mutate ==
    /\ queue # <<>> /\ ~writing
    /\ \/ /\ ~Throws(Head(queue))
          /\ state' = Mutated(Head(queue)) /\ writing' = TRUE
          /\ UNCHANGED <<file, queue, broken, resolved, rejected, crashes>>
       \/ Throws(Head(queue)) /\ Reject /\ UNCHANGED state
    /\ UNCHANGED failures

\* The temporary file has replaced the state file.
Persist ==
    /\ writing
    /\ file' = state
    /\ resolved' = resolved \cup {Head(queue)} /\ queue' = Tail(queue) /\ writing' = FALSE
    /\ UNCHANGED <<state, broken, rejected, failures, crashes>>

PersistFails ==
    /\ writing /\ failures < MaxFailures /\ failures' = failures + 1
    /\ Reject /\ UNCHANGED state

\* The process ends and initialize reads the file.
Restart ==
    /\ crashes < MaxCrashes /\ crashes' = crashes + 1
    /\ state' = file
    /\ queue' = <<>> /\ writing' = FALSE /\ broken' = FALSE
    /\ UNCHANGED <<file, resolved, rejected, failures>>

QueueStep == Mutate \/ Persist \/ PersistFails

Next == (\E u \in Updates : UpdateCalled(u)) \/ QueueStep \/ Restart

Spec == Init /\ [][Next]_vars

----------------------------------------------------------------------------
(* Properties.                                                              *)

\* An update whose caller was told that it succeeded is in the file, once, and
\* a restart does not forget it.
ResolvedIsStored ==
    /\ resolved \subseteq ToSet(file.applied)
    /\ IsInjective(file.applied)

\* A rejected update never reaches the file: nothing that its caller took for
\* undone appears after a restart.
RejectedStaysOut == rejected \cap ToSet(file.applied) = {}

\* Readers are ahead of the file by at most the update being written, or the
\* one whose write failed.
AheadByOne ==
    /\ IsPrefix(file.applied, state.applied)
    /\ Len(state.applied) <= Len(file.applied) + 1
    /\ state.applied # file.applied => writing \/ broken

\* The updates of an account after the last configuration that left it out.
Since(done, a) ==
    LET Missing == {i \in DOMAIN done : /\ Call[done[i]].name = "ensure"
                                        /\ a \notin Call[done[i]].accounts}
        Own == {i \in DOMAIN done : Call[done[i]] = [name |-> "account", key |-> a]}
    IN  {done[i] : i \in {j \in Own : \A k \in Missing : k < j}}

\* What is known of an account is what its updates left since it was last
\* missing in a configuration: adding it again starts it afresh.
ForgottenIsForgotten == \A a \in Accounts : state.touched[a] = Since(state.applied, a)

\* The events kept are the newest, the latest first.
NewestEvents ==
    LET Written == SelectSeq(state.applied, LAMBDA u : Call[u].name = "event")
    IN  /\ IsPrefix(state.events, Reverse(Written))
        /\ Len(state.events) = MAX_EVENTS \/ Len(state.events) = Len(Written)
=============================================================================
