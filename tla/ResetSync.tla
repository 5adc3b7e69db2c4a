------------------------------ MODULE ResetSync ------------------------------
(***************************************************************************)
(* The reset job of one account (engine.ts, syncReset and completeReset):   *)
(* it detects that the upstream entered a new window, stores a reset event, *)
(* turns redistribution off, restores the base limits and resets the weekly *)
(* usage of every target subscription, one stored step after the other.     *)
(***************************************************************************)
EXTENDS AccountState

unchangedByReset == <<upstream, enabled, groups, form, edits, aborts, capacity,
                      granted>>

\* Mutant: a stored event is resumed where usage is reset.
ResumeAtWipe == StartTask(IF pendingEvent # None THEN "wipe" ELSE "observe")

StartReset == StartTask(IF pendingEvent # None THEN "disable" ELSE "observe")

\* First observation, no new window, or a window already handled: the
\* observation becomes the new baseline.
KeepObservation(o) ==
    /\ pc = "observe"
    /\ \/ observation = None
       \/ /\ observation # None
          /\ ~IsNewResetWindow(observation, o, now)
       \/ /\ observation # None
          /\ lastHandled # None
          /\ o.resetAt <= lastHandled.resetAt
    /\ observation' = o
    /\ pc' = "idle" /\ mem' = NoMemory
    /\ UNCHANGED <<unchangedByReset, limit, flag, lastHandled, pendingEvent,
                   redistribution, added, departed, wiped, armed>>

DetectNewWindow(o) ==
    /\ pc = "observe"
    /\ observation # None
    /\ IsNewResetWindow(observation, o, now)
    /\ lastHandled # None => o.resetAt > lastHandled.resetAt
    /\ pc' = "detected"
    /\ mem' = [mem EXCEPT !.seen = o]
    /\ UNCHANGED <<unchangedByReset, limit, flag, resetState, redistribution,
                   added, departed, wiped, armed>>

\* The event names the subscriptions that are active now and, if the ledger
\* has raised or may have raised a limit, the base limit to go back to.
\*
\* Mutants: a round in flight is not restored; a base is assumed to be known.
RestoreOnlyRecorded ==
    IF redistribution # None /\ \E g \in Groups : redistribution.limits[g] > 0
    THEN [limit |-> redistribution.base, groups |-> mem.groups]
    ELSE None

RestoreWithoutBase ==
    IF redistribution # None
    THEN [limit |-> redistribution.base, groups |-> mem.groups]
    ELSE None

RestorePlan ==
    IF /\ redistribution # None
       /\ redistribution.base # None
       /\ \/ \E g \in Groups : redistribution.limits[g] > 0
          \/ redistribution.pending # None
    THEN [limit |-> redistribution.base, groups |-> mem.groups]
    ELSE None

PersistEvent(subscriptions) ==
    /\ pc = "detected"
    /\ pendingEvent' = [observation |-> mem.seen, targets |-> subscriptions,
                        completed |-> {}, restore |-> RestorePlan]
    /\ armed' = FALSE
    /\ pc' = "disable"
    /\ UNCHANGED <<unchangedByReset, limit, flag, observation, lastHandled,
                   redistribution, mem, added, departed, wiped>>

DisableRedistributionForReset ==
    /\ pc = "disable"
    /\ flag' = FALSE
    /\ mem' = [mem EXCEPT
                 !.resumed = mem.seen = None,
                 !.todo = IF pendingEvent.restore = None THEN {}
                          ELSE pendingEvent.restore.groups]
    /\ pc' = "restore"
    /\ UNCHANGED <<unchangedByReset, limit, resetState, redistribution, added, departed,
                   wiped, armed>>

\* A group the administrator took out meanwhile is skipped; the others are
\* read and then written.
CheckGroup(g) ==
    /\ pc = "restore"
    /\ IsFirst(g, mem.todo)
    /\ IF g \in groups
       THEN pc' = "restoreGroup" /\ UNCHANGED mem
       ELSE pc' = pc /\ mem' = [mem EXCEPT !.todo = @ \ {g}]
    /\ UNCHANGED <<unchangedByReset, limit, flag, resetState, redistribution,
                   added, departed, wiped, armed>>

RestoreGroup(g) ==
    /\ pc = "restoreGroup"
    /\ IsFirst(g, mem.todo)
    /\ limit' = [limit EXCEPT ![g] = pendingEvent.restore.limit]
    /\ BackToBase(g)
    /\ mem' = [mem EXCEPT !.todo = @ \ {g}]
    /\ pc' = "restore"
    /\ UNCHANGED <<unchangedByReset, flag, resetState, redistribution,
                   wiped, armed>>

GroupsRestored ==
    /\ pc = "restore"
    /\ mem.todo = {}
    /\ pc' = "wipe"
    /\ UNCHANGED <<unchangedByReset, limit, flag, resetState, redistribution,
                   mem, added, departed, wiped, armed>>

\* Mutants: a resumed event counts as done; progress is not looked at.
DoneWhenResumed ==
    IF mem.resumed THEN {} ELSE pendingEvent.targets \ pendingEvent.completed

AllTargets == pendingEvent.targets

Remaining == pendingEvent.targets \ pendingEvent.completed

ResetSubscriptionWeekly(s) ==
    /\ pc = "wipe"
    /\ IsFirst(s, Remaining)
    /\ wiped' = [wiped EXCEPT ![s] = pendingEvent.observation.cycle]
    /\ pc' = "recordWipe"
    /\ UNCHANGED <<unchangedByReset, limit, flag, resetState, redistribution,
                   mem, added, departed, armed>>

RecordProgress(s) ==
    /\ pc = "recordWipe"
    /\ IsFirst(s, Remaining)
    /\ pendingEvent' = [pendingEvent EXCEPT !.completed = @ \cup {s}]
    /\ pc' = "wipe"
    /\ UNCHANGED <<unchangedByReset, limit, flag, observation, lastHandled,
                   redistribution, mem, added, departed, wiped, armed>>

\* The event is closed; a run that found it at its start goes on to observe.
CompleteReset ==
    /\ pc = "wipe"
    /\ Remaining = {}
    /\ redistribution' = IF redistribution = None THEN None
                         ELSE FreshRedistribution(pendingEvent.observation)
    /\ observation' = pendingEvent.observation
    /\ lastHandled' = pendingEvent.observation
    /\ pendingEvent' = None
    /\ IF mem.resumed
       THEN pc' = "observe" /\ UNCHANGED mem
       ELSE pc' = "idle" /\ mem' = NoMemory
    /\ UNCHANGED <<unchangedByReset, limit, flag, added, departed, wiped, armed>>

ResetStep ==
    \/ \E o \in ObserveQuota : KeepObservation(o) \/ DetectNewWindow(o)
    \/ \E subscriptions \in SUBSET Subs : PersistEvent(subscriptions)
    \/ DisableRedistributionForReset
    \/ \E g \in Groups : CheckGroup(g) \/ RestoreGroup(g)
    \/ GroupsRestored
    \/ \E s \in Subs : ResetSubscriptionWeekly(s) \/ RecordProgress(s)
    \/ CompleteReset

============================================================================
