-------------------------- MODULE AccountSyncProofs --------------------------
(***************************************************************************)
(* Proofs about AccountSync, for every value of its constants: types, with  *)
(* what each step of a task takes for granted, and the reset event - one    *)
(* per window, progress that is real, closed when complete, redistribution  *)
(* turned off.                                                              *)
(*                                                                          *)
(* Then the ledger, while windows end when they expire: what redistribution *)
(* has put on top of the groups is in the ledger, what it hands out in a    *)
(* window is covered by an estimate, a limit it has issued stays in force,  *)
(* and the members' usage is reset at the base limit.  Last the pages that  *)
(* the subscriptions of a reset are read from.                              *)
(***************************************************************************)
EXTENDS AccountSync, FiniteSetTheorems, SequenceTheorems, TLAPS

\* roundUsd of a share is an amount.
LEMMA PerShareIsAmount ==
    ASSUME NEW net \in Nat
    PROVE  PerShare(net) \in Nat
<1>1. 2 * net + ShareCount \in Nat /\ 2 * ShareCount \in Nat \ {0}
    BY AmountsAreCents
<1>2. ASSUME NEW a \in Nat, NEW b \in Nat \ {0} PROVE a \div b \in Nat
    BY <1>2
<1> QED BY <1>1, <1>2 DEF PerShare

LEMMA LargerIsOne ==
    ASSUME NEW a, NEW b
    PROVE  Larger(a, b) \in {a, b}
BY DEF Larger

TypedTask == TypeOK /\ TaskOK

LEMMA InitTyped == Init => TypedTask
<1> SUFFICES ASSUME Init PROVE TypedTask
    OBVIOUS
<1> USE InitialConfig, WindowParameters, Bounds DEF Init
<1>1. 0 \in 0..MaxCycle
    OBVIOUS
<1>2. TypeOK
    BY <1>1 DEF TypeOK, Memory, NoMemory
<1>3. TaskOK
    BY DEF TaskOK, ResetSteps, CapacitySteps, NoMemory
<1> QED BY <1>2, <1>3 DEF TypedTask

LEMMA ObservationTyped ==
    ASSUME TypeOK, NEW o \in ObserveQuota
    PROVE  o \in Observation /\ o.cycle = quota.cycle
           /\ quota.end - o.resetAt \in 0..Tolerance
BY WindowParameters DEF TypeOK, ObserveQuota, Observation

LEMMA UpstreamTyped == TypedTask /\ Upstream => TypedTask'
<1> SUFFICES ASSUME TypedTask, Upstream PROVE TypedTask'
    OBVIOUS
<1>1. now' \in Nat /\ quota' \in [end : Int, used : Nat, cycle : 0..MaxCycle]
  <2>1. /\ now \in Nat
        /\ quota \in [end : Int, used : Nat, cycle : 0..MaxCycle]
        /\ CycleLength \in Nat /\ Tolerance \in Nat /\ MaxCycle \in Nat
    BY WindowParameters, Bounds DEF TypedTask, TypeOK
  <2>2. CASE Tick
    BY <2>1, <2>2 DEF Tick
  <2>3. CASE Consume
    BY <2>1, <2>3 DEF Consume
  <2>4. CASE Rollover
    BY <2>1, <2>4 DEF Rollover
  <2>5. CASE EarlyRollover
    BY <2>1, <2>5 DEF EarlyRollover
  <2>6. CASE ShiftWindow
    BY <2>1, <2>6 DEF ShiftWindow
  <2> QED BY <2>2, <2>3, <2>4, <2>5, <2>6 DEF Upstream
<1>2. UNCHANGED <<limit, flag, enabled, groups, form, observation, lastHandled,
                  pendingEvent, redistribution, capacity, pc, mem, wiped, added, departed,
                  granted, armed, edits, aborts>>
    BY DEF Upstream, Tick, Consume, Rollover, EarlyRollover, ShiftWindow,
           config, admin, account, history, resetState, moneyHistory
<1>3. TypeOK'
    BY <1>1, <1>2 DEF TypedTask, TypeOK
<1>4. TaskOK'
    BY <1>2 DEF TypedTask, TaskOK
<1> QED BY <1>3, <1>4 DEF TypedTask

LEMMA AdminTyped == TypedTask /\ Admin => TypedTask'
<1> SUFFICES ASSUME TypedTask, Admin PROVE TypedTask'
    OBVIOUS
<1>1. UNCHANGED <<now, quota, limit, observation, lastHandled, pendingEvent,
                  redistribution, capacity, pc, mem, wiped, granted, aborts>>
    BY DEF Admin, OpenForm, ReplaceConfig, upstream, config, account, history,
           resetState, moneyHistory
<1> DEFINE Typed == /\ flag \in BOOLEAN /\ enabled \in BOOLEAN /\ form \in BOOLEAN
                    /\ groups \in SUBSET Groups
                    /\ added \in [Groups -> Nat] /\ departed \in SUBSET Groups
                    /\ armed \in BOOLEAN /\ edits \in Nat
<1>2. Typed'
  <2>1. CASE OpenForm
    BY <2>1 DEF TypedTask, TypeOK, OpenForm, config, history, moneyHistory
  <2>2. ASSUME NEW f \in BOOLEAN, NEW e \in BOOLEAN,
               NEW gs \in SUBSET Groups \ {{}}, ReplaceConfig(f, e, gs)
        PROVE  Typed'
    BY <2>2 DEF TypedTask, TypeOK, ReplaceConfig
  <2> QED BY <2>1, <2>2 DEF Admin
<1>3. TypeOK'
    BY <1>1, <1>2 DEF TypedTask, TypeOK
<1>4. TaskOK'
    BY <1>1 DEF TypedTask, TaskOK
<1> QED BY <1>3, <1>4 DEF TypedTask

LEMMA StartTyped == TypedTask /\ (StartReset \/ StartCapacity) => TypedTask'
<1> SUFFICES ASSUME TypedTask, StartReset \/ StartCapacity PROVE TypedTask'
    OBVIOUS
<1>1. UNCHANGED <<now, quota, limit, flag, enabled, groups, form, observation,
                  lastHandled, pendingEvent, redistribution, capacity, wiped,
                  added, departed, granted, armed, edits, aborts>>
    BY DEF StartReset, StartCapacity, StartTask, upstream, config, admin,
           resetState, history, moneyHistory
<1>2. mem' = [NoMemory EXCEPT !.flag = flag, !.groups = groups]
    BY DEF StartReset, StartCapacity, StartTask
<1>3. \/ pc' = "disable" /\ pendingEvent # None
      \/ pc' = "observe" /\ pendingEvent = None
      \/ pc' = "sample"
    BY DEF StartReset, StartCapacity, StartTask
<1>4. mem' \in Memory /\ mem'.todo = {}
    BY <1>2 DEF TypedTask, TypeOK, Memory, NoMemory
<1>5. TypeOK'
    BY <1>1, <1>3, <1>4 DEF TypedTask, TypeOK, ResetSteps, CapacitySteps
<1>6. TaskOK'
    BY <1>1, <1>3, <1>4 DEF TaskOK, ResetSteps, CapacitySteps
<1> QED BY <1>5, <1>6 DEF TypedTask

\* A task that ends leaves nothing to type but what it stored.
LEMMA IdleTyped ==
    ASSUME pc' = "idle", mem' = NoMemory
    PROVE  TaskOK' /\ mem' \in Memory
BY DEF TaskOK, ResetSteps, CapacitySteps, NoMemory, Memory

LEMMA AbortTyped == TypedTask /\ Abort => TypedTask'
<1> SUFFICES ASSUME TypedTask, Abort PROVE TypedTask'
    OBVIOUS
<1>1. UNCHANGED <<now, quota, limit, flag, enabled, groups, form, observation,
                  lastHandled, pendingEvent, redistribution, capacity, wiped,
                  added, departed, granted, armed, edits>>
    BY DEF Abort, upstream, config, admin, resetState, history, moneyHistory
<1>2. pc' = "idle" /\ mem' = NoMemory /\ aborts' = aborts + 1
    BY DEF Abort
<1>3. TypeOK'
    BY <1>1, <1>2, IdleTyped DEF TypedTask, TypeOK
<1> QED BY <1>2, <1>3, IdleTyped DEF TypedTask

----------------------------------------------------------------------------
(* The steps of the reset job.                                              *)

LEMMA KeepObservationTyped ==
    ASSUME TypedTask, NEW o \in ObserveQuota, KeepObservation(o)
    PROVE  TypedTask'
<1>1. UNCHANGED <<now, quota, limit, flag, enabled, groups, form, lastHandled,
                  pendingEvent, redistribution, capacity, wiped, added, departed, granted,
                  armed, edits, aborts>>
    BY DEF KeepObservation, unchangedByReset, upstream
<1>2. observation' = o /\ pc' = "idle" /\ mem' = NoMemory
    BY DEF KeepObservation
<1>3. TypeOK'
    BY <1>1, <1>2, IdleTyped, ObservationTyped DEF TypedTask, TypeOK
<1> QED BY <1>2, <1>3, IdleTyped DEF TypedTask

LEMMA DetectTyped ==
    ASSUME TypedTask, NEW o \in ObserveQuota, DetectNewWindow(o)
    PROVE  TypedTask'
<1>1. UNCHANGED <<now, quota, limit, flag, enabled, groups, form, observation,
                  lastHandled, pendingEvent, redistribution, capacity, wiped,
                  added, departed, granted, armed, edits, aborts>>
    BY DEF DetectNewWindow, unchangedByReset, upstream, resetState
<1>2. pc = "observe" /\ pc' = "detected" /\ mem' = [mem EXCEPT !.seen = o]
    BY DEF DetectNewWindow
<1>3. mem' \in Memory /\ mem'.seen \in Observation
    BY <1>2, ObservationTyped DEF TypedTask, TypeOK, Memory
<1>4. TypeOK'
    BY <1>1, <1>2, <1>3 DEF TypedTask, TypeOK, ResetSteps
<1>5. TaskOK'
    BY <1>1, <1>2, <1>3, NoneIsNoRecord DEF TypedTask, TaskOK, ResetSteps, CapacitySteps
<1> QED BY <1>4, <1>5 DEF TypedTask

LEMMA PersistEventTyped ==
    ASSUME TypedTask, NEW subs \in SUBSET Subs, PersistEvent(subs)
    PROVE  TypedTask'
<1>1. UNCHANGED <<now, quota, limit, flag, enabled, groups, form, observation,
                  lastHandled, redistribution, capacity, mem, wiped, added, departed,
                  granted, edits, aborts>>
    BY DEF PersistEvent, unchangedByReset, upstream
<1>2. /\ pc = "detected" /\ pc' = "disable" /\ armed' = FALSE
      /\ pendingEvent' = [observation |-> mem.seen, targets |-> subs,
                          completed |-> {}, restore |-> RestorePlan]
    BY DEF PersistEvent
<1>3. mem.seen \in Observation
    BY <1>2 DEF TypedTask, TypeOK, TaskOK, Memory
<1>4. RestorePlan \in Restore \cup {None}
    BY DEF RestorePlan, Restore, TypedTask, TypeOK, Ledger, Memory
<1>5. pendingEvent' \in PendingEvent
    BY <1>2, <1>3, <1>4 DEF PendingEvent
<1>6. TypeOK'
    BY <1>1, <1>2, <1>5 DEF TypedTask, TypeOK, ResetSteps
<1>7. TaskOK'
    BY <1>2, <1>5, NoneIsNoRecord DEF TaskOK, ResetSteps, CapacitySteps
<1> QED BY <1>6, <1>7 DEF TypedTask

LEMMA DisableTyped ==
    ASSUME TypedTask, DisableRedistributionForReset
    PROVE  TypedTask'
<1>1. UNCHANGED <<now, quota, limit, enabled, groups, form, observation,
                  lastHandled, pendingEvent, redistribution, capacity, wiped,
                  added, departed, granted, armed, edits, aborts>>
    BY DEF DisableRedistributionForReset, unchangedByReset, upstream, resetState
<1>2. /\ pc = "disable" /\ pc' = "restore" /\ flag' = FALSE
      /\ mem' = [mem EXCEPT !.resumed = mem.seen = None,
                            !.todo = IF pendingEvent.restore = None THEN {}
                                     ELSE pendingEvent.restore.groups]
    BY DEF DisableRedistributionForReset
<1>3. pendingEvent \in PendingEvent
    BY <1>2 DEF TypedTask, TypeOK, TaskOK, ResetSteps
<1>4. mem' \in Memory /\ (mem'.todo # {} => pendingEvent.restore # None)
    BY <1>2, <1>3 DEF TypedTask, TypeOK, Memory, PendingEvent, Restore
<1>5. TypeOK'
    BY <1>1, <1>2, <1>4 DEF TypedTask, TypeOK, ResetSteps
<1>6. TaskOK'
    BY <1>1, <1>2, <1>3, <1>4, NoneIsNoRecord DEF TaskOK, ResetSteps, CapacitySteps
<1> QED BY <1>5, <1>6 DEF TypedTask

LEMMA CheckGroupTyped ==
    ASSUME TypedTask, NEW g \in Groups, CheckGroup(g)
    PROVE  TypedTask'
<1>1. UNCHANGED <<now, quota, limit, flag, enabled, groups, form, observation,
                  lastHandled, pendingEvent, redistribution, capacity, wiped,
                  added, departed, granted, armed, edits, aborts>>
    BY DEF CheckGroup, unchangedByReset, upstream, resetState
<1>2. /\ pc = "restore" /\ pc' \in {"restore", "restoreGroup"}
      /\ mem' = mem \/ mem' = [mem EXCEPT !.todo = @ \ {g}]
      /\ mem.todo # {}
    BY DEF CheckGroup, IsFirst
<1>3. mem' \in Memory
    BY <1>2 DEF TypedTask, TypeOK, Memory
<1>4. TypeOK'
    BY <1>1, <1>2, <1>3 DEF TypedTask, TypeOK, ResetSteps
<1>5. TaskOK'
    BY <1>1, <1>2 DEF TypedTask, TaskOK, ResetSteps, CapacitySteps
<1> QED BY <1>4, <1>5 DEF TypedTask

LEMMA RestoreGroupTyped ==
    ASSUME TypedTask, NEW g \in Groups, RestoreGroup(g)
    PROVE  TypedTask'
<1>1. UNCHANGED <<now, quota, flag, enabled, groups, form, observation,
                  lastHandled, pendingEvent, redistribution, capacity, wiped,
                  granted, armed, edits, aborts>>
    BY DEF RestoreGroup, unchangedByReset, upstream, resetState
<1>2. /\ pc = "restoreGroup" /\ pc' = "restore"
      /\ limit' = [limit EXCEPT ![g] = pendingEvent.restore.limit]
      /\ added' = [added EXCEPT ![g] = 0] /\ departed' = departed \ {g}
      /\ mem' = [mem EXCEPT !.todo = @ \ {g}]
      /\ mem.todo # {}
    BY DEF RestoreGroup, BackToBase, IsFirst
<1>3. pendingEvent \in PendingEvent /\ pendingEvent.restore \in Restore
    BY <1>2 DEF TypedTask, TypeOK, TaskOK, ResetSteps, PendingEvent
<1>4. /\ mem' \in Memory /\ limit' \in [Groups -> Nat]
      /\ added' \in [Groups -> Nat] /\ departed' \in SUBSET Groups
    BY <1>2, <1>3 DEF TypedTask, TypeOK, Memory, Restore
<1>5. TypeOK'
    BY <1>1, <1>2, <1>4 DEF TypedTask, TypeOK, ResetSteps
<1>6. TaskOK'
    BY <1>1, <1>2 DEF TypedTask, TaskOK, ResetSteps, CapacitySteps
<1> QED BY <1>5, <1>6 DEF TypedTask

LEMMA GroupsRestoredTyped == TypedTask /\ GroupsRestored => TypedTask'
<1> SUFFICES ASSUME TypedTask, GroupsRestored PROVE TypedTask'
    OBVIOUS
<1>1. UNCHANGED <<now, quota, limit, flag, enabled, groups, form, observation,
                  lastHandled, pendingEvent, redistribution, capacity, mem,
                  wiped, added, departed, granted, armed, edits, aborts>>
    BY DEF GroupsRestored, unchangedByReset, upstream, resetState
<1>2. pc = "restore" /\ pc' = "wipe"
    BY DEF GroupsRestored
<1>3. TypeOK'
    BY <1>1, <1>2 DEF TypedTask, TypeOK, ResetSteps
<1>4. TaskOK'
    BY <1>1, <1>2 DEF TypedTask, TaskOK, ResetSteps, CapacitySteps
<1> QED BY <1>3, <1>4 DEF TypedTask

LEMMA WipeTyped ==
    ASSUME TypedTask, NEW s \in Subs, ResetSubscriptionWeekly(s)
    PROVE  TypedTask'
<1>1. UNCHANGED <<now, quota, limit, flag, enabled, groups, form, observation,
                  lastHandled, pendingEvent, redistribution, capacity, mem,
                  added, departed, granted, armed, edits, aborts>>
    BY DEF ResetSubscriptionWeekly, unchangedByReset, upstream, resetState
<1>2. /\ pc = "wipe" /\ pc' = "recordWipe"
      /\ wiped' = [wiped EXCEPT ![s] = pendingEvent.observation.cycle]
    BY DEF ResetSubscriptionWeekly
<1>3. pendingEvent \in PendingEvent
    BY <1>2 DEF TypedTask, TypeOK, TaskOK, ResetSteps
<1>4. wiped' \in [Subs -> Int]
    BY <1>2, <1>3, Bounds DEF TypedTask, TypeOK, PendingEvent, Observation
<1>5. TypeOK'
    BY <1>1, <1>2, <1>4 DEF TypedTask, TypeOK, ResetSteps
<1>6. TaskOK'
    BY <1>1, <1>2 DEF TypedTask, TaskOK, ResetSteps, CapacitySteps
<1> QED BY <1>5, <1>6 DEF TypedTask

LEMMA RecordProgressTyped ==
    ASSUME TypedTask, NEW s \in Subs, RecordProgress(s)
    PROVE  TypedTask'
<1>1. UNCHANGED <<now, quota, limit, flag, enabled, groups, form, observation,
                  lastHandled, redistribution, capacity, mem, wiped, added, departed,
                  granted, armed, edits, aborts>>
    BY DEF RecordProgress, unchangedByReset, upstream
<1>2. /\ pc = "recordWipe" /\ pc' = "wipe"
      /\ pendingEvent' = [pendingEvent EXCEPT !.completed = @ \cup {s}]
    BY DEF RecordProgress
<1>3. pendingEvent \in PendingEvent
    BY <1>2 DEF TypedTask, TypeOK, TaskOK, ResetSteps
<1>4. pendingEvent' \in PendingEvent
    BY <1>2, <1>3 DEF PendingEvent
<1>5. TypeOK'
    BY <1>1, <1>2, <1>4 DEF TypedTask, TypeOK, ResetSteps
<1>6. TaskOK'
    BY <1>1, <1>2, <1>4, NoneIsNoRecord DEF TaskOK, ResetSteps, CapacitySteps
<1> QED BY <1>5, <1>6 DEF TypedTask

\* The ledger of a window just begun.
LEMMA FreshTyped ==
    ASSUME NEW o \in Observation
    PROVE  FreshRedistribution(o) \in Ledger
BY DEF FreshRedistribution, Ledger

LEMMA CompleteResetTyped == TypedTask /\ CompleteReset => TypedTask'
<1> SUFFICES ASSUME TypedTask, CompleteReset PROVE TypedTask'
    OBVIOUS
<1>1. UNCHANGED <<now, quota, limit, flag, enabled, groups, form, capacity,
                  wiped, added, departed, granted, armed, edits, aborts>>
    BY DEF CompleteReset, unchangedByReset, upstream
<1>2. /\ pc = "wipe" /\ pendingEvent' = None
      /\ observation' = pendingEvent.observation
      /\ lastHandled' = pendingEvent.observation
      /\ redistribution' = IF redistribution = None THEN None
                           ELSE FreshRedistribution(pendingEvent.observation)
      /\ \/ pc' = "observe" /\ mem' = mem
         \/ pc' = "idle" /\ mem' = NoMemory
    BY DEF CompleteReset
<1>3. pendingEvent.observation \in Observation
    BY <1>2 DEF TypedTask, TypeOK, TaskOK, ResetSteps, PendingEvent
<1>4. redistribution' \in Ledger \cup {None}
    BY <1>2, <1>3, FreshTyped
<1>5. mem' \in Memory
    BY <1>2, IdleTyped DEF TypedTask, TypeOK
<1>6. TypeOK'
    BY <1>1, <1>2, <1>3, <1>4, <1>5 DEF TypedTask, TypeOK, ResetSteps
<1>7. TaskOK'
    BY <1>2, IdleTyped DEF TaskOK, ResetSteps, CapacitySteps
<1> QED BY <1>6, <1>7 DEF TypedTask

LEMMA ResetStepTyped == TypedTask /\ ResetStep => TypedTask'
BY KeepObservationTyped, DetectTyped, PersistEventTyped, DisableTyped,
   CheckGroupTyped, RestoreGroupTyped, GroupsRestoredTyped, WipeTyped,
   RecordProgressTyped, CompleteResetTyped DEF ResetStep

\* No step of the job moves the upstream window or hands anything out.
LEMMA ResetFrame ==
    ASSUME ResetStep
    PROVE  UNCHANGED <<now, quota, granted>>
<1>1. unchangedByReset' = unchangedByReset
    BY DEF ResetStep, KeepObservation, DetectNewWindow, PersistEvent,
           DisableRedistributionForReset, CheckGroup, RestoreGroup, GroupsRestored,
           ResetSubscriptionWeekly, RecordProgress, CompleteReset
<1> QED BY <1>1 DEF unchangedByReset, upstream

----------------------------------------------------------------------------
(* The steps of the capacity job.                                           *)

\* What every step of the capacity job leaves alone.
LEMMA CapacityFrame ==
    ASSUME unchangedByCapacity' = unchangedByCapacity
    PROVE  UNCHANGED <<now, quota, flag, enabled, groups, form, observation,
                       lastHandled, pendingEvent, wiped, armed, edits, aborts>>
BY DEF unchangedByCapacity, upstream, config, admin, resetState

\* Such a step keeps the invariant if it types what it may change.
LEMMA CapacityTyped ==
    ASSUME TypedTask,
           unchangedByCapacity' = unchangedByCapacity,
           limit' \in [Groups -> Nat], added' \in [Groups -> Nat],
           departed' \in SUBSET Groups,
           granted' \in [0..MaxCycle -> Nat],
           redistribution' \in Ledger \cup {None},
           capacity' \in Capacity \cup {None},
           pc' \in {"idle"} \cup CapacitySteps,
           mem' \in Memory, TaskOK'
    PROVE  TypedTask'
<1>1. TypeOK'
    BY CapacityFrame DEF TypedTask, TypeOK
<1> QED BY <1>1 DEF TypedTask

LEMMA SampleTyped ==
    ASSUME TypedTask, NEW o \in ObserveQuota, Sample(o)
    PROVE  TypedTask'
<1>1. /\ pc = "sample" /\ pc' = "writeGroups"
      /\ UNCHANGED <<limit, redistribution, added, departed, granted>>
      /\ unchangedByCapacity' = unchangedByCapacity
    BY DEF Sample, moneyHistory
<1>2. mem \in Memory /\ mem.todo = {}
    BY <1>1 DEF TypedTask, TypeOK, TaskOK
<1>3. PreviousEstimate(o) \in Nets \cup {None}
    BY DEF PreviousEstimate, CapacityOf, TypedTask, TypeOK, Capacity
<1>4. PICK net \in Nets \cup {None}, todo \in SUBSET Groups :
        /\ mem' = [mem EXCEPT !.seen = o, !.net = net, !.todo = todo]
        /\ todo = {} \/ net \in Nets
        /\ capacity' = capacity \/ (net \in Nets /\ RecordCycle(o, net))
  <2>1. CASE /\ mem' = [mem EXCEPT !.seen = o, !.net = PreviousEstimate(o)]
             /\ UNCHANGED capacity
    <3>1. mem' = [mem EXCEPT !.seen = o, !.net = PreviousEstimate(o), !.todo = {}]
        BY <1>2, <2>1 DEF Memory
    <3> QED BY <1>3, <2>1, <3>1
  <2>2. CASE \E net \in Nets :
                /\ mem' = [mem EXCEPT !.seen = o, !.net = net, !.todo = mem.groups]
                /\ RecordCycle(o, net)
    BY <1>2, <2>2 DEF Memory
  <2> QED BY <2>1, <2>2 DEF Sample
<1>5. mem' \in Memory /\ mem'.seen = o /\ mem'.net = net /\ mem'.todo = todo
    BY <1>2, <1>4, ObservationTyped DEF TypedTask, Memory
<1>6. TaskOK'
    BY <1>1, <1>4, <1>5, NoneIsNoRecord, ObservationTyped
    DEF TypedTask, TaskOK, ResetSteps, CapacitySteps
<1>7. pc' \in {"idle"} \cup CapacitySteps
    BY <1>1 DEF CapacitySteps
<1>8. capacity' \in Capacity \cup {None}
    BY <1>4 DEF RecordCycle, CapacityOf, TypedTask, TypeOK, Capacity
<1> QED BY <1>1, <1>5, <1>6, <1>7, <1>8, CapacityTyped DEF TypedTask, TypeOK

\* A ledger that is there is a ledger.
LEMMA LedgerOfWindowTyped ==
    ASSUME TypedTask, NEW o
    PROVE  LedgerOfWindow(o) \in Ledger \cup {None}
BY DEF LedgerOfWindow, TypedTask, TypeOK

LEMMA TargetTyped ==
    ASSUME TypedTask, NEW g \in Groups, mem.net \in Nets
    PROVE  TargetLimit(g) \in Nat
<1>1. PerShare(mem.net) \in Nat
    BY PerShareIsAmount, AmountsAreCents
<1>2. Floor(g) \in Nat
    BY LedgerOfWindowTyped DEF Floor, Ledger
<1> QED BY <1>1, <1>2 DEF TargetLimit

LEMMA SkipGroupTyped ==
    ASSUME TypedTask, NEW g \in Groups, SkipGroup(g)
    PROVE  TypedTask'
<1>1. /\ pc = "writeGroups" /\ pc' = pc
      /\ UNCHANGED <<limit, redistribution, capacity, added, departed, granted>>
      /\ unchangedByCapacity' = unchangedByCapacity
      /\ mem' = [mem EXCEPT !.todo = @ \ {g}]
      /\ mem.todo # {}
    BY DEF SkipGroup, moneyHistory, IsFirst
<1>2. mem' \in Memory
    BY <1>1 DEF TypedTask, TypeOK, Memory
<1>3. TaskOK'
    BY <1>1 DEF TypedTask, TypeOK, Memory, TaskOK, ResetSteps, CapacitySteps
<1>4. pc' \in {"idle"} \cup CapacitySteps
    BY <1>1 DEF CapacitySteps
<1> QED BY <1>1, <1>2, <1>3, <1>4, CapacityTyped DEF TypedTask, TypeOK

LEMMA WriteGroupTyped ==
    ASSUME TypedTask, NEW g \in Groups, WriteGroup(g)
    PROVE  TypedTask'
<1>1. UNCHANGED <<now, quota, flag, enabled, groups, form, observation,
                  lastHandled, pendingEvent, redistribution, capacity, pc, wiped,
                  granted, armed, edits>>
    BY DEF WriteGroup, upstream, config, admin, resetState
<1>2. /\ pc = "writeGroups" /\ mem.todo # {}
      /\ aborts' \in {aborts, aborts + 1}
      /\ limit' \in {limit, [limit EXCEPT ![g] = TargetLimit(g)]}
      /\ added' \in {added, [added EXCEPT ![g] = 0]}
      /\ departed' \in {departed, departed \ {g}}
    BY DEF WriteGroup, BackToBase, IsFirst
<1>3. mem.net \in Nets
    BY <1>2 DEF TypedTask, TypeOK, TaskOK, Memory
<1>4. mem' \in Memory /\ mem'.seen = mem.seen /\ mem'.net = mem.net
  <2>1. PICK failed \in BOOLEAN :
            mem' = [mem EXCEPT !.todo = mem.todo \ {g}, !.failed = failed]
    <3>1. PICK answered \in BOOLEAN :
            mem' = [mem EXCEPT !.todo = @ \ {g}, !.failed = @ \/ ~answered]
        BY DEF WriteGroup
    <3>2. (mem.failed \/ ~answered) \in BOOLEAN
        OBVIOUS
    <3> QED BY <3>1, <3>2
  <2>2. mem \in Memory
    BY DEF TypedTask, TypeOK
  <2> QED BY <2>1, <2>2 DEF Memory
<1>5. /\ limit' \in [Groups -> Nat] /\ added' \in [Groups -> Nat]
      /\ departed' \in SUBSET Groups /\ aborts' \in Nat
  <2>1. TargetLimit(g) \in Nat
    BY <1>3, TargetTyped
  <2>2. limit \in [Groups -> Nat] /\ added \in [Groups -> Nat] /\ aborts \in Nat
    BY DEF TypedTask, TypeOK
  <2>3. limit' \in [Groups -> Nat]
    BY <1>2, <2>1, <2>2
  <2>4. added' \in [Groups -> Nat]
    BY <1>2, <2>2
  <2>5. departed' \in SUBSET Groups
    BY <1>2 DEF TypedTask, TypeOK
  <2> QED BY <1>2, <2>2, <2>3, <2>4, <2>5
<1>6. TypeOK'
    BY <1>1, <1>4, <1>5 DEF TypedTask, TypeOK
<1>7. TaskOK'
    BY <1>1, <1>2, <1>3, <1>4, NoneIsNoRecord
    DEF TypedTask, TaskOK, ResetSteps, CapacitySteps
<1> QED BY <1>6, <1>7 DEF TypedTask

LEMMA SaveCapacityTyped == TypedTask /\ SaveCapacity => TypedTask'
<1> SUFFICES ASSUME TypedTask, SaveCapacity PROVE TypedTask'
    OBVIOUS
<1>1. /\ pc = "writeGroups"
      /\ UNCHANGED <<limit, redistribution, added, departed, granted>>
      /\ unchangedByCapacity' = unchangedByCapacity
      /\ \/ pc' = "idle" /\ mem' = NoMemory
         \/ pc' = "redistribute" /\ mem' = mem
    BY DEF SaveCapacity, moneyHistory
<1>2. mem.seen \in Observation /\ mem.net \in Nets \cup {None}
    BY <1>1 DEF TypedTask, TypeOK, TaskOK, Memory, CapacitySteps
<1>3. capacity' \in Capacity \cup {None}
    BY <1>2 DEF SaveCapacity, CapacityOf, TypedTask, TypeOK, Capacity
<1>4. mem' \in Memory
    BY <1>1, IdleTyped DEF TypedTask, TypeOK
<1>5. TaskOK'
    BY <1>1, <1>2, IdleTyped, NoneIsNoRecord DEF TaskOK, ResetSteps, CapacitySteps
<1>6. pc' \in {"idle"} \cup CapacitySteps
    BY <1>1 DEF CapacitySteps
<1> QED BY <1>1, <1>3, <1>4, <1>5, <1>6, CapacityTyped DEF TypedTask, TypeOK

\* A step that ends the run and changes nothing but the ledger.
LEMMA EndOfRunTyped ==
    ASSUME TypedTask,
           unchangedByCapacity' = unchangedByCapacity,
           UNCHANGED <<limit, capacity, moneyHistory>>,
           redistribution' \in Ledger \cup {None},
           pc' = "idle", mem' = NoMemory
    PROVE  TypedTask'
<1>1. UNCHANGED <<limit, capacity, added, departed, granted>>
    BY DEF moneyHistory
<1>2. TaskOK' /\ mem' \in Memory
    BY IdleTyped DEF TaskOK, ResetSteps, CapacitySteps
<1> QED BY <1>1, <1>2, CapacityTyped DEF TypedTask, TypeOK

\* The ledger a run works on, and the same ledger with the run's base limit.
LEMMA WorkingTyped ==
    ASSUME TypedTask, pc = "redistribute"
    PROVE  /\ Working \in Ledger
           /\ mem.net # None => Based \in Ledger
<1>1. mem.seen \in Observation /\ mem.net \in Nets \cup {None}
    BY DEF TypedTask, TypeOK, TaskOK, Memory, CapacitySteps
<1>2. Working \in Ledger
    BY <1>1, FreshTyped DEF Working, TypedTask, TypeOK
<1>3. mem.net # None => PerShare(mem.net) \in Nat
    BY <1>1, PerShareIsAmount, AmountsAreCents
<1> QED BY <1>2, <1>3 DEF Based, Ledger

LEMMA NoLedgerTyped == TypedTask /\ NoLedger => TypedTask'
BY EndOfRunTyped DEF NoLedger

LEMMA KeepLedgerTyped == TypedTask /\ KeepLedger => TypedTask'
BY EndOfRunTyped, WorkingTyped DEF KeepLedger

LEMMA RebaseLedgerTyped ==
    ASSUME TypedTask, NEW members \in BOOLEAN, RebaseLedger(members)
    PROVE  TypedTask'
BY EndOfRunTyped, WorkingTyped DEF RebaseLedger, HasEstimate

\* What a run may hand out is an amount, and so is a member's share of it.
LEMMA AllocationTyped ==
    ASSUME TypedTask, pc = "redistribute", mem.net # None
    PROVE  /\ AllocationBase \in Nat
           /\ Unallocated \div ShareCount \in Nat
<1>1. mem.seen.used \in Nat /\ mem.net \in Nat
    BY AmountsAreCents
    DEF TypedTask, TypeOK, TaskOK, Memory, CapacitySteps, Observation
<1>2. StandardCost(mem.seen) \in Nat
    BY <1>1, AmountsAreCents DEF StandardCost
<1>3. Working.committed \in Nat
    BY WorkingTyped DEF Ledger
<1>4. AllocationBase \in Nat
    BY <1>2, <1>3, LargerIsOne DEF AllocationBase
<1>5. Unallocated \in Nat
    BY <1>1, <1>4 DEF Unallocated, CentsDown, Larger
<1>6. ASSUME NEW a \in Nat, NEW b \in Nat \ {0} PROVE a \div b \in Nat
    BY <1>6
<1> QED BY <1>4, <1>5, <1>6, AmountsAreCents

LEMMA StartRoundTyped ==
    ASSUME TypedTask, NEW members \in BOOLEAN, StartRound(members)
    PROVE  TypedTask'
<1> DEFINE perShare == Unallocated \div ShareCount
           targets  == [g \in Groups |-> IF g \in mem.groups
                                         THEN limit[g] + perShare ELSE 0]
           round    == [perShare  |-> perShare,
                        targets   |-> targets,
                        committed |-> AllocationBase + perShare * ShareCount,
                        completed |-> {}]
<1>1. /\ pc = "redistribute" /\ pc' = "round" /\ mem' = mem
      /\ UNCHANGED <<limit, capacity, added, departed>>
      /\ unchangedByCapacity' = unchangedByCapacity
      /\ mem.net # None
      /\ redistribution' = [Based EXCEPT !.pending = round]
      /\ granted' = [granted EXCEPT ![mem.seen.cycle] = @ + perShare * ShareCount]
    BY DEF StartRound, HasEstimate
<1>2. perShare \in Nat /\ AllocationBase \in Nat
    BY <1>1, AllocationTyped
<1>3. perShare * ShareCount \in Nat
    BY <1>2, AmountsAreCents
<1>4. targets \in [Groups -> Nat]
    BY <1>2 DEF TypedTask, TypeOK
<1> HIDE DEF perShare, targets
<1>5. round \in Round
    BY <1>2, <1>3, <1>4 DEF Round
<1>6. redistribution' \in Ledger /\ redistribution'.pending = round
    BY <1>1, <1>5, WorkingTyped DEF Ledger
<1>7. granted' \in [0..MaxCycle -> Nat]
  <2>1. granted \in [0..MaxCycle -> Nat]
    BY DEF TypedTask, TypeOK
  <2>2. \A c \in 0..MaxCycle : granted[c] + perShare * ShareCount \in Nat
    BY <1>3, <2>1
  <2> QED BY <1>1, <2>1, <2>2
<1>8. TaskOK'
    BY <1>1, <1>5, <1>6, NoneIsNoRecord
    DEF TypedTask, TaskOK, ResetSteps, CapacitySteps
<1>9. mem' \in Memory /\ pc' \in {"idle"} \cup CapacitySteps
    BY <1>1 DEF TypedTask, TypeOK, CapacitySteps
<1> QED BY <1>1, <1>6, <1>7, <1>8, <1>9, CapacityTyped DEF TypedTask, TypeOK

LEMMA ResumeRoundTyped ==
    ASSUME TypedTask, NEW members \in BOOLEAN, ResumeRound(members)
    PROVE  TypedTask'
<1>1. /\ pc = "redistribute" /\ pc' = "round" /\ mem' = mem
      /\ UNCHANGED <<limit, redistribution, capacity, added, departed, granted>>
      /\ unchangedByCapacity' = unchangedByCapacity
      /\ HasEstimate /\ ResetReady /\ Working.pending # None
    BY DEF ResumeRound, moneyHistory, HasEstimate
<1>2. redistribution # None /\ redistribution.pending # None
    BY <1>1 DEF Working, FreshRedistribution
<1>3. TaskOK'
    BY <1>1, <1>2 DEF TypedTask, TaskOK, ResetSteps, CapacitySteps, HasEstimate
<1>4. pc' \in {"idle"} \cup CapacitySteps
    BY <1>1 DEF CapacitySteps
<1> QED BY <1>1, <1>3, <1>4, CapacityTyped DEF TypedTask, TypeOK

\* In a round the ledger has a pending round, and the base limit is known.
LEMMA RoundTyped ==
    ASSUME TypedTask, pc \in {"round", "record"}
    PROVE  /\ redistribution \in Ledger /\ Rebased \in Ledger
           /\ pending \in Round /\ Rebased.pending = pending
<1>1. redistribution \in Ledger /\ pending \in Round /\ mem.net \in Nets
    BY DEF TypedTask, TypeOK, TaskOK, Memory, Ledger, pending
<1>2. PerShare(mem.net) \in Nat
    BY <1>1, PerShareIsAmount, AmountsAreCents
<1> QED BY <1>1, <1>2 DEF Rebased, Ledger, pending

LEMMA LeaveRoundTyped ==
    ASSUME TypedTask, NEW g \in Groups, LeaveRound(g)
    PROVE  TypedTask'
BY EndOfRunTyped, RoundTyped DEF LeaveRound, NextTarget

\* A step of a round that leaves the round open.
LEMMA OpenRoundTyped ==
    ASSUME TypedTask, pc \in {"round", "record"}, pc' \in {"round", "record"},
           unchangedByCapacity' = unchangedByCapacity,
           limit' \in [Groups -> Nat], added' \in [Groups -> Nat],
           UNCHANGED <<capacity, mem, departed, granted>>,
           redistribution' \in Ledger, redistribution'.pending # None
    PROVE  TypedTask'
<1>1. TaskOK'
    BY NoneIsNoRecord DEF TypedTask, TaskOK, ResetSteps, CapacitySteps
<1>2. pc' \in {"idle"} \cup CapacitySteps
    BY DEF CapacitySteps
<1> QED BY <1>1, <1>2, CapacityTyped DEF TypedTask, TypeOK

\* The ledger after a group was taken off the round, and its limit recorded.
LEMMA CompletedTyped ==
    ASSUME TypedTask, pc \in {"round", "record"}, NEW g \in Groups,
           NEW l \in [Groups -> Nat],
           redistribution' = [Rebased EXCEPT !.limits = l,
                                 !.pending.completed = @ \cup {g}]
    PROVE  redistribution' \in Ledger /\ redistribution'.pending # None
<1> DEFINE r == [pending EXCEPT !.completed = @ \cup {g}]
<1>1. Rebased \in Ledger /\ pending \in Round /\ Rebased.pending = pending
    BY RoundTyped
<1>2. r \in Round
    BY <1>1 DEF Round
<1>3. redistribution' = [Rebased EXCEPT !.limits = l, !.pending = r]
    BY <1>1 DEF Ledger
<1>4. r # None
    BY <1>2, NoneIsNoRecord
<1> HIDE DEF r
<1>5. redistribution' \in Ledger
    BY <1>1, <1>2, <1>3 DEF Ledger
<1>6. redistribution'.pending = r
    BY <1>1, <1>3 DEF Ledger
<1> QED BY <1>4, <1>5, <1>6

LEMMA DropTargetTyped ==
    ASSUME TypedTask, NEW g \in Groups, DropTarget(g)
    PROVE  TypedTask'
<1>1. /\ pc = "round" /\ pc' = pc
      /\ UNCHANGED <<limit, capacity, mem, added, departed, granted>>
      /\ unchangedByCapacity' = unchangedByCapacity
      /\ redistribution' = [Rebased EXCEPT !.pending.completed = @ \cup {g}]
    BY DEF DropTarget, NextTarget, moneyHistory
<1>2. Rebased \in Ledger
    BY <1>1, RoundTyped
<1>3. redistribution' = [Rebased EXCEPT !.limits = Rebased.limits,
                                        !.pending.completed = @ \cup {g}]
    BY <1>1, <1>2 DEF Ledger
<1>4. Rebased.limits \in [Groups -> Nat]
    BY <1>2 DEF Ledger
<1>5. redistribution' \in Ledger /\ redistribution'.pending # None
    BY <1>1, <1>3, <1>4, CompletedTyped
<1> QED BY <1>1, <1>5, OpenRoundTyped DEF TypedTask, TypeOK

LEMMA RaiseTyped ==
    ASSUME TypedTask, pc = "round", NEW g \in Groups,
           limit[g] < pending.targets[g],
           RaiseLimit(g) \/ UNCHANGED <<limit, added>>
    PROVE  limit' \in [Groups -> Nat] /\ added' \in [Groups -> Nat]
<1>1. pending.targets[g] \in Nat /\ limit[g] \in Nat /\ added[g] \in Nat
    BY RoundTyped DEF Round, TypedTask, TypeOK
<1>2. added[g] + pending.targets[g] - limit[g] \in Nat
    BY <1>1
<1> QED BY <1>1, <1>2 DEF RaiseLimit, TypedTask, TypeOK

LEMMA WriteTargetTyped ==
    ASSUME TypedTask, NEW g \in Groups, WriteTarget(g)
    PROVE  TypedTask'
<1>1. /\ pc = "round" /\ pc' = "record"
      /\ UNCHANGED <<redistribution, capacity, mem, departed, granted>>
      /\ unchangedByCapacity' = unchangedByCapacity
      /\ limit[g] < pending.targets[g] /\ RaiseLimit(g)
    BY DEF WriteTarget, NextTarget
<1>2. limit' \in [Groups -> Nat] /\ added' \in [Groups -> Nat]
    BY <1>1, RaiseTyped
<1>3. redistribution' \in Ledger /\ redistribution'.pending # None
    BY <1>1, RoundTyped, NoneIsNoRecord DEF pending
<1>4. departed' \in SUBSET Groups
    BY <1>1 DEF TypedTask, TypeOK
<1> QED BY <1>1, <1>2, <1>3, <1>4, OpenRoundTyped

LEMMA FailTargetTyped ==
    ASSUME TypedTask, NEW g \in Groups, FailTarget(g)
    PROVE  TypedTask'
<1>1. /\ UNCHANGED <<now, quota, flag, enabled, groups, form, observation,
                     lastHandled, pendingEvent, wiped, armed, edits, capacity,
                     departed, granted>>
      /\ pc = "round" /\ pc' = "idle" /\ mem' = NoMemory
      /\ aborts' = aborts + 1
      /\ redistribution' = Rebased
      /\ limit[g] < pending.targets[g]
      /\ RaiseLimit(g) \/ UNCHANGED <<limit, added>>
    BY DEF FailTarget, NextTarget, upstream, config, admin, resetState
<1>2. limit' \in [Groups -> Nat] /\ added' \in [Groups -> Nat]
    BY <1>1, RaiseTyped
<1>3. redistribution' \in Ledger
    BY <1>1, RoundTyped
<1>4. TypeOK'
    BY <1>1, <1>2, <1>3, IdleTyped DEF TypedTask, TypeOK
<1>5. TaskOK'
    BY <1>1 DEF TaskOK, ResetSteps, CapacitySteps
<1> QED BY <1>4, <1>5 DEF TypedTask

LEMMA RecordTargetTyped ==
    ASSUME TypedTask, NEW g \in Groups, RecordTarget(g)
    PROVE  TypedTask'
<1> DEFINE recorded == Larger(pending.targets[g], limit[g])
           l == [Rebased.limits EXCEPT ![g] = recorded]
<1>1. /\ pc \in {"round", "record"} /\ pc' = "round"
      /\ UNCHANGED <<limit, capacity, mem, added, departed, granted>>
      /\ unchangedByCapacity' = unchangedByCapacity
      /\ redistribution' = [Rebased EXCEPT !.limits[g] = recorded,
                                           !.pending.completed = @ \cup {g}]
    BY DEF RecordTarget, moneyHistory
<1>2. Rebased \in Ledger /\ pending \in Round
    BY <1>1, RoundTyped
<1>3. recorded \in Nat
  <2>1. pending.targets[g] \in Nat
    BY <1>2 DEF Round
  <2>2. limit[g] \in Nat
    BY DEF TypedTask, TypeOK
  <2> QED BY <2>1, <2>2, LargerIsOne
<1>4. l \in [Groups -> Nat]
    BY <1>2, <1>3 DEF Ledger
<1>5. redistribution' = [Rebased EXCEPT !.limits = l,
                                        !.pending.completed = @ \cup {g}]
    BY <1>1, <1>2 DEF Ledger
<1> HIDE DEF l, recorded
<1>6. redistribution' \in Ledger /\ redistribution'.pending # None
    BY <1>1, <1>4, <1>5, CompletedTyped
<1> QED BY <1>1, <1>6, OpenRoundTyped DEF TypedTask, TypeOK

LEMMA FinishRoundTyped == TypedTask /\ FinishRound => TypedTask'
<1> SUFFICES ASSUME TypedTask, FinishRound PROVE TypedTask'
    OBVIOUS
<1>1. /\ pc = "round" /\ pc' = "idle" /\ mem' = NoMemory
      /\ UNCHANGED <<limit, capacity, moneyHistory>>
      /\ unchangedByCapacity' = unchangedByCapacity
      /\ redistribution' = [Rebased EXCEPT !.total = @ + pending.perShare,
                                           !.committed = pending.committed,
                                           !.pending = None]
    BY DEF FinishRound
<1>2. Rebased \in Ledger /\ pending.perShare \in Nat /\ pending.committed \in Nat
    BY <1>1, RoundTyped DEF Round
<1>3. Rebased.total \in Nat
    BY <1>2 DEF Ledger
<1>4. Rebased.total + pending.perShare \in Nat
    BY <1>2, <1>3
<1>5. redistribution' \in Ledger
    BY <1>1, <1>2, <1>4 DEF Ledger
<1> QED BY <1>1, <1>5, EndOfRunTyped

\* Writes that fail count as aborts; the rest is left alone by these steps too.
LEMMA CapacityKeeps ==
    ASSUME CapacityStep
    PROVE  UNCHANGED <<now, quota, flag, enabled, groups, armed, observation,
                       lastHandled, pendingEvent, wiped>>
<1>1. ASSUME unchangedByCapacity' = unchangedByCapacity
      PROVE  UNCHANGED <<upstream, config, admin, resetState, wiped>>
    BY <1>1 DEF unchangedByCapacity
<1>2. ASSUME NEW g \in Groups, WriteGroup(g) \/ FailTarget(g)
      PROVE  UNCHANGED <<upstream, config, admin, resetState, wiped>>
    BY <1>2 DEF WriteGroup, FailTarget
<1>3. \/ unchangedByCapacity' = unchangedByCapacity
      \/ \E g \in Groups : WriteGroup(g) \/ FailTarget(g)
    BY DEF CapacityStep, Sample, SkipGroup, SaveCapacity, NoLedger, KeepLedger,
           RebaseLedger, StartRound, ResumeRound, LeaveRound, DropTarget,
           WriteTarget, RecordTarget, FinishRound
<1>4. UNCHANGED <<upstream, config, admin, resetState, wiped>>
    BY <1>1, <1>2, <1>3
<1> QED BY <1>4 DEF upstream, config, admin, resetState

\* Where a step of the job leads.
LEMMA CapacityLeads ==
    ASSUME CapacityStep
    PROVE  pc' \in {"idle"} \cup (CapacitySteps \ {"sample"})
<1> USE DEF CapacitySteps
<1>1. CASE SaveCapacity \/ NoLedger \/ KeepLedger \/ FinishRound
           \/ \E o \in ObserveQuota : Sample(o)
    BY <1>1 DEF Sample, SaveCapacity, NoLedger, KeepLedger, FinishRound
<1>2. ASSUME NEW g \in Groups, SkipGroup(g) \/ WriteGroup(g)
      PROVE  pc' = "writeGroups"
    BY <1>2 DEF SkipGroup, WriteGroup
<1>3. ASSUME NEW members \in BOOLEAN,
             RebaseLedger(members) \/ StartRound(members) \/ ResumeRound(members)
      PROVE  pc' \in {"idle", "round"}
    BY <1>3 DEF RebaseLedger, StartRound, ResumeRound
<1>4. ASSUME NEW g \in Groups,
             \/ LeaveRound(g) \/ DropTarget(g) \/ WriteTarget(g)
             \/ FailTarget(g) \/ RecordTarget(g)
      PROVE  pc' \in {"idle", "round", "record"}
    BY <1>4 DEF LeaveRound, DropTarget, WriteTarget, FailTarget, RecordTarget,
       NextTarget
<1> QED BY <1>1, <1>2, <1>3, <1>4 DEF CapacityStep

LEMMA CapacityStepTyped == TypedTask /\ CapacityStep => TypedTask'
BY SampleTyped, SkipGroupTyped, WriteGroupTyped, SaveCapacityTyped,
   NoLedgerTyped, KeepLedgerTyped, RebaseLedgerTyped, StartRoundTyped,
   ResumeRoundTyped, LeaveRoundTyped, DropTargetTyped, WriteTargetTyped,
   FailTargetTyped, RecordTargetTyped, FinishRoundTyped DEF CapacityStep

LEMMA NextTyped == TypedTask /\ [Next]_vars => TypedTask'
<1>1. TypedTask /\ UNCHANGED vars => TypedTask'
    BY DEF vars, TypedTask, TypeOK, TaskOK
<1> QED BY <1>1, UpstreamTyped, AdminTyped, StartTyped, AbortTyped,
           ResetStepTyped, CapacityStepTyped DEF Next

LEMMA SpecTyped == Spec => []TypedTask
BY InitTyped, NextTyped, PTL DEF Spec

\* Every stored record is complete, every amount is at least zero, and a
\* resumed step finds the event, the base limit and the round it goes on with.
THEOREM TypeCorrect == Spec => []TypeOK
BY SpecTyped, PTL DEF TypedTask

----------------------------------------------------------------------------
(* Redistribution is turned off.  OffWhileResetting carries the argument    *)
(* over the steps between the one that turns it off and the one that closes *)
(* the event.                                                               *)

TurnedOff == RedistributionTurnedOff /\ OffWhileResetting

\* A step that leaves the flag and the event alone and does not enter the
\* part of the reset where redistribution is off.
LEMMA TurnedOffKept ==
    ASSUME TurnedOff, UNCHANGED <<flag, armed, pendingEvent>>,
           pc' = pc \/ pc' \notin {"restore", "restoreGroup", "wipe", "recordWipe"}
    PROVE  TurnedOff'
BY DEF TurnedOff, RedistributionTurnedOff, OffWhileResetting

LEMMA TurnedOffByReset == TypedTask /\ TurnedOff /\ ResetStep => TurnedOff'
<1> SUFFICES ASSUME TypedTask, TurnedOff, ResetStep PROVE TurnedOff'
    OBVIOUS
<1> USE DEF TurnedOff, RedistributionTurnedOff, OffWhileResetting
<1>1. ASSUME NEW o \in ObserveQuota, KeepObservation(o) \/ DetectNewWindow(o)
      PROVE  TurnedOff'
    BY <1>1 DEF KeepObservation, DetectNewWindow, resetState
<1>2. ASSUME NEW subscriptions \in SUBSET Subs, PersistEvent(subscriptions)
      PROVE  TurnedOff'
  <2>1. pendingEvent' # None
    BY <1>2, NoneIsNoRecord, PersistEventTyped DEF PersistEvent, TypedTask, TaskOK,
       ResetSteps
  <2> QED BY <1>2, <2>1 DEF PersistEvent
<1>3. CASE DisableRedistributionForReset
    BY <1>3 DEF DisableRedistributionForReset, resetState
<1>4. ASSUME NEW g \in Groups, CheckGroup(g) \/ RestoreGroup(g)
      PROVE  TurnedOff'
    BY <1>4 DEF CheckGroup, RestoreGroup, resetState
<1>5. CASE GroupsRestored
    BY <1>5 DEF GroupsRestored, resetState
<1>6. ASSUME NEW s \in Subs, ResetSubscriptionWeekly(s) \/ RecordProgress(s)
      PROVE  TurnedOff'
    BY <1>6 DEF ResetSubscriptionWeekly, RecordProgress, resetState
<1>7. CASE CompleteReset
    BY <1>7 DEF CompleteReset
<1> QED BY <1>1, <1>2, <1>3, <1>4, <1>5, <1>6, <1>7 DEF ResetStep

LEMMA TurnedOffByCapacity == TurnedOff /\ CapacityStep => TurnedOff'
<1> SUFFICES ASSUME TurnedOff, CapacityStep PROVE TurnedOff'
    OBVIOUS
<1>1. UNCHANGED <<flag, armed, pendingEvent>>
    BY CapacityKeeps
<1>2. pc' \notin {"restore", "restoreGroup", "wipe", "recordWipe"}
    BY CapacityLeads DEF CapacitySteps
<1> QED BY <1>1, <1>2, TurnedOffKept

LEMMA TurnedOffByNext ==
    ASSUME ~StaleForms
    PROVE  TypedTask /\ TurnedOff /\ [Next]_vars => TurnedOff'
<1> SUFFICES ASSUME TypedTask, TurnedOff, [Next]_vars PROVE TurnedOff'
    OBVIOUS
<1>1. CASE Upstream
  <2>1. UNCHANGED <<flag, armed, pendingEvent, pc>>
    BY <1>1 DEF Upstream, Tick, Consume, Rollover, EarlyRollover, ShiftWindow,
                config, admin, account, resetState
  <2> QED BY <2>1, TurnedOffKept
<1>2. CASE OpenForm
    BY <1>2, TurnedOffKept DEF OpenForm, config, account, resetState
<1>3. ASSUME NEW f \in BOOLEAN, NEW e \in BOOLEAN,
             NEW gs \in SUBSET Groups \ {{}}, ReplaceConfig(f, e, gs)
      PROVE  TurnedOff'
  <2>1. /\ pc' = pc /\ pendingEvent' = pendingEvent
        /\ form = flag /\ flag' = f
        /\ armed' = IF f = form THEN armed ELSE f
    BY <1>3 DEF ReplaceConfig, account, resetState
  <2> QED BY <2>1 DEF TurnedOff, RedistributionTurnedOff, OffWhileResetting,
                      TypedTask, TypeOK
<1>4. CASE StartReset \/ StartCapacity
  <2>1. /\ UNCHANGED <<flag, armed, pendingEvent>>
        /\ pc' \in {"disable", "observe", "sample"}
    BY <1>4 DEF StartReset, StartCapacity, StartTask, config, admin, resetState
  <2> QED BY <2>1, TurnedOffKept
<1>5. CASE Abort
  <2>1. UNCHANGED <<flag, armed, pendingEvent>> /\ pc' = "idle"
    BY <1>5 DEF Abort, config, admin, resetState
  <2> QED BY <2>1, TurnedOffKept
<1>6. CASE UNCHANGED vars
    BY <1>6, TurnedOffKept DEF vars
<1> QED BY <1>1, <1>2, <1>3, <1>4, <1>5, <1>6, TurnedOffByReset,
           TurnedOffByCapacity DEF Next, Admin

\* When every saved configuration shows the flag as it is, redistribution is
\* never found on after a reset unless the administrator turned it on in the
\* new window (disableRedistributionForReset runs before anything else).
THEOREM RedistributionOff ==
    ASSUME ~StaleForms
    PROVE  Spec => []RedistributionTurnedOff
<1>1. Init => TurnedOff
    BY DEF Init, TurnedOff, RedistributionTurnedOff, OffWhileResetting
<1>2. TypedTask /\ TurnedOff /\ [Next]_vars => TurnedOff'
    BY TurnedOffByNext
<1>3. TurnedOff => RedistributionTurnedOff
    BY DEF TurnedOff
<1> QED BY <1>1, <1>2, <1>3, SpecTyped, PTL DEF Spec

----------------------------------------------------------------------------
(* One event per window, while the end of a window does not move by more    *)
(* than the tolerance.  IsCurrent ties what was observed to the true window.*)

LEMMA NewIsLater ==
    ASSUME NEW p \in Observation, NEW o \in Observation, NEW fetchedAt,
           quota \in [end : Int, used : Nat, cycle : 0..MaxCycle],
           IsCurrent(p), o.cycle = quota.cycle,
           quota.end - o.resetAt \in 0..Tolerance,
           IsNewResetWindow(p, o, fetchedAt)
    PROVE  o.cycle > p.cycle
<1>1. o.resetAt > p.resetAt + Tolerance
    BY DEF IsNewResetWindow
<1>2. p.cycle # quota.cycle
    BY <1>1, WindowParameters DEF IsCurrent, Observation
<1>3. p.cycle <= quota.cycle
    BY DEF IsCurrent
<1> QED BY <1>2, <1>3 DEF Observation

\* What was current stays current.
LEMMA CurrentKept ==
    ASSUME TypedTask, Upstream, "shift" \notin Moves,
           NEW o \in Observation, IsCurrent(o)
    PROVE  IsCurrent(o)'
<1>1. quota \in [end : Int, used : Nat, cycle : 0..MaxCycle]
    BY DEF TypedTask, TypeOK
<1>2. \/ quota'.cycle = quota.cycle /\ quota'.end = quota.end
      \/ quota'.cycle = quota.cycle + 1
    BY <1>1 DEF Upstream, Tick, Consume, Rollover, EarlyRollover, ShiftWindow
<1> QED BY <1>1, <1>2 DEF IsCurrent, Observation

\* A step that leaves the reset state alone and does not enter "detected".
LEMMA WindowsKept ==
    ASSUME WindowsInOrder, UNCHANGED <<quota, resetState>>,
           pc' # "detected" \/ UNCHANGED <<pc, mem>>
    PROVE  WindowsInOrder'
BY DEF WindowsInOrder, IsCurrent, resetState

LEMMA WindowsByUpstream ==
    ASSUME "shift" \notin Moves
    PROVE  TypedTask /\ WindowsInOrder /\ Upstream => WindowsInOrder'
<1> SUFFICES ASSUME TypedTask, WindowsInOrder, Upstream PROVE WindowsInOrder'
    OBVIOUS
<1>1. UNCHANGED <<observation, lastHandled, pendingEvent, pc, mem>>
    BY DEF Upstream, Tick, Consume, Rollover, EarlyRollover, ShiftWindow,
           account, resetState
<1>2. observation # None => IsCurrent(observation)'
    BY <1>1, CurrentKept DEF WindowsInOrder, TypedTask, TypeOK
<1>3. pc = "detected" => IsCurrent(mem.seen)'
    BY <1>1, CurrentKept DEF WindowsInOrder, TypedTask, TypeOK, TaskOK, Memory
<1>4. pendingEvent # None => IsCurrent(pendingEvent.observation)'
    BY <1>1, CurrentKept DEF WindowsInOrder, TypedTask, TypeOK, PendingEvent
<1> QED BY <1>1, <1>2, <1>3, <1>4 DEF WindowsInOrder, IsCurrent

LEMMA WindowsByReset == TypedTask /\ WindowsInOrder /\ ResetStep => WindowsInOrder'
<1> SUFFICES ASSUME TypedTask, WindowsInOrder, ResetStep PROVE WindowsInOrder'
    OBVIOUS
<1>1. quota' = quota /\ \A o : IsCurrent(o)' <=> IsCurrent(o)
  <2>1. quota' = quota
    BY ResetFrame
  <2> QED BY <2>1 DEF IsCurrent
<1>2. ASSUME NEW o \in ObserveQuota
      PROVE  o \in Observation /\ IsCurrent(o) /\ o.cycle = quota.cycle
    BY <1>2, ObservationTyped, WindowParameters
    DEF TypedTask, TypeOK, IsCurrent, Observation
<1>3. ASSUME NEW o \in ObserveQuota, KeepObservation(o)
      PROVE  WindowsInOrder'
  <2>1. /\ pc = "observe" /\ pc' = "idle" /\ observation' = o
        /\ UNCHANGED <<lastHandled, pendingEvent>>
    BY <1>3 DEF KeepObservation
  <2>2. pendingEvent = None
    BY <2>1 DEF TypedTask, TaskOK
  <2>3. o # None
    BY <1>2, <1>3, NoneIsNoRecord
  <2>4. lastHandled # None => lastHandled.cycle <= o.cycle
    BY <1>2, <1>3 DEF WindowsInOrder, IsCurrent, TypedTask, TypeOK, Observation
  <2> QED BY <1>1, <1>2, <1>3, <2>1, <2>2, <2>3, <2>4 DEF WindowsInOrder
<1>4. ASSUME NEW o \in ObserveQuota, DetectNewWindow(o)
      PROVE  WindowsInOrder'
  <2>1. /\ pc = "observe" /\ observation # None
        /\ IsNewResetWindow(observation, o, now)
        /\ mem' = [mem EXCEPT !.seen = o]
        /\ UNCHANGED <<observation, lastHandled, pendingEvent>>
    BY <1>4 DEF DetectNewWindow, resetState
  <2>2. o.cycle > observation.cycle
    BY <1>2, <2>1, ObservationTyped, NewIsLater
    DEF WindowsInOrder, TypedTask, TypeOK
  <2>3. mem'.seen = o /\ pendingEvent = None
    BY <2>1 DEF TypedTask, TypeOK, TaskOK, Memory
  <2> QED BY <1>1, <1>2, <2>1, <2>2, <2>3 DEF WindowsInOrder
<1>5. ASSUME NEW subscriptions \in SUBSET Subs, PersistEvent(subscriptions)
      PROVE  WindowsInOrder'
  <2>1. /\ pc = "detected" /\ pc' = "disable"
        /\ pendingEvent'.observation = mem.seen
        /\ UNCHANGED <<observation, lastHandled>>
    BY <1>5 DEF PersistEvent
  <2> QED BY <1>1, <2>1 DEF WindowsInOrder
<1>6. ASSUME NEW s \in Subs, RecordProgress(s)
      PROVE  WindowsInOrder'
  <2>1. /\ pc = "recordWipe" /\ pc' = "wipe"
        /\ pendingEvent' = [pendingEvent EXCEPT !.completed = @ \cup {s}]
        /\ UNCHANGED <<observation, lastHandled>>
    BY <1>6 DEF RecordProgress
  <2>2. pendingEvent # None /\ pendingEvent \in PendingEvent
    BY <2>1 DEF TypedTask, TypeOK, TaskOK, ResetSteps
  <2>3. pendingEvent'.observation = pendingEvent.observation
    BY <2>1, <2>2 DEF PendingEvent
  <2> QED BY <1>1, <2>1, <2>2, <2>3 DEF WindowsInOrder
<1>7. CASE CompleteReset
  <2>1. /\ pc = "wipe" /\ pc' \in {"observe", "idle"} /\ pendingEvent' = None
        /\ observation' = pendingEvent.observation
        /\ lastHandled' = pendingEvent.observation
    BY <1>7 DEF CompleteReset
  <2>2. pendingEvent # None /\ pendingEvent.observation \in Observation
    BY <2>1 DEF TypedTask, TypeOK, TaskOK, ResetSteps, PendingEvent
  <2>3. pendingEvent.observation.cycle \in Int
    BY <2>2 DEF Observation
  <2> QED BY <1>1, <2>1, <2>2, <2>3, NoneIsNoRecord DEF WindowsInOrder
<1>8. CASE DisableRedistributionForReset \/ GroupsRestored
    BY <1>8, <1>1, WindowsKept DEF DisableRedistributionForReset, GroupsRestored
<1>9. ASSUME NEW g \in Groups, CheckGroup(g) \/ RestoreGroup(g)
      PROVE  WindowsInOrder'
    BY <1>9, <1>1, WindowsKept DEF CheckGroup, RestoreGroup
<1>10. ASSUME NEW s \in Subs, ResetSubscriptionWeekly(s)
       PROVE  WindowsInOrder'
    BY <1>10, <1>1, WindowsKept DEF ResetSubscriptionWeekly
<1> QED BY <1>3, <1>4, <1>5, <1>6, <1>7, <1>8, <1>9, <1>10 DEF ResetStep

\* The other actors neither touch the reset state nor enter a reset's steps.
LEMMA ResetStateKept ==
    ASSUME Admin \/ StartReset \/ StartCapacity \/ CapacityStep \/ Abort
           \/ UNCHANGED vars
    PROVE  /\ UNCHANGED <<quota, resetState, wiped>>
           /\ \/ UNCHANGED <<pc, mem>>
              \/ pc' \notin {"detected", "recordWipe"}
<1>1. CASE Admin
    BY <1>1 DEF Admin, OpenForm, ReplaceConfig, upstream, account, history
<1>2. CASE StartReset \/ StartCapacity
    BY <1>2 DEF StartReset, StartCapacity, StartTask, upstream, history
<1>3. CASE CapacityStep
  <2>1. UNCHANGED <<quota, resetState, wiped>>
    BY <1>3, CapacityKeeps DEF resetState
  <2>2. pc' \notin {"detected", "recordWipe"}
    BY <1>3, CapacityLeads DEF CapacitySteps
  <2> QED BY <2>1, <2>2
<1>4. CASE Abort
    BY <1>4 DEF Abort, upstream, history
<1>5. CASE UNCHANGED vars
    BY <1>5 DEF vars, resetState
<1> QED BY <1>1, <1>2, <1>3, <1>4, <1>5

LEMMA WindowsByNext ==
    ASSUME "shift" \notin Moves
    PROVE  TypedTask /\ WindowsInOrder /\ [Next]_vars => WindowsInOrder'
<1> SUFFICES ASSUME TypedTask, WindowsInOrder, [Next]_vars PROVE WindowsInOrder'
    OBVIOUS
<1>1. CASE Upstream
    BY <1>1, WindowsByUpstream
<1>2. CASE ResetStep
    BY <1>2, WindowsByReset
<1>3. CASE Admin \/ StartReset \/ StartCapacity \/ CapacityStep \/ Abort
           \/ UNCHANGED vars
    BY <1>3, ResetStateKept, WindowsKept
<1> QED BY <1>1, <1>2, <1>3 DEF Next

LEMMA SpecOrdered ==
    ASSUME "shift" \notin Moves
    PROVE  Spec => []WindowsInOrder
<1>1. Init => WindowsInOrder
    BY DEF Init, WindowsInOrder
<1>2. TypedTask /\ WindowsInOrder /\ [Next]_vars => WindowsInOrder'
    BY WindowsByNext
<1> QED BY <1>1, <1>2, SpecTyped, PTL DEF Spec

\* No window is handled twice, whatever jitter, failures and restarts there
\* are, while a window's end is not moved by more than the tolerance
\* (isNewResetWindow and the test against lastHandledResetAt).
THEOREM WindowHandledOnce ==
    ASSUME "shift" \notin Moves
    PROVE  Spec => []OneEventPerWindow
<1>1. TypedTask /\ WindowsInOrder => OneEventPerWindow
  <2> SUFFICES ASSUME TypedTask, WindowsInOrder,
                      pendingEvent # None, lastHandled # None
               PROVE  pendingEvent.observation.cycle > lastHandled.cycle
    BY DEF OneEventPerWindow
  <2>1. /\ pendingEvent.observation \in Observation
        /\ lastHandled \in Observation
        /\ observation # None => observation \in Observation
    BY DEF TypedTask, TypeOK, PendingEvent
  <2>2. /\ observation # None
        /\ lastHandled.cycle <= observation.cycle
        /\ pendingEvent.observation.cycle > observation.cycle
    BY DEF WindowsInOrder
  <2> QED BY <2>1, <2>2 DEF Observation
<1> QED BY <1>1, SpecTyped, SpecOrdered, PTL

----------------------------------------------------------------------------
(* Progress of an event.  WipedInOrder says that a new event finds no       *)
(* subscription reset for its window; ProgressTrails carries the argument   *)
(* over the step between a reset and its record.                            *)

InStep == WipedInOrder /\ ProgressTrails

\* A step that leaves the event and the usage alone.
LEMMA InStepKept ==
    ASSUME InStep, UNCHANGED <<resetState, wiped>>,
           pc' # "recordWipe" \/ UNCHANGED pc
    PROVE  InStep'
<1>1. UNCHANGED <<observation, pendingEvent, wiped>>
    BY DEF resetState
<1>2. WipedInOrder'
    BY <1>1 DEF InStep, WipedInOrder
<1>3. Remaining' = Remaining
    BY <1>1 DEF Remaining
<1>4. ProgressTrails'
    BY <1>1, <1>3 DEF InStep, ProgressTrails
<1> QED BY <1>2, <1>4 DEF InStep

LEMMA InStepKeepObservation ==
    ASSUME TypedTask, WindowsInOrder, InStep,
           NEW o \in ObserveQuota, KeepObservation(o)
    PROVE  InStep'
<1>1. /\ pc = "observe" /\ observation' = o
      /\ UNCHANGED <<pendingEvent, wiped>>
    BY DEF KeepObservation
<1>2. pendingEvent = None /\ o # None
    BY <1>1, ObservationTyped, NoneIsNoRecord DEF TypedTask, TaskOK
<1>3. observation # None => observation.cycle <= o.cycle
    BY ObservationTyped DEF WindowsInOrder, IsCurrent, TypedTask
<1>4. ASSUME NEW s \in Subs PROVE wiped[s] = -1 \/ wiped[s] <= o.cycle
  <2>1. wiped[s] \in Int /\ o.cycle \in Int
    BY ObservationTyped DEF TypedTask, TypeOK, Observation
  <2>2. wiped[s] = -1 \/ (observation # None /\ wiped[s] <= observation.cycle)
    BY <1>2 DEF InStep, WipedInOrder
  <2>3. observation # None => observation.cycle \in Int
    BY DEF TypedTask, TypeOK, Observation
  <2> QED BY <1>3, <2>1, <2>2, <2>3
<1>5. WipedInOrder'
    BY <1>1, <1>2, <1>4 DEF WipedInOrder
<1>6. ProgressTrails'
    BY <1>1, <1>2 DEF ProgressTrails
<1> QED BY <1>5, <1>6 DEF InStep

LEMMA InStepPersistEvent ==
    ASSUME TypedTask, WindowsInOrder, InStep,
           NEW subscriptions \in SUBSET Subs, PersistEvent(subscriptions)
    PROVE  InStep'
<1>1. /\ pc = "detected" /\ pc' = "disable"
      /\ UNCHANGED <<observation, wiped>>
      /\ pendingEvent'.observation = mem.seen
      /\ pendingEvent'.completed = {}
    BY DEF PersistEvent
<1>2. pendingEvent = None /\ mem.seen \in Observation
    BY <1>1 DEF TypedTask, TypeOK, TaskOK, Memory
<1>3. /\ observation # None /\ observation.cycle \in Int
      /\ mem.seen.cycle > observation.cycle
    BY <1>1 DEF WindowsInOrder, TypedTask, TypeOK, Observation
<1>4. ASSUME NEW s \in Subs
      PROVE  wiped[s] # mem.seen.cycle
  <2>1. wiped[s] = -1 \/ wiped[s] <= observation.cycle
    BY <1>2 DEF InStep, WipedInOrder
  <2>2. wiped[s] \in Int /\ mem.seen.cycle \in Nat
    BY <1>2 DEF TypedTask, TypeOK, Observation
  <2> QED BY <1>3, <2>1, <2>2
<1>5. WipedInOrder'
    BY <1>1, <1>2 DEF InStep, WipedInOrder
<1>6. Remaining' \subseteq Subs
    BY DEF PersistEvent, Remaining
<1>7. ProgressTrails'
    BY <1>1, <1>4, <1>6 DEF ProgressTrails
<1> QED BY <1>5, <1>7 DEF InStep

LEMMA InStepReset ==
    ASSUME TypedTask, InStep, NEW s \in Subs, ResetSubscriptionWeekly(s)
    PROVE  InStep'
<1>1. /\ pc = "wipe" /\ pc' = "recordWipe" /\ IsFirst(s, Remaining)
      /\ UNCHANGED <<observation, pendingEvent>>
      /\ wiped' = [wiped EXCEPT ![s] = pendingEvent.observation.cycle]
    BY DEF ResetSubscriptionWeekly, resetState
<1>2. pendingEvent # None /\ pendingEvent \in PendingEvent
    BY <1>1 DEF TypedTask, TypeOK, TaskOK, ResetSteps
<1>3. Remaining' = Remaining /\ Remaining \subseteq Subs /\ pendingEvent.completed \subseteq Subs
    BY <1>1, <1>2 DEF Remaining, PendingEvent
<1>4. \A t \in Subs : wiped'[t] = IF t = s THEN pendingEvent.observation.cycle
                                  ELSE wiped[t]
    BY <1>1 DEF TypedTask, TypeOK
<1>5. WipedInOrder'
    BY <1>1, <1>2, <1>4 DEF InStep, WipedInOrder
<1>6. \A t \in Remaining : IsFirst(t, Remaining) => t = s
    BY <1>1, <1>3, IdsAreOrdered DEF IsFirst
<1>7. ProgressTrails'
    BY <1>1, <1>2, <1>3, <1>4, <1>6 DEF InStep, ProgressTrails
<1> QED BY <1>5, <1>7 DEF InStep

LEMMA InStepRecord ==
    ASSUME TypedTask, InStep, NEW s \in Subs, RecordProgress(s)
    PROVE  InStep'
<1>1. /\ pc = "recordWipe" /\ pc' = "wipe" /\ IsFirst(s, Remaining)
      /\ UNCHANGED <<observation, wiped>>
      /\ pendingEvent' = [pendingEvent EXCEPT !.completed = @ \cup {s}]
    BY DEF RecordProgress
<1>2. pendingEvent # None /\ pendingEvent \in PendingEvent
    BY <1>1 DEF TypedTask, TypeOK, TaskOK, ResetSteps
<1>3. /\ pendingEvent'.observation = pendingEvent.observation
      /\ pendingEvent'.targets = pendingEvent.targets
      /\ pendingEvent'.completed = pendingEvent.completed \cup {s}
    BY <1>1, <1>2 DEF PendingEvent
<1>4. pendingEvent' # None
    BY <1>1, <1>2, NoneIsNoRecord DEF PendingEvent
<1>5. s \in Remaining /\ Remaining \subseteq Subs
    BY <1>1, <1>2 DEF IsFirst, Remaining, PendingEvent
<1>6. Remaining' = Remaining \ {s}
    BY <1>3 DEF Remaining
<1>7. WipedInOrder'
    BY <1>1, <1>2, <1>3, <1>4 DEF InStep, WipedInOrder
<1>8. \A t \in Remaining : IsFirst(t, Remaining) => t = s
    BY <1>1, <1>5, IdsAreOrdered DEF IsFirst
<1>9. wiped[s] = pendingEvent.observation.cycle
    BY <1>1, <1>2, <1>5 DEF InStep, ProgressTrails
<1>10. s \in pendingEvent.targets
    BY <1>5 DEF Remaining
<1>11. ProgressTrails'
    BY <1>1, <1>2, <1>3, <1>6, <1>8, <1>9, <1>10 DEF InStep, ProgressTrails
<1> QED BY <1>7, <1>11 DEF InStep

LEMMA InStepComplete ==
    ASSUME TypedTask, WindowsInOrder, InStep, CompleteReset
    PROVE  InStep'
<1>1. /\ pc = "wipe" /\ pendingEvent' = None /\ wiped' = wiped
      /\ observation' = pendingEvent.observation
    BY DEF CompleteReset
<1>2. pendingEvent # None /\ pendingEvent.observation \in Observation
    BY <1>1 DEF TypedTask, TypeOK, TaskOK, ResetSteps, PendingEvent
<1>3. /\ observation # None /\ observation.cycle \in Int
      /\ pendingEvent.observation.cycle > observation.cycle
    BY <1>2 DEF WindowsInOrder, TypedTask, TypeOK, Observation
<1>4. ASSUME NEW s \in Subs
      PROVE  wiped[s] = -1 \/ wiped[s] <= pendingEvent.observation.cycle
  <2>1. wiped[s] \in Int /\ pendingEvent.observation.cycle \in Int
    BY <1>2 DEF TypedTask, TypeOK, Observation
  <2>2. \/ wiped[s] = -1
        \/ wiped[s] <= observation.cycle
        \/ wiped[s] = pendingEvent.observation.cycle
    BY DEF InStep, WipedInOrder
  <2> QED BY <1>3, <2>1, <2>2
<1>5. WipedInOrder'
    BY <1>1, <1>2, <1>4, NoneIsNoRecord DEF WipedInOrder
<1>6. ProgressTrails'
    BY <1>1 DEF ProgressTrails
<1> QED BY <1>5, <1>6 DEF InStep

LEMMA InStepByReset ==
    TypedTask /\ WindowsInOrder /\ InStep /\ ResetStep => InStep'
<1> SUFFICES ASSUME TypedTask, WindowsInOrder, InStep, ResetStep PROVE InStep'
    OBVIOUS
<1>1. ASSUME NEW o \in ObserveQuota, DetectNewWindow(o)
      PROVE  InStep'
    BY <1>1, InStepKept DEF DetectNewWindow
<1>2. CASE DisableRedistributionForReset \/ GroupsRestored
    BY <1>2, InStepKept DEF DisableRedistributionForReset, GroupsRestored
<1>3. ASSUME NEW g \in Groups, CheckGroup(g) \/ RestoreGroup(g)
      PROVE  InStep'
    BY <1>3, InStepKept DEF CheckGroup, RestoreGroup
<1> QED BY <1>1, <1>2, <1>3, InStepKeepObservation, InStepPersistEvent,
           InStepReset, InStepRecord, InStepComplete DEF ResetStep

LEMMA InStepByNext ==
    TypedTask /\ WindowsInOrder /\ InStep /\ [Next]_vars => InStep'
<1> SUFFICES ASSUME TypedTask, WindowsInOrder, InStep, [Next]_vars PROVE InStep'
    OBVIOUS
<1>1. CASE Upstream
  <2>1. UNCHANGED <<resetState, wiped, pc>>
    BY <1>1 DEF Upstream, Tick, Consume, Rollover, EarlyRollover, ShiftWindow,
                account, history
  <2> QED BY <2>1, InStepKept
<1>2. CASE ResetStep
    BY <1>2, InStepByReset
<1>3. CASE Admin \/ StartReset \/ StartCapacity \/ CapacityStep \/ Abort
           \/ UNCHANGED vars
    BY <1>3, ResetStateKept, InStepKept
<1> QED BY <1>1, <1>2, <1>3 DEF Next

LEMMA SpecInStep ==
    ASSUME "shift" \notin Moves
    PROVE  Spec => []InStep
<1>1. Init => InStep
    BY DEF Init, InStep, WipedInOrder, ProgressTrails
<1>2. TypedTask /\ WindowsInOrder /\ InStep /\ [Next]_vars => InStep'
    BY InStepByNext
<1> QED BY <1>1, <1>2, SpecTyped, SpecOrdered, PTL DEF Spec

\* What a stored event lists as completed was reset for its window, and at
\* most one more subscription was: the next of its list (completeReset).
THEOREM ProgressRecorded ==
    ASSUME "shift" \notin Moves
    PROVE  Spec => []ProgressIsReal
<1>1. TypedTask /\ InStep => ProgressIsReal
  <2> SUFFICES ASSUME TypedTask, InStep, pendingEvent # None
               PROVE  ProgressIsReal
    BY DEF ProgressIsReal
  <2>1. pendingEvent \in PendingEvent /\ Remaining \subseteq Nat
    BY IdsAreOrdered DEF TypedTask, TypeOK, PendingEvent, Remaining
  <2>2. \A s, t \in Remaining :
            IsFirst(s, Remaining) /\ IsFirst(t, Remaining) => s = t
    BY <2>1 DEF IsFirst
  <2>3. \A s \in Remaining :
            wiped[s] = pendingEvent.observation.cycle => IsFirst(s, Remaining)
    BY DEF InStep, ProgressTrails
  <2>4. /\ pendingEvent.completed \subseteq pendingEvent.targets
        /\ \A s \in pendingEvent.completed :
              wiped[s] = pendingEvent.observation.cycle
    BY DEF InStep, ProgressTrails
  <2> QED BY <2>2, <2>3, <2>4 DEF ProgressIsReal, Remaining
<1> QED BY <1>1, SpecTyped, SpecInStep, PTL

\* An event is closed only when every subscription it names has been reset
\* for its window (the loop of completeReset and the update after it).
THEOREM EventClosed ==
    ASSUME "shift" \notin Moves
    PROVE  Spec => EventClosesComplete
<1> DEFINE Closes ==
        (pendingEvent # None /\ pendingEvent' # pendingEvent) =>
          \/ pendingEvent' # None /\ pendingEvent'.targets = pendingEvent.targets
          \/ /\ pendingEvent' = None
             /\ lastHandled' = pendingEvent.observation
             /\ \A s \in pendingEvent.targets :
                   wiped[s] = pendingEvent.observation.cycle
<1>1. TypedTask /\ InStep /\ [Next]_vars => Closes
  <2> SUFFICES ASSUME TypedTask, InStep, [Next]_vars,
                      pendingEvent # None, pendingEvent' # pendingEvent
               PROVE  Closes
    OBVIOUS
  <2>1. ResetStep
    BY ResetStateKept DEF Next, Upstream, Tick, Consume, Rollover, EarlyRollover,
       ShiftWindow, account, resetState
  <2>2. \/ \E subscriptions \in SUBSET Subs : PersistEvent(subscriptions)
        \/ \E s \in Subs : RecordProgress(s)
        \/ CompleteReset
    BY <2>1 DEF ResetStep, KeepObservation, DetectNewWindow,
       DisableRedistributionForReset, CheckGroup, RestoreGroup, GroupsRestored,
       ResetSubscriptionWeekly, resetState
  <2>3. ~\E subscriptions \in SUBSET Subs : PersistEvent(subscriptions)
    BY DEF PersistEvent, TypedTask, TaskOK
  <2>4. ASSUME NEW s \in Subs, RecordProgress(s)
        PROVE  Closes
    <3>1. pendingEvent \in PendingEvent
        BY DEF TypedTask, TypeOK
    <3>2. pendingEvent' \in PendingEvent
        BY <2>4, RecordProgressTyped DEF RecordProgress, PendingEvent, TypedTask,
           TypeOK, TaskOK, ResetSteps
    <3>3. pendingEvent'.targets = pendingEvent.targets
        BY <2>4, <3>1 DEF RecordProgress, PendingEvent
    <3> QED BY <3>2, <3>3, NoneIsNoRecord
  <2>5. CASE CompleteReset
    BY <2>5 DEF CompleteReset, Remaining, InStep, ProgressTrails
  <2> QED BY <2>2, <2>3, <2>4, <2>5
<1>2. TypedTask /\ InStep /\ [Next]_vars => [Closes]_vars
    BY <1>1
<1> QED BY <1>2, SpecTyped, SpecInStep, PTL DEF Spec, EventClosesComplete

----------------------------------------------------------------------------
(* Windows.  The two jobs tell windows apart by the reported reset times    *)
(* alone (isSameResetWindow).  That this is the order of the true windows   *)
(* holds for all the times that are in use together: KnownWindows.          *)

\* An observation of a window that is over: the clock is past its end.
IsDated(o) ==
    /\ IsCurrent(o)
    /\ o.cycle < quota.cycle =>
          o.resetAt + CycleLength <= quota.end /\ o.resetAt <= now

KnownWindows ==
    ({observation, lastHandled, mem.seen}
       \cup (IF pendingEvent = None THEN {} ELSE {pendingEvent.observation})
       \cup (IF redistribution = None THEN {} ELSE {redistribution.window}))
    \ {None}

InOrder(o, p) ==
    /\ o.cycle = p.cycle => IsSameResetWindow(o, p)
    /\ o.cycle < p.cycle => o.resetAt + Tolerance < p.resetAt

WindowsKnown ==
    \A o \in KnownWindows : IsDated(o) /\ \A p \in KnownWindows : InOrder(o, p)

\* Windows end when they expire.
Expiring == Moves = {}

LEMMA SameIsCycle ==
    ASSUME NEW o \in Observation, NEW p \in Observation, InOrder(o, p), InOrder(p, o)
    PROVE  IsSameResetWindow(o, p) <=> o.cycle = p.cycle
BY WindowParameters, Bounds DEF InOrder, IsSameResetWindow, Observation

LEMMA KnownTyped ==
    ASSUME TypedTask
    PROVE  KnownWindows \subseteq Observation
BY DEF KnownWindows, TypedTask, TypeOK, Memory, PendingEvent, Ledger

\* A reported window is in order with those that are known, and with another
\* report of it.
LEMMA ReportsInOrder ==
    ASSUME TypedTask, WindowsKnown,
           NEW o \in KnownWindows \cup ObserveQuota,
           NEW p \in KnownWindows \cup ObserveQuota
    PROVE  IsDated(o) /\ InOrder(o, p)
<1> DEFINE Seen(x) == /\ x \in Observation
                      /\ IsDated(x)
<1>1. /\ quota \in [end : Int, used : Nat, cycle : 0..MaxCycle]
      /\ Tolerance \in Nat /\ MaxCycle \in Nat
      /\ CycleLength \in Nat /\ CycleLength > 2 * Tolerance
    BY WindowParameters, Bounds DEF TypedTask, TypeOK
<1>2. ASSUME NEW x \in ObserveQuota
      PROVE  x \in Observation /\ x.cycle = quota.cycle
             /\ quota.end - x.resetAt \in 0..Tolerance
    BY <1>2, ObservationTyped DEF TypedTask
<1>3. ASSUME NEW x \in ObserveQuota
      PROVE  IsDated(x)
    BY <1>1, <1>2 DEF IsDated, IsCurrent, Observation
<1>4. ASSUME NEW x \in KnownWindows
      PROVE  x \in Observation /\ IsDated(x)
    BY KnownTyped DEF WindowsKnown
<1>5. CASE o \in KnownWindows /\ p \in KnownWindows
    BY <1>5 DEF WindowsKnown
<1>6. CASE o \in ObserveQuota /\ p \in ObserveQuota
    BY <1>1, <1>2, <1>3, <1>6 DEF InOrder, IsSameResetWindow, Observation
<1>7. CASE o \in KnownWindows /\ p \in ObserveQuota
    BY <1>1, <1>2, <1>4, <1>7
    DEF IsDated, IsCurrent, InOrder, IsSameResetWindow, Observation
<1>8. CASE o \in ObserveQuota /\ p \in KnownWindows
    BY <1>1, <1>2, <1>3, <1>4, <1>8
    DEF IsDated, IsCurrent, InOrder, IsSameResetWindow, Observation
<1> QED BY <1>5, <1>6, <1>7, <1>8, <1>3, <1>4

\* A step that learns of no window but a reported one.
LEMMA KnownKept ==
    ASSUME TypedTask, WindowsKnown, UNCHANGED <<now, quota>>,
           KnownWindows' \subseteq KnownWindows \cup ObserveQuota
    PROVE  WindowsKnown'
<1>1. \A o \in KnownWindows' : IsDated(o) /\ \A p \in KnownWindows' : InOrder(o, p)
    BY ReportsInOrder
<1>2. \A o : IsDated(o) => IsDated(o)'
    BY DEF IsDated, IsCurrent
<1> QED BY <1>1, <1>2 DEF WindowsKnown, InOrder, IsSameResetWindow

LEMMA KnownByUpstream ==
    ASSUME Expiring, TypedTask, WindowsKnown, Upstream
    PROVE  WindowsKnown'
<1>1. KnownWindows' = KnownWindows
    BY DEF Upstream, Tick, Consume, Rollover, EarlyRollover, ShiftWindow,
           account, resetState, KnownWindows
<1>2. ASSUME NEW o \in KnownWindows
      PROVE  IsDated(o)'
  <2>1. IsDated(o) /\ o \in Observation
    BY KnownTyped DEF WindowsKnown
  <2>2. /\ quota \in [end : Int, used : Nat, cycle : 0..MaxCycle] /\ now \in Nat
        /\ CycleLength \in Nat /\ Tolerance \in Nat
    BY WindowParameters DEF TypedTask, TypeOK
  <2>3. CASE Tick
    BY <2>1, <2>2, <2>3 DEF Tick, IsDated, IsCurrent, Observation
  <2>4. CASE Consume
    BY <2>1, <2>2, <2>4 DEF Consume, IsDated, IsCurrent, Observation
  <2>5. CASE Rollover
    <3>1. /\ now' = now /\ quota'.end = now + CycleLength
          /\ quota'.cycle = quota.cycle + 1 /\ now >= quota.end
        BY <2>5 DEF Rollover
    <3>2. o.cycle <= quota.cycle /\ o.resetAt <= quota.end
        BY <2>1, <2>2 DEF IsDated, IsCurrent, Observation
    <3> QED BY <2>1, <2>2, <3>1, <3>2 DEF IsDated, IsCurrent, Observation
  <2> QED BY <2>3, <2>4, <2>5 DEF Upstream, EarlyRollover, ShiftWindow, Expiring
<1> QED BY <1>1, <1>2 DEF WindowsKnown, InOrder, IsSameResetWindow

LEMMA KnownByReset ==
    ASSUME TypedTask, ResetStep
    PROVE  KnownWindows' \subseteq KnownWindows \cup ObserveQuota
<1>1. ASSUME NEW o \in ObserveQuota, KeepObservation(o)
      PROVE  KnownWindows' \subseteq KnownWindows \cup ObserveQuota
    BY <1>1 DEF KeepObservation, KnownWindows, NoMemory
<1>2. ASSUME NEW o \in ObserveQuota, DetectNewWindow(o)
      PROVE  KnownWindows' \subseteq KnownWindows \cup ObserveQuota
    BY <1>2 DEF DetectNewWindow, KnownWindows, resetState, TypedTask, TypeOK, Memory
<1>3. ASSUME NEW subscriptions \in SUBSET Subs, PersistEvent(subscriptions)
      PROVE  KnownWindows' \subseteq KnownWindows \cup ObserveQuota
    BY <1>3 DEF PersistEvent, KnownWindows
<1>4. CASE DisableRedistributionForReset
    BY <1>4 DEF DisableRedistributionForReset, KnownWindows, resetState, TypedTask,
       TypeOK, Memory
<1>5. ASSUME NEW g \in Groups, CheckGroup(g) \/ RestoreGroup(g)
      PROVE  KnownWindows' \subseteq KnownWindows \cup ObserveQuota
  <2>1. UNCHANGED <<resetState, redistribution>> /\ mem'.seen = mem.seen
    BY <1>5 DEF CheckGroup, RestoreGroup, TypedTask, TypeOK, Memory
  <2> QED BY <2>1 DEF KnownWindows, resetState
<1>6. CASE GroupsRestored
    BY <1>6 DEF GroupsRestored, KnownWindows, resetState
<1>7. ASSUME NEW s \in Subs, ResetSubscriptionWeekly(s) \/ RecordProgress(s)
      PROVE  KnownWindows' \subseteq KnownWindows \cup ObserveQuota
  <2>1. CASE ResetSubscriptionWeekly(s)
    BY <2>1 DEF ResetSubscriptionWeekly, KnownWindows, resetState
  <2>2. CASE RecordProgress(s)
    <3>1. pendingEvent # None /\ pendingEvent \in PendingEvent
        BY <2>2 DEF RecordProgress, TypedTask, TypeOK, TaskOK, ResetSteps
    <3>2. pendingEvent'.observation = pendingEvent.observation
        BY <2>2, <3>1 DEF RecordProgress, PendingEvent
    <3> QED BY <2>2, <3>1, <3>2 DEF RecordProgress, KnownWindows
  <2> QED BY <1>7, <2>1, <2>2
<1>8. CASE CompleteReset
  <2>1. pendingEvent # None
    BY <1>8 DEF CompleteReset, TypedTask, TaskOK, ResetSteps
  <2> QED BY <1>8, <2>1 DEF CompleteReset, KnownWindows, NoMemory, FreshRedistribution
<1> QED BY <1>1, <1>2, <1>3, <1>4, <1>5, <1>6, <1>7, <1>8 DEF ResetStep

LEMMA WorkingWindow ==
    ASSUME TypedTask, pc = "redistribute"
    PROVE  /\ Working.window \in KnownWindows
           /\ mem.net # None => Based.window = Working.window
<1>1. \/ Working.window = mem.seen
      \/ redistribution # None /\ Working.window = redistribution.window
    BY DEF Working, FreshRedistribution
<1>2. mem.seen # None /\ None \notin Observation
    BY NoneIsNoRecord DEF TypedTask, TaskOK, CapacitySteps
<1>3. redistribution # None => redistribution.window # None
    BY <1>2 DEF TypedTask, TypeOK, Ledger
<1> QED BY <1>1, <1>2, <1>3, WorkingTyped DEF KnownWindows, Based, Ledger

LEMMA KnownByCapacity ==
    ASSUME TypedTask, CapacityStep
    PROVE  KnownWindows' \subseteq KnownWindows \cup ObserveQuota
<1> DEFINE Known == KnownWindows' \subseteq KnownWindows \cup ObserveQuota
<1>1. ASSUME NEW o \in ObserveQuota, Sample(o)
      PROVE  Known
  <2>1. mem'.seen = o /\ UNCHANGED <<resetState, redistribution>>
    BY <1>1 DEF Sample, unchangedByCapacity, TypedTask, TypeOK, Memory
  <2> QED BY <2>1 DEF KnownWindows, resetState
<1>2. ASSUME UNCHANGED <<resetState, redistribution>>,
             mem'.seen = mem.seen \/ mem'.seen = None
      PROVE  Known
    BY <1>2 DEF KnownWindows, resetState
<1>3. ASSUME NEW g \in Groups, SkipGroup(g) \/ WriteGroup(g)
      PROVE  Known
    BY <1>2, <1>3 DEF SkipGroup, WriteGroup, unchangedByCapacity, TypedTask, TypeOK,
       Memory
<1>4. CASE SaveCapacity \/ NoLedger \/ (\E m \in BOOLEAN : ResumeRound(m))
    BY <1>2, <1>4 DEF SaveCapacity, NoLedger, ResumeRound, unchangedByCapacity,
       NoMemory
<1>5. ASSUME NEW g \in Groups, WriteTarget(g)
      PROVE  Known
    BY <1>2, <1>5 DEF WriteTarget, unchangedByCapacity
<1>6. ASSUME UNCHANGED resetState, mem'.seen = mem.seen \/ mem'.seen = None,
             redistribution'.window \in KnownWindows
      PROVE  Known
    BY <1>6 DEF KnownWindows, resetState
<1>7. ASSUME NEW m \in BOOLEAN, KeepLedger \/ RebaseLedger(m) \/ StartRound(m)
      PROVE  Known
  <2>1. /\ pc = "redistribute" /\ UNCHANGED resetState
        /\ mem'.seen = mem.seen \/ mem'.seen = None
    BY <1>7 DEF KeepLedger, RebaseLedger, StartRound, unchangedByCapacity, NoMemory
  <2>2. redistribution'.window = Working.window
    <3>1. CASE KeepLedger
        BY <3>1 DEF KeepLedger
    <3>2. CASE RebaseLedger(m)
        BY <2>1, <3>2, WorkingWindow DEF RebaseLedger, HasEstimate
    <3>3. CASE StartRound(m)
      <4>1. Based \in Ledger /\ Based.window = Working.window
        BY <2>1, <3>3, WorkingTyped, WorkingWindow DEF StartRound, HasEstimate
      <4> QED BY <3>3, <4>1 DEF StartRound, Ledger
    <3> QED BY <1>7, <3>1, <3>2, <3>3
  <2> QED BY <1>6, <2>1, <2>2, WorkingWindow
<1>8. ASSUME NEW g \in Groups,
             LeaveRound(g) \/ DropTarget(g) \/ FailTarget(g) \/ RecordTarget(g)
      PROVE  Known
  <2>1. /\ pc \in {"round", "record"} /\ UNCHANGED resetState
        /\ mem'.seen = mem.seen \/ mem'.seen = None
    BY <1>8 DEF LeaveRound, DropTarget, FailTarget, RecordTarget, NextTarget,
       unchangedByCapacity, resetState, NoMemory
  <2>2. redistribution \in Ledger /\ Rebased \in Ledger
    BY <2>1, RoundTyped
  <2>3. redistribution'.window = redistribution.window
    BY <1>8, <2>2 DEF LeaveRound, DropTarget, FailTarget, RecordTarget, Rebased, Ledger
  <2>4. redistribution.window \in KnownWindows
    BY <2>1, <2>2, NoneIsNoRecord DEF KnownWindows, Ledger, TypedTask, TaskOK
  <2> QED BY <1>6, <2>1, <2>3, <2>4
<1>9. CASE FinishRound
  <2>1. redistribution \in Ledger /\ Rebased \in Ledger
    BY <1>9, RoundTyped DEF FinishRound
  <2>2. redistribution'.window = redistribution.window
    BY <1>9, <2>1 DEF FinishRound, Rebased, Ledger
  <2>3. redistribution.window \in KnownWindows
    BY <1>9, <2>1, NoneIsNoRecord DEF FinishRound, KnownWindows, Ledger, TypedTask,
       TaskOK
  <2> QED BY <1>6, <1>9, <2>2, <2>3 DEF FinishRound, unchangedByCapacity, NoMemory
<1> QED BY <1>1, <1>3, <1>4, <1>5, <1>7, <1>8, <1>9 DEF CapacityStep

LEMMA KnownByNext ==
    ASSUME Expiring
    PROVE  TypedTask /\ WindowsKnown /\ [Next]_vars => WindowsKnown'
<1> SUFFICES ASSUME TypedTask, WindowsKnown, [Next]_vars PROVE WindowsKnown'
    OBVIOUS
<1>1. CASE Upstream
    BY <1>1, KnownByUpstream
<1>2. CASE ResetStep
  <2>1. UNCHANGED <<now, quota>>
    BY <1>2, ResetFrame
  <2> QED BY <1>2, <2>1, KnownByReset, KnownKept
<1>3. CASE CapacityStep
  <2>1. UNCHANGED <<now, quota>>
    BY <1>3, CapacityKeeps
  <2> QED BY <1>3, <2>1, KnownByCapacity, KnownKept
<1>4. CASE Admin \/ UNCHANGED vars
  <2>1. UNCHANGED <<now, quota>> /\ KnownWindows' = KnownWindows
    BY <1>4 DEF Admin, OpenForm, ReplaceConfig, vars, upstream, account, resetState,
       KnownWindows
  <2> QED BY <2>1, KnownKept
<1>5. CASE StartReset \/ StartCapacity \/ Abort
  <2>1. UNCHANGED <<now, quota, resetState, redistribution>>
    BY <1>5 DEF StartReset, StartCapacity, StartTask, Abort, upstream
  <2>2. mem'.seen = None
    <3>1. CASE Abort
        BY <3>1 DEF Abort, NoMemory
    <3>2. CASE StartReset \/ StartCapacity
      <4>1. mem' = [NoMemory EXCEPT !.flag = flag, !.groups = groups]
        BY <3>2 DEF StartReset, StartCapacity, StartTask
      <4> QED BY <4>1 DEF NoMemory
    <3> QED BY <1>5, <3>1, <3>2
  <2>3. KnownWindows' \subseteq KnownWindows
    BY <2>1, <2>2 DEF KnownWindows, resetState
  <2> QED BY <2>1, <2>3, KnownKept
<1> QED BY <1>1, <1>2, <1>3, <1>4, <1>5 DEF Next

LEMMA SpecKnown ==
    ASSUME Expiring
    PROVE  Spec => []WindowsKnown
<1>1. Init => WindowsKnown
    BY DEF Init, WindowsKnown, KnownWindows, NoMemory
<1>2. TypedTask /\ WindowsKnown /\ [Next]_vars => WindowsKnown'
    BY KnownByNext
<1> QED BY <1>1, <1>2, SpecTyped, PTL DEF Spec

----------------------------------------------------------------------------
(* The inductive invariant of the ledger.  StoredOK speaks of what is       *)
(* stored, RunOK of the running task.                                       *)

\* The ledger has handed out something, or is about to.
Issued ==
    /\ redistribution # None
    /\ \/ redistribution.pending # None
       \/ redistribution.total > 0
       \/ \E g \in Groups : redistribution.limits[g] > 0

\* Such a ledger is that of the baseline's window, and knows the base limit.
IssuedInWindow ==
    Issued => /\ redistribution.base # None
              /\ observation # None
              /\ redistribution.window.cycle = observation.cycle

InRound(g) == redistribution.pending # None /\ g \in Unfinished

\* A group carries a raise and was not taken out with it.
Raised(g) == added[g] > 0 /\ g \notin departed

\* Such a group is managed, and the ledger shows that it was raised.
RaisesRecorded ==
    \A g \in Groups : Raised(g) =>
        /\ g \in groups
        /\ redistribution # None
        /\ redistribution.limits[g] > 0 \/ InRound(g)

\* A stored event will restore every group that is raised.
EventCovers ==
    pendingEvent # None =>
        \A g \in Groups : Raised(g) =>
            /\ pendingEvent.restore # None
            /\ g \in pendingEvent.restore.groups

StoredOK == IssuedInWindow /\ RaisesRecorded /\ EventCovers /\ RaisesAreInLedger

\* No ledger is of a later window than the one that a run has seen, and a
\* round is one of that window.
TaskInWindow ==
    /\ pc \in CapacitySteps \ {"sample"} /\ redistribution # None =>
          redistribution.window.cycle <= mem.seen.cycle
    /\ pc \in {"round", "record"} =>
          /\ pendingEvent = None
          /\ redistribution.window.cycle = mem.seen.cycle

\* The ledger may still be used: its window is the current one, or that of
\* the running task.
Live ==
    \/ redistribution.window.cycle = quota.cycle
    \/ /\ pc \in CapacitySteps \ {"sample"}
       /\ redistribution.window.cycle = mem.seen.cycle

\* What is still to be written of a round leaves the raises in the ledger.
RoundFits ==
    redistribution # None /\ pendingEvent = None /\ Live =>
        \A g \in Groups \ departed : InRound(g) =>
            pending.targets[g] + added[g] <= limit[g] + LedgerTotal

WrittenFirst ==
    pc = "record" =>
        \A g \in Groups : IsFirst(g, Unfinished) => limit[g] >= pending.targets[g]

\* A reset has read every raised group, and restores those that are left.
TaskCovers ==
    /\ pc \in {"observe", "detected"} =>
          \A g \in Groups : Raised(g) => g \in mem.groups
    /\ pc \in {"restore", "restoreGroup"} =>
          \A g \in Groups : Raised(g) => g \in mem.todo
    /\ MembersResetAtBaseLimit

RunOK == TaskInWindow /\ RoundFits /\ WrittenFirst /\ TaskCovers

LedgerOK == StoredOK /\ RunOK

\* What the steps may assume besides.
Ordered == TypedTask /\ WindowsInOrder /\ WindowsKnown

----------------------------------------------------------------------------
(* Frames: steps that change little of what the invariant speaks of.        *)

SameLedger ==
    /\ redistribution # None <=> redistribution' # None
    /\ redistribution # None =>
          /\ redistribution'.window = redistribution.window
          /\ redistribution'.limits = redistribution.limits
          /\ redistribution'.total = redistribution.total
          /\ redistribution'.pending = redistribution.pending
          /\ redistribution.base # None => redistribution'.base # None

AddedIsNoMore ==
    \A g \in Groups \ departed' :
        \/ added'[g] = 0
        \/ /\ added'[g] = added[g] /\ g \notin departed
           /\ added'[g] > 0 => g \in groups'

LEMMA TotalIsAmount ==
    ASSUME TypedTask
    PROVE  LedgerTotal \in Nat
BY DEF LedgerTotal, TypedTask, TypeOK, Ledger, Round

LEMMA SameTotals ==
    ASSUME SameLedger
    PROVE  /\ LedgerTotal' = LedgerTotal
           /\ Issued' <=> Issued
           /\ redistribution # None => pending' = pending /\ Unfinished' = Unfinished
           /\ redistribution # None => \A g \in Groups : InRound(g)' <=> InRound(g)
<1>1. redistribution # None => pending' = pending
    BY DEF SameLedger, pending
<1>2. redistribution # None => Unfinished' = Unfinished
    BY <1>1 DEF Unfinished
<1>3. redistribution # None => \A g \in Groups : InRound(g)' <=> InRound(g)
    BY <1>2 DEF InRound, SameLedger
<1>4. LedgerTotal' = LedgerTotal
    BY DEF LedgerTotal, SameLedger
<1>5. Issued' <=> Issued
    BY DEF Issued, SameLedger
<1> QED BY <1>1, <1>2, <1>3, <1>4, <1>5

LEMMA StoredKept ==
    ASSUME TypedTask, StoredOK, SameLedger, AddedIsNoMore,
           UNCHANGED <<observation, pendingEvent>>
    PROVE  StoredOK'
<1>1. IssuedInWindow'
    BY SameTotals DEF StoredOK, IssuedInWindow, SameLedger, Issued
<1>2. RaisesRecorded'
    BY SameTotals DEF Raised, StoredOK, RaisesRecorded, SameLedger, AddedIsNoMore
<1>3. EventCovers'
    BY DEF Raised, StoredOK, EventCovers, AddedIsNoMore
<1>4. RaisesAreInLedger'
    BY SameTotals, TotalIsAmount
    DEF Raised, StoredOK, RaisesAreInLedger, AddedIsNoMore
<1> QED BY <1>1, <1>2, <1>3, <1>4 DEF StoredOK

LEMMA RoundFitsKept ==
    ASSUME TypedTask, RoundFits, SameLedger, AddedIsNoMore, departed \subseteq departed',
           UNCHANGED <<limit, pendingEvent>>,
           redistribution # None => (Live' => Live)
    PROVE  RoundFits'
<1> SUFFICES ASSUME redistribution' # None, pendingEvent' = None, Live',
                    NEW g \in Groups \ departed', InRound(g)'
             PROVE  pending'.targets[g] + added'[g] <= limit'[g] + LedgerTotal'
    BY DEF RoundFits
<1>1. /\ redistribution # None /\ Live /\ InRound(g)
      /\ pending' = pending /\ LedgerTotal' = LedgerTotal
    BY SameTotals DEF SameLedger
<1>2. pending.targets[g] + added[g] <= limit[g] + LedgerTotal
    BY <1>1 DEF RoundFits
<1>3. pending.targets[g] \in Nat /\ added[g] \in Nat /\ limit[g] \in Nat
    BY <1>1 DEF TypedTask, TypeOK, Ledger, Round, pending, InRound
<1> QED BY <1>1, <1>2, <1>3, TotalIsAmount DEF Raised, AddedIsNoMore

\* A ledger that is gone, or new, when no group is raised.
LEMMA StoredAnew ==
    ASSUME \A g \in Groups \ departed' : added'[g] = 0,
           redistribution' = None \/
             /\ redistribution'.pending = None
             /\ redistribution'.total = 0
             /\ \A g \in Groups : redistribution'.limits[g] = 0
    PROVE  StoredOK' /\ RoundFits'
<1>1. ~Issued'
    BY DEF Issued
<1>2. LedgerTotal' = 0
    BY DEF LedgerTotal
<1>3. IssuedInWindow' /\ RaisesRecorded' /\ EventCovers' /\ RaisesAreInLedger'
    BY <1>1, <1>2 DEF Raised, IssuedInWindow, RaisesRecorded, EventCovers, RaisesAreInLedger
<1>4. RoundFits'
    BY DEF RoundFits, InRound
<1> QED BY <1>3, <1>4 DEF StoredOK

----------------------------------------------------------------------------
(* The other actors.                                                        *)

\* A step that leaves the task where it is, or ends it.
LEMMA RunKept ==
    ASSUME TypedTask, LedgerOK, SameLedger, AddedIsNoMore, departed \subseteq departed',
           UNCHANGED <<limit, pendingEvent>>,
           UNCHANGED <<pc, mem>> \/ pc' = "idle",
           quota'.cycle = quota.cycle
    PROVE  RunOK'
<1>1. RoundFits'
  <2>1. redistribution # None => (Live' => Live)
    BY DEF Live, SameLedger, CapacitySteps
  <2> QED BY <2>1, RoundFitsKept DEF LedgerOK, RunOK
<1>2. TaskInWindow' /\ WrittenFirst'
  <2>1. CASE UNCHANGED <<pc, mem>>
    <3>1. pc \in {"round", "record"} => redistribution # None
        BY DEF TypedTask, TaskOK
    <3> QED BY <2>1, <3>1, SameTotals
            DEF LedgerOK, RunOK, TaskInWindow, WrittenFirst, SameLedger
  <2>2. CASE pc' = "idle"
    BY <2>2 DEF TaskInWindow, WrittenFirst, CapacitySteps
  <2> QED BY <2>1, <2>2
<1>3. TaskCovers'
    BY DEF Raised, LedgerOK, RunOK, TaskCovers, MembersResetAtBaseLimit, AddedIsNoMore
<1> QED BY <1>1, <1>2, <1>3 DEF RunOK

\* Nothing is taken off the raises of managed groups either.
LEMMA AddedStays ==
    ASSUME StoredOK, UNCHANGED <<added, departed, groups>>
    PROVE  AddedIsNoMore
BY DEF Raised, StoredOK, RaisesRecorded, AddedIsNoMore

LEMMA LedgerByUpstream ==
    ASSUME Expiring, Ordered, LedgerOK, Upstream
    PROVE  LedgerOK'
<1>1. /\ UNCHANGED <<limit, groups, observation, pendingEvent, redistribution, pc, mem,
                     added, departed>>
    BY DEF Upstream, Tick, Consume, Rollover, EarlyRollover, ShiftWindow,
           config, account, history, resetState, moneyHistory
<1>2. SameLedger /\ AddedIsNoMore /\ TypedTask
    BY <1>1, AddedStays DEF SameLedger, LedgerOK, Ordered
<1>3. StoredOK'
    BY <1>1, <1>2, StoredKept DEF LedgerOK
<1>4. CASE Tick \/ Consume
  <2>1. quota'.cycle = quota.cycle
    BY <1>4 DEF Tick, Consume, Ordered, TypedTask, TypeOK
  <2> QED BY <1>1, <1>2, <1>3, <2>1, RunKept DEF LedgerOK
<1>5. CASE Rollover
  <2>1. quota'.cycle = quota.cycle + 1
    BY <1>5 DEF Rollover
  <2>2. redistribution # None => redistribution.window.cycle <= quota.cycle
                                 /\ redistribution.window.cycle \in Int
                                 /\ quota.cycle \in Int
    <3>1. redistribution # None => redistribution.window \in KnownWindows
        BY NoneIsNoRecord DEF Ordered, TypedTask, TypeOK, Ledger, KnownWindows
    <3>2. redistribution # None => redistribution.window \in Observation
        BY DEF Ordered, TypedTask, TypeOK, Ledger
    <3> QED BY <3>1, <3>2 DEF Ordered, TypedTask, TypeOK, WindowsKnown, IsDated, IsCurrent,
                        Observation
  <2>3. redistribution # None => (Live' => Live)
    BY <1>1, <2>1, <2>2 DEF Live
  <2>4. RoundFits'
    BY <1>1, <1>2, <2>3, RoundFitsKept DEF LedgerOK, RunOK
  <2>5. TaskInWindow' /\ WrittenFirst' /\ TaskCovers'
    BY <1>1 DEF Raised, LedgerOK, RunOK, TaskInWindow, WrittenFirst, TaskCovers,
       MembersResetAtBaseLimit, Unfinished, pending
  <2> QED BY <1>3, <2>4, <2>5 DEF LedgerOK, RunOK
<1> QED BY <1>4, <1>5 DEF Upstream, EarlyRollover, ShiftWindow, Expiring

LEMMA LedgerByAdmin ==
    ASSUME Ordered, LedgerOK, Admin
    PROVE  LedgerOK'
<1>1. /\ UNCHANGED <<quota, limit, observation, pendingEvent, redistribution, pc, mem>>
      /\ departed \subseteq departed'
    BY DEF Admin, OpenForm, ReplaceConfig, upstream, account, resetState, history,
       moneyHistory
<1>2. AddedIsNoMore
  <2>1. CASE OpenForm
    BY <2>1, AddedStays DEF OpenForm, config, history, moneyHistory, LedgerOK
  <2>2. ASSUME NEW f \in BOOLEAN, NEW e \in BOOLEAN,
               NEW gs \in SUBSET Groups \ {{}}, ReplaceConfig(f, e, gs)
        PROVE  AddedIsNoMore
    <3>1. /\ added' = added /\ groups' = gs
          /\ departed' = departed \cup {g \in groups \ gs : added[g] > 0}
        BY <2>2 DEF ReplaceConfig
    <3>2. \A g \in Groups : Raised(g) => g \in groups
        BY DEF LedgerOK, StoredOK, RaisesRecorded
    <3> QED BY <3>1, <3>2 DEF AddedIsNoMore, Raised
  <2> QED BY <2>1, <2>2 DEF Admin
<1>3. SameLedger /\ TypedTask
    BY <1>1 DEF SameLedger, Ordered
<1> QED BY <1>1, <1>2, <1>3, StoredKept, RunKept DEF LedgerOK

LEMMA LedgerByStart ==
    ASSUME Ordered, LedgerOK, StartReset \/ StartCapacity
    PROVE  LedgerOK'
<1>1. /\ UNCHANGED <<quota, limit, groups, observation, pendingEvent, redistribution,
                     added, departed>>
      /\ pc' \in {"disable", "observe", "sample"}
      /\ mem' = [NoMemory EXCEPT !.flag = flag, !.groups = groups]
    BY DEF StartReset, StartCapacity, StartTask, upstream, config, resetState,
           history, moneyHistory
<1>2. SameLedger /\ AddedIsNoMore /\ TypedTask
    BY <1>1, AddedStays DEF SameLedger, LedgerOK, Ordered
<1>3. StoredOK'
    BY <1>1, <1>2, StoredKept DEF LedgerOK
<1>4. RoundFits'
  <2>1. redistribution # None => (Live' => Live)
    BY <1>1 DEF Live, CapacitySteps
  <2> QED BY <1>1, <1>2, <2>1, RoundFitsKept DEF LedgerOK, RunOK
<1>5. TaskInWindow' /\ WrittenFirst'
    BY <1>1 DEF TaskInWindow, WrittenFirst, CapacitySteps
<1>6. mem'.groups = groups
    BY <1>1 DEF NoMemory
<1>7. TaskCovers'
    BY <1>1, <1>6 DEF Raised, TaskCovers, MembersResetAtBaseLimit, LedgerOK, StoredOK,
       RaisesRecorded
<1> QED BY <1>3, <1>4, <1>5, <1>7 DEF LedgerOK, RunOK

LEMMA LedgerByOther ==
    ASSUME Ordered, LedgerOK, Abort \/ UNCHANGED vars
    PROVE  LedgerOK'
<1>1. /\ UNCHANGED <<quota, limit, groups, observation, pendingEvent, redistribution,
                     added, departed>>
      /\ UNCHANGED <<pc, mem>> \/ pc' = "idle"
    BY DEF Abort, vars, upstream, config, resetState, history, moneyHistory
<1>2. SameLedger /\ AddedIsNoMore /\ TypedTask
    BY <1>1, AddedStays DEF SameLedger, LedgerOK, Ordered
<1> QED BY <1>1, <1>2, StoredKept, RunKept DEF LedgerOK

----------------------------------------------------------------------------
(* The steps of the reset job.                                              *)

\* A step of it that leaves ledger, baseline, event and limits alone.
LEMMA LedgerByResetStep ==
    ASSUME TypedTask, LedgerOK, pc' \in {"idle", "observe"} \cup ResetSteps,
           UNCHANGED <<quota, limit, groups, observation, pendingEvent,
                       redistribution, added, departed>>,
           TaskCovers'
    PROVE  LedgerOK'
<1>1. SameLedger /\ AddedIsNoMore
    BY AddedStays DEF SameLedger, LedgerOK
<1>2. StoredOK'
    BY <1>1, StoredKept DEF LedgerOK
<1>3. redistribution # None => (Live' => Live)
    BY DEF Live, CapacitySteps, ResetSteps
<1>4. RoundFits'
    BY <1>1, <1>3, RoundFitsKept DEF LedgerOK, RunOK
<1>5. TaskInWindow' /\ WrittenFirst'
    BY DEF TaskInWindow, WrittenFirst, CapacitySteps, ResetSteps
<1> QED BY <1>2, <1>4, <1>5 DEF LedgerOK, RunOK

\* The baseline only moves within a window: a later one is detected as new.
LEMMA BaselineStays ==
    ASSUME Ordered, NEW o \in ObserveQuota, KeepObservation(o), observation # None
    PROVE  o.cycle = observation.cycle
<1>1. /\ o \in Observation /\ o.cycle = quota.cycle
      /\ observation \in Observation /\ observation \in KnownWindows
      /\ now \in Nat /\ Tolerance \in Nat /\ UsageDrop \in Nat
    BY ObservationTyped, WindowParameters DEF Ordered, TypedTask, TypeOK, KnownWindows
<1>2. /\ IsDated(observation) /\ InOrder(observation, o)
    BY <1>1, ReportsInOrder DEF Ordered
<1>3. observation.cycle <= o.cycle
    BY <1>1, <1>2 DEF IsDated, IsCurrent
<1>4. CASE observation.cycle < o.cycle
  <2>1. IsNewResetWindow(observation, o, now)
    BY <1>1, <1>2, <1>4 DEF IsNewResetWindow, InOrder, IsDated, Observation
  <2>2. lastHandled # None => o.resetAt > lastHandled.resetAt
    <3> SUFFICES ASSUME lastHandled # None PROVE o.resetAt > lastHandled.resetAt
        OBVIOUS
    <3>1. lastHandled \in Observation /\ lastHandled \in KnownWindows
        BY DEF Ordered, TypedTask, TypeOK, KnownWindows
    <3>2. InOrder(lastHandled, o)
        BY <3>1, ReportsInOrder DEF Ordered
    <3>3. lastHandled.cycle <= observation.cycle
        BY DEF Ordered, WindowsInOrder
    <3> QED BY <1>1, <1>4, <3>1, <3>2, <3>3 DEF InOrder, Observation
  <2>3. o.resetAt \in Int /\ (lastHandled # None => lastHandled.resetAt \in Int)
    BY <1>1 DEF Ordered, TypedTask, TypeOK, Observation
  <2> QED BY <2>1, <2>2, <2>3 DEF KeepObservation
<1> QED BY <1>1, <1>3, <1>4 DEF Observation

LEMMA LedgerByKeepObservation ==
    ASSUME Ordered, LedgerOK, NEW o \in ObserveQuota, KeepObservation(o)
    PROVE  LedgerOK'
<1>1. /\ UNCHANGED <<quota, limit, groups, pendingEvent, redistribution, added, departed>>
      /\ observation' = o /\ pc' = "idle"
    BY DEF KeepObservation, unchangedByReset, upstream
<1>2. SameLedger /\ AddedIsNoMore /\ TypedTask
    BY <1>1, AddedStays DEF SameLedger, LedgerOK, Ordered
<1>3. IssuedInWindow'
  <2>1. o # None
    BY ObservationTyped, NoneIsNoRecord DEF Ordered, TypedTask
  <2> QED BY <1>1, <1>2, <2>1, SameTotals, BaselineStays
          DEF LedgerOK, StoredOK, IssuedInWindow
<1>4. RaisesRecorded' /\ EventCovers' /\ RaisesAreInLedger'
    BY <1>1 DEF Raised, LedgerOK, StoredOK, RaisesRecorded, EventCovers, RaisesAreInLedger,
       InRound, Unfinished, pending, LedgerTotal
<1>5. RunOK'
    BY <1>1, <1>2, RunKept
<1> QED BY <1>3, <1>4, <1>5 DEF LedgerOK, StoredOK

LEMMA LedgerByDetect ==
    ASSUME Ordered, LedgerOK, NEW o \in ObserveQuota, DetectNewWindow(o)
    PROVE  LedgerOK'
<1>1. /\ UNCHANGED <<quota, limit, groups, observation, pendingEvent, redistribution,
                     added, departed>>
      /\ pc = "observe" /\ pc' = "detected" /\ mem'.groups = mem.groups
    BY DEF DetectNewWindow, unchangedByReset, upstream, resetState, Ordered, TypedTask,
       TypeOK, Memory
<1>2. TaskCovers'
    BY <1>1 DEF Raised, LedgerOK, RunOK, TaskCovers, MembersResetAtBaseLimit
<1> QED BY <1>1, <1>2, LedgerByResetStep DEF ResetSteps, Ordered

\* The event that is stored covers the groups that are raised.
LEMMA LedgerByPersistEvent ==
    ASSUME Ordered, LedgerOK, NEW subscriptions \in SUBSET Subs,
           PersistEvent(subscriptions)
    PROVE  LedgerOK'
<1>1. /\ UNCHANGED <<quota, limit, groups, observation, redistribution, mem, added, departed>>
      /\ pc = "detected" /\ pc' = "disable"
      /\ pendingEvent'.restore = RestorePlan
    BY DEF PersistEvent, unchangedByReset, upstream
<1>2. ASSUME NEW g \in Groups, Raised(g)
      PROVE  RestorePlan # None /\ g \in RestorePlan.groups
  <2>1. /\ redistribution # None /\ redistribution.base # None
        /\ \/ redistribution.limits[g] > 0
           \/ redistribution.pending # None
    BY <1>2 DEF Raised, LedgerOK, StoredOK, RaisesRecorded, IssuedInWindow, Issued, InRound
  <2>2. RestorePlan = [limit |-> redistribution.base, groups |-> mem.groups]
    BY <2>1 DEF RestorePlan
  <2>3. redistribution.base \in Nat /\ mem.groups \subseteq Groups
    BY <2>1 DEF Ordered, TypedTask, TypeOK, Ledger, Memory
  <2>4. RestorePlan \in Restore
    BY <2>2, <2>3 DEF Restore
  <2>5. g \in mem.groups
    BY <1>1, <1>2 DEF Raised, LedgerOK, RunOK, TaskCovers
  <2> QED BY <2>2, <2>4, <2>5, NoneIsNoRecord
<1>3. SameLedger /\ AddedIsNoMore
    BY <1>1, AddedStays DEF SameLedger, LedgerOK
<1>4. EventCovers'
    BY <1>1, <1>2 DEF Raised, EventCovers
<1>5. IssuedInWindow' /\ RaisesRecorded' /\ RaisesAreInLedger'
    BY <1>1 DEF Raised, LedgerOK, StoredOK, RaisesRecorded, RaisesAreInLedger, IssuedInWindow,
       Issued, InRound, Unfinished, pending, LedgerTotal
<1>6. pendingEvent' # None
    BY PersistEventTyped DEF Ordered, TypedTask, TaskOK, ResetSteps, PersistEvent
<1>7. RunOK'
    BY <1>1, <1>6 DEF Raised, RunOK, TaskInWindow, RoundFits, WrittenFirst, TaskCovers,
       MembersResetAtBaseLimit, CapacitySteps
<1> QED BY <1>4, <1>5, <1>7 DEF LedgerOK, StoredOK

LEMMA LedgerByDisable ==
    ASSUME Ordered, LedgerOK, DisableRedistributionForReset
    PROVE  LedgerOK'
<1>1. /\ UNCHANGED <<quota, limit, groups, observation, pendingEvent, redistribution,
                     added, departed>>
      /\ pc = "disable" /\ pc' = "restore"
      /\ mem'.todo = IF pendingEvent.restore = None THEN {}
                     ELSE pendingEvent.restore.groups
    BY DEF DisableRedistributionForReset, unchangedByReset, upstream, resetState,
       Ordered, TypedTask, TypeOK, Memory
<1>2. pendingEvent # None
    BY <1>1 DEF Ordered, TypedTask, TaskOK, ResetSteps
<1>3. TaskCovers'
    BY <1>1, <1>2 DEF Raised, LedgerOK, StoredOK, EventCovers, TaskCovers,
       MembersResetAtBaseLimit
<1> QED BY <1>1, <1>3, LedgerByResetStep DEF ResetSteps, Ordered

LEMMA LedgerByCheckGroup ==
    ASSUME Ordered, LedgerOK, NEW g \in Groups, CheckGroup(g)
    PROVE  LedgerOK'
<1>1. /\ UNCHANGED <<quota, limit, groups, observation, pendingEvent, redistribution,
                     added, departed>>
      /\ pc = "restore" /\ pc' \in {"restore", "restoreGroup"}
      /\ mem'.todo = mem.todo \/ (g \notin groups /\ mem'.todo = mem.todo \ {g})
    BY DEF CheckGroup, unchangedByReset, upstream, resetState, Ordered, TypedTask,
       TypeOK, Memory
<1>2. g \notin groups => ~Raised(g)
    BY DEF Raised, LedgerOK, StoredOK, RaisesRecorded
<1>3. TaskCovers'
    BY <1>1, <1>2 DEF Raised, LedgerOK, RunOK, TaskCovers, MembersResetAtBaseLimit
<1> QED BY <1>1, <1>3, LedgerByResetStep DEF ResetSteps, Ordered

LEMMA LedgerByRestoreGroup ==
    ASSUME Ordered, LedgerOK, NEW g \in Groups, RestoreGroup(g)
    PROVE  LedgerOK'
<1>1. /\ UNCHANGED <<quota, groups, observation, pendingEvent, redistribution>>
      /\ pc = "restoreGroup" /\ pc' = "restore"
      /\ added' = [added EXCEPT ![g] = 0] /\ departed' = departed \ {g}
      /\ mem'.todo = mem.todo \ {g}
    BY DEF RestoreGroup, BackToBase, unchangedByReset, upstream, resetState, Ordered, TypedTask,
       TypeOK, Memory
<1>2. pendingEvent # None
    BY <1>1 DEF Ordered, TypedTask, TaskOK, ResetSteps
<1>3. SameLedger /\ AddedIsNoMore /\ TypedTask
    BY <1>1 DEF Raised, SameLedger, AddedIsNoMore, LedgerOK, StoredOK, RaisesRecorded, Ordered,
       TypedTask, TypeOK
<1>4. StoredOK'
    BY <1>1, <1>3, StoredKept DEF LedgerOK
<1>5. TaskCovers'
    BY <1>1 DEF Raised, LedgerOK, RunOK, TaskCovers, MembersResetAtBaseLimit, Ordered,
       TypedTask, TypeOK
<1>6. TaskInWindow' /\ RoundFits' /\ WrittenFirst'
    BY <1>1, <1>2 DEF TaskInWindow, RoundFits, WrittenFirst, CapacitySteps
<1> QED BY <1>4, <1>5, <1>6 DEF LedgerOK, RunOK

\* Nothing is left to restore, so nothing is raised.
LEMMA LedgerByGroupsRestored ==
    ASSUME Ordered, LedgerOK, GroupsRestored
    PROVE  LedgerOK'
<1>1. /\ UNCHANGED <<quota, limit, groups, observation, pendingEvent, redistribution,
                     added, departed>>
      /\ pc = "restore" /\ pc' = "wipe" /\ mem.todo = {}
    BY DEF GroupsRestored, unchangedByReset, upstream, resetState
<1>2. \A g \in Groups \ departed : added[g] = 0
  <2> TAKE g \in Groups \ departed
  <2>1. ~(added[g] > 0)
    BY <1>1 DEF Raised, LedgerOK, RunOK, TaskCovers
  <2>2. added[g] \in Nat
    BY DEF Ordered, TypedTask, TypeOK
  <2> QED BY <2>1, <2>2
<1>3. TaskCovers'
    BY <1>1, <1>2 DEF Raised, TaskCovers, MembersResetAtBaseLimit
<1> QED BY <1>1, <1>3, LedgerByResetStep DEF ResetSteps, Ordered

LEMMA LedgerByWipe ==
    ASSUME Ordered, LedgerOK, NEW s \in Subs,
           ResetSubscriptionWeekly(s) \/ RecordProgress(s)
    PROVE  LedgerOK'
<1>1. /\ UNCHANGED <<quota, limit, groups, observation, redistribution, added, departed, mem>>
      /\ pc \in {"wipe", "recordWipe"} /\ pc' \in {"wipe", "recordWipe"}
    BY DEF ResetSubscriptionWeekly, RecordProgress, unchangedByReset, upstream,
       resetState
<1>2. \A g \in Groups \ departed : added[g] = 0
    BY <1>1 DEF Raised, LedgerOK, RunOK, TaskCovers, MembersResetAtBaseLimit
<1>3. pendingEvent' # None
    BY WipeTyped, RecordProgressTyped, <1>1 DEF Ordered, TypedTask, TaskOK, ResetSteps
<1>4. IssuedInWindow' /\ RaisesRecorded' /\ RaisesAreInLedger' /\ EventCovers'
    BY <1>1, <1>2 DEF Raised, LedgerOK, StoredOK, RaisesRecorded, RaisesAreInLedger,
       IssuedInWindow, Issued, EventCovers, LedgerTotal
<1>5. RunOK'
    BY <1>1, <1>2, <1>3 DEF Raised, RunOK, TaskInWindow, RoundFits, WrittenFirst, TaskCovers,
       MembersResetAtBaseLimit, CapacitySteps
<1> QED BY <1>4, <1>5 DEF LedgerOK, StoredOK

LEMMA LedgerByComplete ==
    ASSUME Ordered, LedgerOK, CompleteReset
    PROVE  LedgerOK'
<1>1. /\ pc = "wipe" /\ pc' \in {"observe", "idle"} /\ UNCHANGED <<added, departed>>
      /\ redistribution' = IF redistribution = None THEN None
                           ELSE FreshRedistribution(pendingEvent.observation)
    BY DEF CompleteReset
<1>2. \A g \in Groups \ departed' : added'[g] = 0
    BY <1>1 DEF Raised, LedgerOK, RunOK, TaskCovers, MembersResetAtBaseLimit
<1>3. StoredOK' /\ RoundFits'
    BY <1>1, <1>2, StoredAnew DEF FreshRedistribution
<1>4. TaskInWindow' /\ WrittenFirst' /\ TaskCovers'
    BY <1>1, <1>2 DEF Raised, TaskInWindow, WrittenFirst, TaskCovers, MembersResetAtBaseLimit,
       CapacitySteps
<1> QED BY <1>3, <1>4 DEF LedgerOK, RunOK

LEMMA LedgerByReset == Ordered /\ LedgerOK /\ ResetStep => LedgerOK'
BY LedgerByKeepObservation, LedgerByDetect, LedgerByPersistEvent, LedgerByDisable,
   LedgerByCheckGroup, LedgerByRestoreGroup, LedgerByGroupsRestored, LedgerByWipe,
   LedgerByComplete DEF ResetStep

----------------------------------------------------------------------------
(* The steps of the capacity job.                                           *)

\* What a run that has taken its sample knows of the windows.
LEMMA SeenWindow ==
    ASSUME Ordered, LedgerOK, pc \in CapacitySteps \ {"sample"}
    PROVE  /\ mem.seen \in Observation /\ mem.seen.cycle <= quota.cycle
           /\ redistribution # None =>
                 /\ redistribution.window.cycle <= mem.seen.cycle
                 /\ IsSameResetWindow(redistribution.window, mem.seen)
                       <=> redistribution.window.cycle = mem.seen.cycle
           /\ observation # None =>
                 (IsSameResetWindow(observation, mem.seen)
                       <=> observation.cycle = mem.seen.cycle)
<1>1. mem.seen \in Observation /\ mem.seen \in KnownWindows
    BY NoneIsNoRecord DEF Ordered, TypedTask, TypeOK, TaskOK, Memory, CapacitySteps,
       KnownWindows
<1>2. mem.seen.cycle <= quota.cycle
    BY <1>1 DEF Ordered, WindowsKnown, IsDated, IsCurrent
<1>3. ASSUME NEW o \in KnownWindows
      PROVE  IsSameResetWindow(o, mem.seen) <=> o.cycle = mem.seen.cycle
    BY <1>1, KnownTyped, SameIsCycle DEF Ordered, WindowsKnown
<1>4. redistribution # None => redistribution.window \in KnownWindows
    BY NoneIsNoRecord DEF Ordered, TypedTask, TypeOK, Ledger, KnownWindows
<1>5. observation # None => observation \in KnownWindows
    BY DEF KnownWindows
<1> QED BY <1>1, <1>2, <1>3, <1>4, <1>5 DEF LedgerOK, RunOK, TaskInWindow

\* A step that changes nothing the invariant speaks of but the step itself.
LEMMA LedgerByQuietStep ==
    ASSUME TypedTask, LedgerOK, SameLedger, pc \in CapacitySteps \ {"sample"},
           UNCHANGED <<limit, groups, observation, pendingEvent, added, departed>>,
           quota' = quota,
           \/ pc' = "idle"
           \/ /\ pc' \in {"writeGroups", "redistribute"}
              /\ mem'.seen = mem.seen
    PROVE  LedgerOK'
<1>1. AddedIsNoMore
    BY AddedStays DEF LedgerOK
<1>2. StoredOK'
    BY <1>1, StoredKept DEF LedgerOK
<1>3. redistribution # None => (Live' => Live)
    BY DEF Live, SameLedger, CapacitySteps
<1>4. RoundFits'
    BY <1>1, <1>3, RoundFitsKept DEF LedgerOK, RunOK
<1>5. TaskInWindow' /\ WrittenFirst' /\ TaskCovers'
    BY DEF Raised, LedgerOK, RunOK, TaskInWindow, WrittenFirst, TaskCovers, SameLedger,
       MembersResetAtBaseLimit, CapacitySteps
<1> QED BY <1>2, <1>4, <1>5 DEF LedgerOK, RunOK

LEMMA LedgerBySample ==
    ASSUME Ordered, LedgerOK, NEW o \in ObserveQuota, Sample(o)
    PROVE  LedgerOK'
<1>1. /\ UNCHANGED <<quota, limit, groups, observation, pendingEvent, redistribution,
                     added, departed>>
      /\ pc = "sample" /\ pc' = "writeGroups" /\ mem'.seen = o
    BY DEF Sample, unchangedByCapacity, upstream, config, resetState, moneyHistory,
       Ordered, TypedTask, TypeOK, Memory
<1>2. SameLedger /\ AddedIsNoMore /\ TypedTask
    BY <1>1, AddedStays DEF SameLedger, LedgerOK, Ordered
<1>3. StoredOK'
    BY <1>1, <1>2, StoredKept DEF LedgerOK
<1>4. o.cycle = quota.cycle
    BY ObservationTyped DEF Ordered, TypedTask
<1>5. RoundFits'
  <2>1. redistribution # None => (Live' => Live)
    BY <1>1, <1>4 DEF Live
  <2> QED BY <1>1, <1>2, <2>1, RoundFitsKept DEF LedgerOK, RunOK
<1>6. redistribution # None => redistribution.window.cycle <= quota.cycle
  <2>1. redistribution # None => redistribution.window \in KnownWindows
    BY NoneIsNoRecord DEF Ordered, TypedTask, TypeOK, Ledger, KnownWindows
  <2> QED BY <2>1 DEF Ordered, WindowsKnown, IsDated, IsCurrent
<1>7. TaskInWindow' /\ WrittenFirst' /\ TaskCovers'
    BY <1>1, <1>4, <1>6 DEF Raised, TaskInWindow, WrittenFirst, TaskCovers,
       MembersResetAtBaseLimit, CapacitySteps
<1> QED BY <1>3, <1>5, <1>7 DEF LedgerOK, RunOK

\* A limit is written outside of rounds only.
LEMMA LedgerByWriteGroup ==
    ASSUME Ordered, LedgerOK, NEW g \in Groups, WriteGroup(g)
    PROVE  LedgerOK'
<1>1. /\ UNCHANGED <<quota, groups, observation, pendingEvent, redistribution>>
      /\ pc = "writeGroups" /\ pc' = pc /\ mem'.seen = mem.seen
      /\ \/ UNCHANGED <<added, departed>>
         \/ added' = [added EXCEPT ![g] = 0] /\ departed' = departed \ {g}
      /\ ShouldUpdate(g)
    BY DEF WriteGroup, BackToBase, upstream, config, resetState, Ordered, TypedTask, TypeOK, Memory
<1>2. SameLedger /\ AddedIsNoMore /\ TypedTask
    BY <1>1 DEF Raised, SameLedger, AddedIsNoMore, LedgerOK, StoredOK, RaisesRecorded, Ordered,
       TypedTask, TypeOK
<1>3. StoredOK'
    BY <1>1, <1>2, StoredKept DEF LedgerOK
<1>4. redistribution # None /\ Live => redistribution.pending = None
  <2>1. quota.cycle \in Int /\ mem.seen.cycle \in Int
        /\ (redistribution # None => redistribution.window.cycle \in Int)
    BY <1>1, SeenWindow DEF Ordered, TypedTask, TypeOK, Ledger, Observation,
       CapacitySteps
  <2>2. redistribution # None /\ Live =>
            redistribution.window.cycle = mem.seen.cycle
    BY <1>1, <2>1, SeenWindow DEF Live, CapacitySteps
  <2>3. redistribution # None /\ Live => LedgerOfWindow(mem.seen) = redistribution
    BY <1>1, <2>2, SeenWindow DEF LedgerOfWindow, CapacitySteps
  <2> QED BY <1>1, <2>3 DEF ShouldUpdate
<1>5. RoundFits'
    BY <1>1, <1>4 DEF RoundFits, Live, InRound
<1>6. TaskInWindow' /\ WrittenFirst' /\ TaskCovers'
    BY <1>1 DEF Raised, LedgerOK, RunOK, TaskInWindow, WrittenFirst, TaskCovers,
       MembersResetAtBaseLimit
<1> QED BY <1>3, <1>5, <1>6 DEF LedgerOK, RunOK

\* The ledger that a run works on is the stored one, or a new one when no
\* group is raised; when the reset of the window is done, it is of the window.
LEMMA WorkingOK ==
    ASSUME Ordered, LedgerOK, pc = "redistribute"
    PROVE  /\ \/ redistribution # None /\ Working = redistribution
              \/ /\ Working = FreshRedistribution(mem.seen)
                 /\ \A g \in Groups \ departed : added[g] = 0
                 /\ redistribution # None =>
                       redistribution.window.cycle < mem.seen.cycle
           /\ ResetReady => /\ observation # None /\ pendingEvent = None
                            /\ observation.cycle = mem.seen.cycle
                            /\ Working.window.cycle = mem.seen.cycle
<1>1. ResetReady => /\ observation # None /\ pendingEvent = None
                    /\ observation.cycle = mem.seen.cycle
    BY SeenWindow DEF ResetReady, CapacitySteps
<1>2. CASE redistribution # None /\ Working = redistribution
  <2>1. ResetReady => redistribution.window.cycle = mem.seen.cycle
    <3>1. CASE IsSameResetWindow(redistribution.window, mem.seen)
        BY <1>2, <3>1, SeenWindow DEF CapacitySteps
    <3>2. CASE ~IsSameResetWindow(redistribution.window, mem.seen) /\ ResetReady
        <4>1. redistribution = FreshRedistribution(mem.seen)
            BY <1>2, <3>2 DEF Working
        <4> QED BY <4>1 DEF FreshRedistribution
    <3> QED BY <3>1, <3>2
  <2> QED BY <1>1, <1>2, <2>1
<1>3. CASE ~(redistribution # None /\ Working = redistribution)
  <2>1. /\ Working = FreshRedistribution(mem.seen)
        /\ redistribution # None =>
              /\ ~IsSameResetWindow(redistribution.window, mem.seen)
              /\ ResetReady
    BY <1>3 DEF Working
  <2>2. ~Issued
    <3>1. redistribution # None => redistribution.window.cycle # mem.seen.cycle
        BY <2>1, SeenWindow DEF CapacitySteps
    <3> QED BY <1>1, <2>1, <3>1 DEF LedgerOK, StoredOK, IssuedInWindow, Issued
  <2>3. \A g \in Groups \ departed : added[g] = 0
    <3> TAKE g \in Groups \ departed
    <3>1. ~(added[g] > 0)
        BY <2>2 DEF Raised, LedgerOK, StoredOK, RaisesRecorded, Issued, InRound
    <3>2. added[g] \in Nat
        BY DEF Ordered, TypedTask, TypeOK
    <3> QED BY <3>1, <3>2
  <2>4. redistribution # None => redistribution.window.cycle < mem.seen.cycle
    <3>1. redistribution # None =>
              /\ redistribution.window.cycle \in Int /\ mem.seen.cycle \in Int
              /\ redistribution.window.cycle <= mem.seen.cycle
              /\ redistribution.window.cycle # mem.seen.cycle
      <4>1. redistribution # None => redistribution.window \in Observation
        BY DEF Ordered, TypedTask, TypeOK, Ledger
      <4> QED BY <2>1, <4>1, SeenWindow DEF CapacitySteps, Observation
    <3> QED BY <3>1
  <2>5. Working.window.cycle = mem.seen.cycle
    BY <2>1 DEF FreshRedistribution
  <2> QED BY <1>1, <2>1, <2>3, <2>4, <2>5
<1> QED BY <1>2, <1>3

\* A run that ends with that ledger, its base limit brought up to date or not.
LEMMA LedgerByEndOfRun ==
    ASSUME Ordered, LedgerOK, pc = "redistribute", pc' = "idle", quota' = quota,
           UNCHANGED <<limit, groups, observation, pendingEvent, added, departed>>,
           \/ redistribution' = Working
           \/ mem.net # None /\ redistribution' = Based
    PROVE  LedgerOK'
<1>1. /\ Working \in Ledger
      /\ \/ redistribution' = Working
         \/ \E b \in Nat : redistribution' = [Working EXCEPT !.base = b]
  <2>1. mem.net # None => PerShare(mem.net) \in Nat
    BY PerShareIsAmount, AmountsAreCents DEF Ordered, TypedTask, TypeOK, Memory
  <2> QED BY <2>1, WorkingTyped DEF Ordered, Based
<1>2. redistribution' \in Ledger
    BY <1>1 DEF Ledger
<1>3. CASE redistribution # None /\ Working = redistribution
  <2>1. SameLedger
    BY <1>1, <1>2, <1>3, NoneIsNoRecord DEF SameLedger, Ledger
  <2> QED BY <2>1, LedgerByQuietStep DEF Ordered, CapacitySteps
<1>4. CASE Working = FreshRedistribution(mem.seen) /\ \A g \in Groups \ departed : added[g] = 0
  <2>1. /\ redistribution'.pending = None /\ redistribution'.total = 0
        /\ \A g \in Groups : redistribution'.limits[g] = 0
    BY <1>1, <1>4 DEF FreshRedistribution, Ledger
  <2>2. StoredOK' /\ RoundFits'
    BY <1>4, <2>1, StoredAnew
  <2>3. TaskInWindow' /\ WrittenFirst' /\ TaskCovers'
    BY DEF Raised, TaskInWindow, WrittenFirst, TaskCovers, MembersResetAtBaseLimit,
       CapacitySteps
  <2> QED BY <2>2, <2>3 DEF LedgerOK, RunOK
<1> QED BY <1>3, <1>4, WorkingOK

\* A new round: its targets are a share above the limits, and what was raised
\* before is the total of the ledger at most.
LEMMA LedgerByStartRound ==
    ASSUME Ordered, LedgerOK, NEW members \in BOOLEAN, StartRound(members)
    PROVE  LedgerOK'
<1> DEFINE share == Unallocated \div ShareCount
           targets == [g \in Groups |-> IF g \in mem.groups THEN limit[g] + share ELSE 0]
           round == [perShare  |-> share, targets |-> targets,
                     committed |-> AllocationBase + share * ShareCount,
                     completed |-> {}]
<1>1. /\ UNCHANGED <<quota, limit, groups, observation, pendingEvent, added, departed, mem>>
      /\ pc = "redistribute" /\ pc' = "round" /\ Working.pending = None
      /\ ResetReady /\ mem.net # None
      /\ redistribution' = [Based EXCEPT !.pending = round]
    BY DEF StartRound, HasEstimate, unchangedByCapacity, upstream, config, resetState
<1>2. share \in Nat
    BY <1>1, AllocationTyped DEF Ordered
<1>3. /\ Working \in Ledger /\ Based \in Ledger /\ Based.base # None
      /\ Based.window = Working.window /\ Based.total = Working.total
      /\ Based.limits = Working.limits
  <2>1. PerShare(mem.net) \in Nat
    BY <1>1, PerShareIsAmount, AmountsAreCents DEF Ordered, TypedTask, TypeOK, Memory
  <2> QED BY <1>1, <2>1, WorkingTyped, NoneIsNoRecord DEF Ordered, Based, Ledger
<1>4. /\ observation # None /\ pendingEvent = None
      /\ observation.cycle = mem.seen.cycle
      /\ Working.window.cycle = mem.seen.cycle
    BY <1>1, WorkingOK
<1>5. round # None /\ redistribution' # None
    BY StartRoundTyped, <1>1, <1>3 DEF Ordered, TypedTask, TaskOK, CapacitySteps, Ledger
<1>6. /\ redistribution'.window = Working.window /\ redistribution'.base # None
      /\ redistribution'.total = Working.total
      /\ redistribution'.limits = Working.limits
      /\ redistribution'.pending = round
    BY <1>1, <1>3 DEF Ledger
<1>7. /\ LedgerTotal' = Working.total + share
      /\ \A g \in Groups : InRound(g)' <=> targets[g] > 0
    BY <1>5, <1>6 DEF LedgerTotal, InRound, Unfinished, pending
<1>8. ASSUME NEW g \in Groups
      PROVE  /\ added[g] \in Nat /\ limit[g] \in Nat /\ Working.total \in Nat
             /\ g \notin departed => added[g] <= Working.total
             /\ Raised(g) => g \in groups /\ Working.limits[g] > 0
  <2>1. added[g] \in Nat /\ limit[g] \in Nat /\ Working.total \in Nat
    BY <1>3 DEF Ordered, TypedTask, TypeOK, Ledger
  <2>2. CASE redistribution # None /\ Working = redistribution
    BY <1>1, <2>1, <2>2 DEF Raised, LedgerOK, StoredOK, RaisesAreInLedger, RaisesRecorded,
       LedgerTotal, InRound
  <2>3. CASE \A h \in Groups \ departed : added[h] = 0
    BY <2>1, <2>3 DEF Raised
  <2> QED BY <2>1, <2>2, <2>3, WorkingOK, <1>1
<1>9. IssuedInWindow' /\ EventCovers'
    BY <1>1, <1>4, <1>6 DEF Raised, IssuedInWindow, EventCovers
<1>10. RaisesRecorded'
    BY <1>1, <1>5, <1>6, <1>8 DEF Raised, RaisesRecorded
<1>11. RaisesAreInLedger'
    BY <1>1, <1>2, <1>7, <1>8 DEF RaisesAreInLedger
<1>12. RoundFits'
  <2> SUFFICES ASSUME NEW g \in Groups \ departed', InRound(g)'
               PROVE  pending'.targets[g] + added'[g] <= limit'[g] + LedgerTotal'
    BY DEF RoundFits
  <2>1. pending'.targets[g] = limit[g] + share
    BY <1>6, <1>7 DEF pending
  <2> QED BY <1>1, <1>2, <1>7, <1>8, <2>1
<1>13. TaskInWindow' /\ WrittenFirst' /\ TaskCovers'
    BY <1>1, <1>4, <1>6, SeenWindow DEF Raised, TaskInWindow, WrittenFirst, TaskCovers,
       MembersResetAtBaseLimit, Observation, CapacitySteps
<1> QED BY <1>9, <1>10, <1>11, <1>12, <1>13 DEF LedgerOK, StoredOK, RunOK

LEMMA LedgerByResumeRound ==
    ASSUME Ordered, LedgerOK, NEW members \in BOOLEAN, ResumeRound(members)
    PROVE  LedgerOK'
<1>1. /\ UNCHANGED <<quota, limit, groups, observation, pendingEvent, added, departed, mem,
                     redistribution>>
      /\ pc = "redistribute" /\ pc' = "round" /\ Working.pending # None /\ ResetReady
    BY DEF ResumeRound, HasEstimate, unchangedByCapacity, upstream, config, resetState,
       moneyHistory
<1>2. /\ redistribution # None /\ Working = redistribution /\ pendingEvent = None
      /\ redistribution.window.cycle = mem.seen.cycle
    BY <1>1, WorkingOK DEF FreshRedistribution
<1>3. SameLedger /\ AddedIsNoMore /\ TypedTask
    BY <1>1, AddedStays DEF SameLedger, LedgerOK, Ordered
<1>4. StoredOK'
    BY <1>1, <1>3, StoredKept DEF LedgerOK
<1>5. RoundFits'
    BY <1>1, <1>3, RoundFitsKept DEF LedgerOK, RunOK, Live, CapacitySteps
<1>6. TaskInWindow' /\ WrittenFirst' /\ TaskCovers'
    BY <1>1, <1>2 DEF Raised, LedgerOK, RunOK, TaskInWindow, WrittenFirst, TaskCovers,
       MembersResetAtBaseLimit, CapacitySteps
<1> QED BY <1>4, <1>5, <1>6 DEF LedgerOK, RunOK

\* In a round, the ledger with the run's base limit is the same but for it.
LEMMA RebasedIsSame ==
    ASSUME TypedTask, pc \in {"round", "record"}
    PROVE  /\ redistribution # None /\ redistribution.pending # None
           /\ Rebased.window = redistribution.window
           /\ Rebased.limits = redistribution.limits
           /\ Rebased.total = redistribution.total
           /\ Rebased.committed = redistribution.committed
           /\ Rebased.pending = redistribution.pending
           /\ Rebased.base # None
<1>1. redistribution # None /\ redistribution.pending # None /\ mem.net \in Nets
    BY DEF TypedTask, TypeOK, TaskOK, Memory
<1>2. PerShare(mem.net) \in Nat /\ redistribution \in Ledger
    BY <1>1, PerShareIsAmount, RoundTyped, AmountsAreCents
<1> QED BY <1>1, <1>2, NoneIsNoRecord DEF Rebased, Ledger

LEMMA LedgerByLeaveRound ==
    ASSUME Ordered, LedgerOK, NEW g \in Groups, LeaveRound(g)
    PROVE  LedgerOK'
<1>1. /\ UNCHANGED <<quota, limit, groups, observation, pendingEvent, added, departed>>
      /\ pc = "round" /\ pc' = "idle" /\ redistribution' = Rebased
    BY DEF LeaveRound, NextTarget, unchangedByCapacity, upstream, config, resetState,
       moneyHistory
<1>2. redistribution' # None
    BY <1>1, RoundTyped, NoneIsNoRecord DEF Ordered
<1>3. SameLedger
    BY <1>1, <1>2, RebasedIsSame DEF SameLedger, Ordered
<1> QED BY <1>1, <1>3, LedgerByQuietStep DEF Ordered, CapacitySteps

\* The ledger after a group was taken off the round.
LEMMA CompletedRound ==
    ASSUME TypedTask, pc \in {"round", "record"}, NEW g \in Groups,
           NEW l \in [Groups -> Nat],
           redistribution' = [Rebased EXCEPT !.limits = l,
                                 !.pending.completed = @ \cup {g}]
    PROVE  /\ redistribution' # None /\ redistribution'.pending # None
           /\ redistribution'.window = redistribution.window
           /\ redistribution'.total = redistribution.total
           /\ redistribution'.committed = redistribution.committed
           /\ redistribution'.limits = l
           /\ redistribution'.base # None
           /\ redistribution'.pending = [pending EXCEPT !.completed = @ \cup {g}]
           /\ pending'.targets = pending.targets
           /\ Unfinished' = Unfinished \ {g}
           /\ LedgerTotal' = LedgerTotal
<1>1. /\ Rebased \in Ledger /\ pending \in Round /\ Rebased.pending = pending
      /\ redistribution # None /\ redistribution.pending = pending /\ pending # None
    BY RoundTyped, RebasedIsSame DEF pending
<1>2. redistribution' \in Ledger /\ redistribution'.pending # None
    BY CompletedTyped
<1>3. redistribution'.pending = [pending EXCEPT !.completed = @ \cup {g}]
    BY <1>1 DEF Ledger
<1>4. /\ pending'.targets = pending.targets /\ pending'.perShare = pending.perShare
      /\ pending'.completed = pending.completed \cup {g}
    BY <1>1, <1>3 DEF pending, Round
<1>5. /\ redistribution'.window = redistribution.window
      /\ redistribution'.total = redistribution.total
      /\ redistribution'.committed = redistribution.committed
      /\ redistribution'.limits = l
      /\ redistribution'.base # None
    BY <1>1, RebasedIsSame DEF Ledger
<1>6. redistribution' # None
    BY <1>2, NoneIsNoRecord
<1>7. Unfinished' = Unfinished \ {g}
    BY <1>4 DEF Unfinished
<1>8. LedgerTotal' = LedgerTotal
    BY <1>1, <1>2, <1>4, <1>5, <1>6 DEF LedgerTotal, pending
<1> QED BY <1>2, <1>3, <1>4, <1>5, <1>6, <1>7, <1>8

LEMMA LedgerByCompleted ==
    ASSUME Ordered, LedgerOK, pc \in {"round", "record"}, pc' = "round", mem' = mem,
           NEW g \in Groups, NEW l \in [Groups -> Nat],
           redistribution' = [Rebased EXCEPT !.limits = l,
                                 !.pending.completed = @ \cup {g}],
           UNCHANGED <<quota, limit, groups, observation, pendingEvent, added, departed>>,
           \A h \in Groups : h # g => l[h] = redistribution.limits[h],
           Raised(g) => l[g] > 0
    PROVE  LedgerOK'
<1>1. redistribution # None /\ redistribution.pending # None
    BY RebasedIsSame DEF Ordered
<1>2. /\ redistribution' # None /\ redistribution'.pending # None
      /\ redistribution'.window = redistribution.window
      /\ redistribution'.total = redistribution.total
      /\ redistribution'.limits = l
      /\ redistribution'.base # None
      /\ pending'.targets = pending.targets
      /\ Unfinished' = Unfinished \ {g}
      /\ LedgerTotal' = LedgerTotal
    BY CompletedRound DEF Ordered
<1>3. IssuedInWindow' /\ EventCovers'
    BY <1>1, <1>2 DEF Raised, LedgerOK, StoredOK, IssuedInWindow, Issued, EventCovers
<1>4. RaisesRecorded'
    BY <1>1, <1>2 DEF Raised, LedgerOK, StoredOK, RaisesRecorded, InRound
<1>5. RaisesAreInLedger'
    BY <1>2 DEF LedgerOK, StoredOK, RaisesAreInLedger
<1>6. RoundFits'
    BY <1>1, <1>2 DEF LedgerOK, RunOK, RoundFits, Live, InRound, CapacitySteps
<1>7. TaskInWindow' /\ WrittenFirst' /\ TaskCovers'
    BY <1>1, <1>2 DEF Raised, LedgerOK, RunOK, TaskInWindow, WrittenFirst, TaskCovers,
       MembersResetAtBaseLimit, CapacitySteps
<1> QED BY <1>3, <1>4, <1>5, <1>6, <1>7 DEF LedgerOK, StoredOK, RunOK

LEMMA LedgerByDropTarget ==
    ASSUME Ordered, LedgerOK, NEW g \in Groups, DropTarget(g)
    PROVE  LedgerOK'
<1>1. /\ UNCHANGED <<quota, limit, groups, observation, pendingEvent, added, departed, mem>>
      /\ pc = "round" /\ pc' = "round" /\ g \notin groups
      /\ redistribution' = [Rebased EXCEPT !.pending.completed = @ \cup {g}]
    BY DEF DropTarget, NextTarget, unchangedByCapacity, upstream, config, resetState,
       moneyHistory
<1>2. /\ Rebased \in Ledger /\ Rebased.limits = redistribution.limits
      /\ Rebased.limits \in [Groups -> Nat]
    BY <1>1, RoundTyped, RebasedIsSame DEF Ordered, Ledger
<1>3. redistribution' = [Rebased EXCEPT !.limits = Rebased.limits,
                                        !.pending.completed = @ \cup {g}]
    BY <1>1, <1>2 DEF Ledger
<1>4. ~Raised(g)
    BY <1>1 DEF Raised, LedgerOK, StoredOK, RaisesRecorded
<1> QED BY <1>1, <1>2, <1>3, <1>4, LedgerByCompleted

LEMMA LedgerByRecordTarget ==
    ASSUME Ordered, LedgerOK, NEW g \in Groups, RecordTarget(g)
    PROVE  LedgerOK'
<1> DEFINE recorded == Larger(pending.targets[g], limit[g])
           l == [Rebased.limits EXCEPT ![g] = recorded]
<1>1. /\ UNCHANGED <<quota, limit, groups, observation, pendingEvent, added, departed, mem>>
      /\ pc \in {"round", "record"} /\ pc' = "round" /\ g \in Unfinished
      /\ redistribution' = [Rebased EXCEPT !.limits[g] = recorded,
                                           !.pending.completed = @ \cup {g}]
    BY DEF RecordTarget, IsFirst, unchangedByCapacity, upstream, config, resetState,
       moneyHistory
<1>2. /\ Rebased \in Ledger /\ Rebased.limits = redistribution.limits
      /\ Rebased.limits \in [Groups -> Nat] /\ pending \in Round
    BY <1>1, RoundTyped, RebasedIsSame DEF Ordered, Ledger
<1>3. recorded \in Nat /\ recorded > 0
  <2>1. pending.targets[g] \in Nat /\ pending.targets[g] > 0 /\ limit[g] \in Nat
    BY <1>1, <1>2 DEF Round, Unfinished, Ordered, TypedTask, TypeOK
  <2> QED BY <2>1 DEF Larger
<1>4. /\ l \in [Groups -> Nat] /\ l[g] > 0
      /\ \A h \in Groups : h # g => l[h] = redistribution.limits[h]
    BY <1>2, <1>3
<1>5. redistribution' = [Rebased EXCEPT !.limits = l,
                                        !.pending.completed = @ \cup {g}]
    BY <1>1, <1>2 DEF Ledger
<1> HIDE DEF l, recorded
<1> QED BY <1>1, <1>4, <1>5, LedgerByCompleted

\* Writing a target: the raise is what the round has left for the group.
LEMMA RaiseKeeps ==
    ASSUME Ordered, LedgerOK, pc = "round", NEW g \in Groups, NextTarget(g),
           Writable(g), limit[g] < pending.targets[g], RaiseLimit(g), SameLedger,
           UNCHANGED <<quota, departed, groups, observation, pendingEvent>>,
           mem' = mem \/ pc' = "idle"
    PROVE  StoredOK' /\ RoundFits'
<1>1. /\ redistribution # None /\ redistribution.pending # None /\ pending \in Round
      /\ g \in Unfinished /\ g \in groups
    BY RebasedIsSame, RoundTyped DEF Ordered, NextTarget, IsFirst, Writable
<1>2. pendingEvent = None /\ Live
    BY DEF LedgerOK, RunOK, TaskInWindow, Live, CapacitySteps
<1>3. redistribution' # None /\ (Live' => Live)
    BY <1>1, <1>2 DEF SameLedger
<1>4. /\ pending' = pending /\ Unfinished' = Unfinished /\ LedgerTotal' = LedgerTotal
      /\ \A h \in Groups : InRound(h)' <=> InRound(h)
    BY <1>1, SameTotals
<1>5. g \notin departed => pending.targets[g] + added[g] <= limit[g] + LedgerTotal
    BY <1>1, <1>2 DEF LedgerOK, RunOK, RoundFits, InRound
<1>6. /\ pending.targets[g] \in Nat /\ limit[g] \in Nat /\ added[g] \in Nat
      /\ LedgerTotal \in Nat
    BY <1>1, TotalIsAmount DEF Round, Ordered, TypedTask, TypeOK
<1>7. /\ limit'[g] = pending.targets[g]
      /\ added'[g] = added[g] + pending.targets[g] - limit[g]
      /\ \A h \in Groups : h # g => limit'[h] = limit[h] /\ added'[h] = added[h]
    BY DEF RaiseLimit, Ordered, TypedTask, TypeOK
<1>8. IssuedInWindow' /\ EventCovers'
    BY <1>2, SameTotals DEF Raised, LedgerOK, StoredOK, IssuedInWindow, EventCovers, SameLedger,
       Issued
<1>9. RaisesRecorded'
    BY <1>1, <1>3, <1>4, <1>7 DEF Raised, LedgerOK, StoredOK, RaisesRecorded, InRound, SameLedger
<1>10. RaisesAreInLedger'
    BY <1>4, <1>5, <1>6, <1>7 DEF LedgerOK, StoredOK, RaisesAreInLedger
<1>11. RoundFits'
  <2> SUFFICES ASSUME NEW h \in Groups \ departed', InRound(h)'
               PROVE  pending'.targets[h] + added'[h] <= limit'[h] + LedgerTotal'
    BY DEF RoundFits
  <2>1. CASE h = g
    BY <1>4, <1>5, <1>6, <1>7, <2>1
  <2>2. CASE h # g
    BY <1>1, <1>2, <1>4, <1>7, <2>2 DEF LedgerOK, RunOK, RoundFits
  <2> QED BY <2>1, <2>2
<1> QED BY <1>8, <1>9, <1>10, <1>11 DEF StoredOK

LEMMA LedgerByWriteTarget ==
    ASSUME Ordered, LedgerOK, NEW g \in Groups, WriteTarget(g)
    PROVE  LedgerOK'
<1>1. /\ UNCHANGED <<quota, groups, observation, pendingEvent, redistribution, mem,
                     departed>>
      /\ pc = "round" /\ pc' = "record" /\ NextTarget(g) /\ Writable(g)
      /\ limit[g] < pending.targets[g] /\ RaiseLimit(g)
    BY DEF WriteTarget, NextTarget, unchangedByCapacity, upstream, config, resetState
<1>2. SameLedger
    BY <1>1 DEF SameLedger
<1>3. StoredOK' /\ RoundFits'
    BY <1>1, <1>2, RaiseKeeps
<1>4. WrittenFirst'
  <2>1. redistribution # None
    BY <1>1, RebasedIsSame DEF Ordered
  <2>2. /\ Unfinished' = Unfinished /\ pending' = pending
    BY <1>2, <2>1, SameTotals
  <2>3. \A h \in Groups : IsFirst(h, Unfinished) => h = g
    BY <1>1, IdsAreOrdered DEF NextTarget, IsFirst
  <2>4. limit'[g] = pending.targets[g] /\ pending.targets[g] \in Nat
    BY <1>1, RoundTyped DEF RaiseLimit, Ordered, TypedTask, TypeOK, Round
  <2> QED BY <2>2, <2>3, <2>4 DEF WrittenFirst
<1>5. TaskInWindow' /\ TaskCovers'
    BY <1>1 DEF Raised, LedgerOK, RunOK, TaskInWindow, TaskCovers, MembersResetAtBaseLimit,
       CapacitySteps
<1> QED BY <1>3, <1>4, <1>5 DEF LedgerOK, RunOK

LEMMA LedgerByFailTarget ==
    ASSUME Ordered, LedgerOK, NEW g \in Groups, FailTarget(g)
    PROVE  LedgerOK'
<1>1. /\ UNCHANGED <<quota, groups, departed, observation, pendingEvent>>
      /\ pc = "round" /\ pc' = "idle" /\ NextTarget(g) /\ Writable(g)
      /\ limit[g] < pending.targets[g]
      /\ redistribution' = Rebased
      /\ RaiseLimit(g) \/ UNCHANGED <<limit, added>>
    BY DEF FailTarget, NextTarget, upstream, config, resetState
<1>2. SameLedger
  <2>1. redistribution' # None
    BY <1>1, RoundTyped, NoneIsNoRecord DEF Ordered
  <2> QED BY <1>1, <2>1, RebasedIsSame DEF SameLedger, Ordered
<1>3. CASE UNCHANGED <<limit, added>>
    BY <1>1, <1>2, <1>3, LedgerByQuietStep DEF Ordered, CapacitySteps
<1>4. CASE RaiseLimit(g)
  <2>1. StoredOK' /\ RoundFits'
    BY <1>1, <1>2, <1>4, RaiseKeeps
  <2>2. TaskInWindow' /\ WrittenFirst' /\ TaskCovers'
    BY <1>1 DEF Raised, TaskInWindow, WrittenFirst, TaskCovers, MembersResetAtBaseLimit,
       CapacitySteps
  <2> QED BY <2>1, <2>2 DEF LedgerOK, RunOK
<1> QED BY <1>1, <1>3, <1>4

\* The round becomes part of the total.
LEMMA LedgerByFinishRound ==
    ASSUME Ordered, LedgerOK, FinishRound
    PROVE  LedgerOK'
<1>1. /\ UNCHANGED <<quota, limit, groups, observation, pendingEvent, added, departed>>
      /\ pc = "round" /\ pc' = "idle" /\ Unfinished = {}
      /\ redistribution' = [Rebased EXCEPT !.total = @ + pending.perShare,
                                           !.committed = pending.committed,
                                           !.pending = None]
    BY DEF FinishRound, unchangedByCapacity, upstream, config, resetState, moneyHistory
<1>2. /\ redistribution # None /\ redistribution.pending = pending /\ pending # None
      /\ Rebased \in Ledger /\ pending \in Round
    BY <1>1, RebasedIsSame, RoundTyped DEF Ordered, pending
<1>3. /\ redistribution'.window = redistribution.window
      /\ redistribution'.limits = redistribution.limits
      /\ redistribution'.base # None /\ redistribution'.pending = None
      /\ redistribution'.total = redistribution.total + pending.perShare
    BY <1>1, <1>2, RebasedIsSame DEF Ledger, Ordered
<1>4. redistribution' # None
  <2>1. Rebased.total + pending.perShare \in Nat /\ pending.committed \in Nat
    BY <1>2 DEF Ledger, Round
  <2>2. redistribution' \in Ledger
    BY <1>1, <1>2, <2>1 DEF Ledger
  <2> QED BY <2>2, NoneIsNoRecord
<1>5. LedgerTotal' = LedgerTotal
  <2>1. LedgerTotal = redistribution.total + pending.perShare
    BY <1>2 DEF LedgerTotal
  <2>2. LedgerTotal' = redistribution'.total + 0
    BY <1>3, <1>4 DEF LedgerTotal
  <2>3. redistribution'.total \in Nat
    BY <1>2, <1>3, RoundTyped, <1>1 DEF Ordered, Ledger, Round
  <2> QED BY <1>3, <2>1, <2>2, <2>3
<1>6. IssuedInWindow' /\ EventCovers'
    BY <1>1, <1>2, <1>3 DEF Raised, LedgerOK, StoredOK, IssuedInWindow, Issued, EventCovers
<1>7. RaisesRecorded'
    BY <1>1, <1>2, <1>3, <1>4 DEF Raised, LedgerOK, StoredOK, RaisesRecorded, InRound
<1>8. RaisesAreInLedger'
    BY <1>1, <1>5 DEF LedgerOK, StoredOK, RaisesAreInLedger
<1>9. RoundFits'
    BY <1>3 DEF RoundFits, InRound
<1>10. TaskInWindow' /\ WrittenFirst' /\ TaskCovers'
    BY <1>1 DEF Raised, TaskInWindow, WrittenFirst, TaskCovers, MembersResetAtBaseLimit,
       CapacitySteps
<1> QED BY <1>6, <1>7, <1>8, <1>9, <1>10 DEF LedgerOK, StoredOK, RunOK

LEMMA LedgerByCapacity == Ordered /\ LedgerOK /\ CapacityStep => LedgerOK'
<1> SUFFICES ASSUME Ordered, LedgerOK, CapacityStep PROVE LedgerOK'
    OBVIOUS
<1> DEFINE Quiet ==
        /\ UNCHANGED <<quota, limit, groups, observation, pendingEvent, added, departed>>
        /\ redistribution' = redistribution
<1>1. ASSUME NEW g \in Groups, SkipGroup(g)
      PROVE  LedgerOK'
  <2>1. Quiet /\ pc = "writeGroups" /\ pc' = pc /\ mem'.seen = mem.seen
    BY <1>1 DEF SkipGroup, unchangedByCapacity, upstream, config, resetState,
       moneyHistory, Ordered, TypedTask, TypeOK, Memory
  <2>2. SameLedger
    BY <2>1 DEF SameLedger
  <2> QED BY <2>1, <2>2, LedgerByQuietStep DEF Ordered, CapacitySteps
<1>2. CASE SaveCapacity
  <2>1. /\ Quiet /\ pc = "writeGroups"
        /\ pc' = "idle" \/ (pc' = "redistribute" /\ mem' = mem)
    BY <1>2 DEF SaveCapacity, unchangedByCapacity, upstream, config, resetState,
       moneyHistory
  <2>2. SameLedger
    BY <2>1 DEF SameLedger
  <2> QED BY <2>1, <2>2, LedgerByQuietStep DEF Ordered, CapacitySteps
<1>3. CASE NoLedger
  <2>1. Quiet /\ pc = "redistribute" /\ pc' = "idle"
    BY <1>3 DEF NoLedger, unchangedByCapacity, upstream, config, resetState,
       moneyHistory
  <2>2. SameLedger
    BY <2>1 DEF SameLedger
  <2> QED BY <2>1, <2>2, LedgerByQuietStep DEF Ordered, CapacitySteps
<1>4. CASE KeepLedger
    BY <1>4, LedgerByEndOfRun DEF KeepLedger, unchangedByCapacity, upstream, config,
       resetState, moneyHistory
<1>5. ASSUME NEW members \in BOOLEAN, RebaseLedger(members)
      PROVE  LedgerOK'
    BY <1>5, LedgerByEndOfRun DEF RebaseLedger, HasEstimate, unchangedByCapacity,
       upstream, config, resetState, moneyHistory
<1> QED BY <1>1, <1>2, <1>3, <1>4, <1>5, LedgerBySample, LedgerByWriteGroup,
           LedgerByStartRound, LedgerByResumeRound, LedgerByLeaveRound,
           LedgerByDropTarget, LedgerByWriteTarget, LedgerByFailTarget,
           LedgerByRecordTarget, LedgerByFinishRound DEF CapacityStep

LEMMA LedgerByNext ==
    ASSUME Expiring
    PROVE  Ordered /\ LedgerOK /\ [Next]_vars => LedgerOK'
BY LedgerByUpstream, LedgerByAdmin, LedgerByStart, LedgerByOther, LedgerByReset,
   LedgerByCapacity DEF Next

LEMMA SpecLedger ==
    ASSUME Expiring
    PROVE  Spec => []Ordered /\ []LedgerOK
<1>1. "shift" \notin Moves
    BY DEF Expiring
<1>2. Spec => []Ordered
    BY <1>1, SpecTyped, SpecOrdered, SpecKnown, PTL DEF Ordered
<1>3. Init => LedgerOK
  <2> SUFFICES ASSUME Init PROVE LedgerOK
    OBVIOUS
  <2> USE DEF Init
  <2>1. IssuedInWindow /\ RaisesRecorded /\ EventCovers /\ RaisesAreInLedger
    BY DEF Raised, IssuedInWindow, Issued, RaisesRecorded, EventCovers, RaisesAreInLedger,
       LedgerTotal
  <2>2. TaskInWindow /\ RoundFits /\ WrittenFirst /\ TaskCovers
    BY DEF Raised, TaskInWindow, RoundFits, WrittenFirst, TaskCovers, MembersResetAtBaseLimit,
       CapacitySteps
  <2> QED BY <2>1, <2>2 DEF LedgerOK, StoredOK, RunOK
<1>4. Ordered /\ LedgerOK /\ [Next]_vars => LedgerOK'
    BY LedgerByNext
<1> QED BY <1>2, <1>3, <1>4, PTL DEF Spec

\* No group that was not taken out with a raise ever has more on top of its base
\* limit than the rounds of the ledger add up to: neither a round that is taken up again after a lost answer
\* or a restart (redistribution.ts, the loop over pending.targets) nor a change
\* of the configuration raises a limit twice.
THEOREM RaisesInLedger ==
    ASSUME Moves = {}
    PROVE  Spec => []RaisesAreInLedger
<1>1. Expiring
    BY DEF Expiring
<1>2. LedgerOK => RaisesAreInLedger
    BY DEF LedgerOK, StoredOK
<1> QED BY <1>1, <1>2, SpecLedger, PTL

\* When the usage of the members is reset, no group carries anything of an
\* earlier window but those that the administrator took out while they were
\* raised and whose base limit no job has written since: the stored event
\* restores every other raised group first (completeReset), also when it is
\* taken up again after a failure or after groups were taken out or put back.
THEOREM MembersReset ==
    ASSUME Moves = {}
    PROVE  Spec => []MembersResetAtBaseLimit
<1>1. Expiring
    BY DEF Expiring
<1>2. LedgerOK => MembersResetAtBaseLimit
    BY DEF LedgerOK, RunOK, TaskCovers
<1> QED BY <1>1, <1>2, SpecLedger, PTL

----------------------------------------------------------------------------
(* Limits that were issued.  What a step may do to them does not depend on  *)
(* whether the group is managed.                                            *)

LimitsHold ==
    redistribution # None /\ redistribution.window.cycle = quota.cycle =>
        \A g \in Groups : limit[g] >= redistribution.limits[g]

\* A step that writes no limit and leaves those of the ledger.
LEMMA LimitsKept ==
    ASSUME LimitsHold, SameLedger, limit' = limit, quota'.cycle = quota.cycle
    PROVE  LimitsHold'
BY DEF LimitsHold, SameLedger

LEMMA LimitsAnew ==
    ASSUME TypedTask',
           redistribution' = None \/ \A g \in Groups : redistribution'.limits[g] = 0
    PROVE  LimitsHold'
BY DEF LimitsHold, TypedTask, TypeOK

LEMMA LimitsByUpstream ==
    ASSUME Expiring, Ordered, LimitsHold, Upstream
    PROVE  LimitsHold'
<1>1. UNCHANGED <<redistribution, limit>>
    BY DEF Upstream, Tick, Consume, Rollover, EarlyRollover, ShiftWindow, account
<1>2. CASE Tick \/ Consume
  <2>1. quota'.cycle = quota.cycle
    BY <1>2 DEF Tick, Consume, Ordered, TypedTask, TypeOK
  <2> QED BY <1>1, <2>1, LimitsKept DEF SameLedger
<1>3. CASE Rollover
  <2>1. quota'.cycle = quota.cycle + 1
    BY <1>3 DEF Rollover
  <2>2. redistribution # None =>
            redistribution.window \in KnownWindows /\ redistribution.window \in Observation
    BY NoneIsNoRecord DEF Ordered, TypedTask, TypeOK, Ledger, KnownWindows
  <2>3. redistribution # None => redistribution.window.cycle <= quota.cycle
    BY <2>2 DEF Ordered, WindowsKnown, IsDated, IsCurrent
  <2>4. redistribution # None => redistribution.window.cycle # quota'.cycle
    BY <2>1, <2>2, <2>3 DEF Ordered, TypedTask, TypeOK, Observation
  <2> QED BY <1>1, <2>4 DEF LimitsHold
<1> QED BY <1>2, <1>3 DEF Upstream, EarlyRollover, ShiftWindow, Expiring

LEMMA LimitsByReset ==
    ASSUME Ordered, TypedTask', LedgerOK, LimitsHold, ResetStep
    PROVE  LimitsHold'
<1>1. quota' = quota
    BY ResetFrame
<1>2. ASSUME NEW g \in Groups, RestoreGroup(g)
      PROVE  LimitsHold'
  <2>1. pc = "restoreGroup" /\ redistribution' = redistribution
    BY <1>2 DEF RestoreGroup
  <2>2. pendingEvent # None
    BY <2>1 DEF Ordered, TypedTask, TaskOK, ResetSteps
  <2>3. /\ observation # None /\ observation.cycle < quota.cycle
    <3>1. /\ observation # None /\ IsCurrent(pendingEvent.observation)
          /\ pendingEvent.observation.cycle > observation.cycle
        BY <2>2 DEF Ordered, WindowsInOrder
    <3>2. /\ pendingEvent.observation \in Observation /\ observation \in Observation
          /\ quota.cycle \in Int
        BY <2>2, <3>1 DEF Ordered, TypedTask, TypeOK, PendingEvent
    <3> QED BY <3>1, <3>2 DEF IsCurrent, Observation
  <2>4. observation.cycle \in Int
    BY <2>3 DEF Ordered, TypedTask, TypeOK, Observation
  <2>5. CASE Issued
    BY <1>1, <2>1, <2>3, <2>4, <2>5
    DEF LimitsHold, LedgerOK, StoredOK, IssuedInWindow, Ordered, TypedTask, TypeOK
  <2>6. CASE ~Issued /\ redistribution # None
    <3>1. \A h \in Groups : redistribution.limits[h] = 0
      <4> TAKE h \in Groups
      <4>1. ~(redistribution.limits[h] > 0)
        BY <2>6 DEF Issued
      <4>2. redistribution.limits[h] \in Nat
        BY <2>6 DEF Ordered, TypedTask, TypeOK, Ledger
      <4> QED BY <4>1, <4>2
    <3> QED BY <2>1, <3>1, LimitsAnew
  <2> QED BY <2>1, <2>5, <2>6, LimitsAnew
<1>3. CASE CompleteReset
    BY <1>3, LimitsAnew DEF CompleteReset, FreshRedistribution
<1>4. CASE UNCHANGED <<redistribution, limit>>
    BY <1>1, <1>4, LimitsKept DEF SameLedger
<1>5. \/ UNCHANGED <<redistribution, limit>>
      \/ \E g \in Groups : RestoreGroup(g)
      \/ CompleteReset
    BY DEF ResetStep, KeepObservation, DetectNewWindow, PersistEvent,
           DisableRedistributionForReset, CheckGroup, GroupsRestored,
           ResetSubscriptionWeekly, RecordProgress
<1> QED BY <1>2, <1>3, <1>4, <1>5

LEMMA LimitsByWriteGroup ==
    ASSUME Ordered, LedgerOK, LimitsHold, NEW g \in Groups, WriteGroup(g)
    PROVE  LimitsHold'
<1>1. /\ UNCHANGED <<quota, redistribution>> /\ pc = "writeGroups"
      /\ limit' \in {limit, [limit EXCEPT ![g] = TargetLimit(g)]}
    BY DEF WriteGroup, upstream
<1> SUFFICES ASSUME redistribution # None,
                    redistribution.window.cycle = quota.cycle,
                    NEW h \in Groups
             PROVE  limit'[h] >= redistribution.limits[h]
    BY <1>1 DEF LimitsHold
<1>2. /\ quota.cycle \in Int /\ limit \in [Groups -> Nat]
      /\ redistribution.limits \in [Groups -> Nat]
    BY DEF Ordered, TypedTask, TypeOK, Ledger
<1>3. redistribution.window.cycle = mem.seen.cycle
    BY <1>1, <1>2, SeenWindow DEF CapacitySteps, Observation
<1>4. LedgerOfWindow(mem.seen) = redistribution
    BY <1>1, <1>3, SeenWindow DEF LedgerOfWindow, CapacitySteps
<1>5. limit[h] >= redistribution.limits[h]
    BY DEF LimitsHold
<1>6. CASE redistribution.limits[g] > 0
  <2>1. TargetLimit(g) = redistribution.limits[g]
    BY <1>4, <1>6 DEF TargetLimit, Floor
  <2> QED BY <1>1, <1>2, <1>5, <2>1
<1>7. CASE ~(redistribution.limits[g] > 0)
  <2>1. redistribution.limits[g] = 0 /\ h = g => redistribution.limits[h] = 0
    BY <1>2, <1>7
  <2>2. limit'[h] \in Nat
    BY WriteGroupTyped DEF Ordered, TypedTask, TypeOK
  <2>3. h # g => limit'[h] = limit[h]
    BY <1>1, <1>2
  <2> QED BY <1>2, <1>5, <1>7, <2>1, <2>2, <2>3
<1> QED BY <1>6, <1>7

LEMMA LimitsByCapacity ==
    ASSUME Ordered, TypedTask', LedgerOK, LimitsHold, CapacityStep
    PROVE  LimitsHold'
<1>1. quota' = quota
    BY CapacityKeeps
<1>2. CASE UNCHANGED <<redistribution, limit>>
    BY <1>1, <1>2, LimitsKept DEF SameLedger
<1>3. ASSUME pc = "redistribute", limit' = limit,
             redistribution' # None, redistribution'.window = Working.window,
             redistribution'.limits = Working.limits
      PROVE  LimitsHold'
  <2>1. CASE redistribution # None /\ Working = redistribution
    BY <1>1, <1>3, <2>1 DEF LimitsHold
  <2>2. CASE Working = FreshRedistribution(mem.seen)
    BY <1>3, <2>2, LimitsAnew DEF FreshRedistribution
  <2> QED BY <1>3, <2>1, <2>2, WorkingOK
<1>4. ASSUME NEW m \in BOOLEAN, KeepLedger \/ RebaseLedger(m) \/ StartRound(m)
      PROVE  LimitsHold'
  <2>1. /\ pc = "redistribute" /\ limit' = limit
        /\ KeepLedger \/ mem.net # None
    BY <1>4 DEF KeepLedger, RebaseLedger, StartRound, HasEstimate
  <2>2. /\ Working \in Ledger
        /\ mem.net # None => /\ Based \in Ledger
                             /\ Based.window = Working.window
                             /\ Based.limits = Working.limits
    BY <2>1, WorkingTyped DEF Ordered, Based, Ledger
  <2>3. redistribution' # None
    <3>1. KeepLedger \/ RebaseLedger(m) => redistribution' \in {Working, Based}
        BY DEF KeepLedger, RebaseLedger
    <3>2. StartRound(m) => redistribution' # None
        BY StartRoundTyped DEF Ordered, TypedTask, TaskOK, StartRound
    <3> QED BY <1>4, <2>1, <2>2, <3>1, <3>2, NoneIsNoRecord DEF KeepLedger
  <2>4. /\ redistribution'.window = Working.window
        /\ redistribution'.limits = Working.limits
    BY <1>4, <2>1, <2>2 DEF KeepLedger, RebaseLedger, StartRound, Ledger
  <2> QED BY <1>3, <2>1, <2>3, <2>4
<1>5. ASSUME NEW g \in Groups, LeaveRound(g)
      PROVE  LimitsHold'
  <2>1. pc = "round" /\ limit' = limit /\ redistribution' = Rebased
    BY <1>5 DEF LeaveRound, NextTarget
  <2>2. SameLedger
    BY <2>1, RebasedIsSame, RoundTyped, NoneIsNoRecord DEF SameLedger, Ordered
  <2> QED BY <1>1, <2>1, <2>2, LimitsKept
<1>6. ASSUME NEW g \in Groups, WriteTarget(g) \/ FailTarget(g)
      PROVE  LimitsHold'
  <2>1. /\ pc = "round" /\ redistribution' \in {redistribution, Rebased}
        /\ limit[g] < pending.targets[g]
        /\ limit' \in {limit, [limit EXCEPT ![g] = pending.targets[g]]}
    BY <1>6 DEF WriteTarget, FailTarget, NextTarget, RaiseLimit
  <2>2. SameLedger
    BY <2>1, RebasedIsSame, RoundTyped, NoneIsNoRecord DEF SameLedger, Ordered
  <2>3. /\ redistribution # None /\ redistribution \in Ledger /\ pending \in Round
        /\ limit \in [Groups -> Nat]
    BY <2>1, RebasedIsSame, RoundTyped DEF Ordered, TypedTask, TypeOK
  <2>4. \A h \in Groups : limit'[h] >= limit[h] /\ limit'[h] \in Nat /\ limit[h] \in Nat
                          /\ redistribution.limits[h] \in Nat
    BY <2>1, <2>3 DEF Round, Ledger
  <2> QED BY <1>1, <2>2, <2>3, <2>4 DEF LimitsHold, SameLedger
<1>7. ASSUME NEW g \in Groups, DropTarget(g)
      PROVE  LimitsHold'
  <2>1. /\ pc = "round" /\ limit' = limit
        /\ redistribution' = [Rebased EXCEPT !.pending.completed = @ \cup {g}]
    BY <1>7 DEF DropTarget, NextTarget
  <2>2. Rebased \in Ledger /\ redistribution # None
        /\ Rebased.window = redistribution.window
        /\ Rebased.limits = redistribution.limits
    BY <2>1, RoundTyped, RebasedIsSame DEF Ordered
  <2>3. /\ redistribution'.window = redistribution.window
        /\ redistribution'.limits = redistribution.limits
    BY <2>1, <2>2 DEF Ledger
  <2> QED BY <1>1, <2>1, <2>2, <2>3 DEF LimitsHold
<1>8. ASSUME NEW g \in Groups, RecordTarget(g)
      PROVE  LimitsHold'
  <2> DEFINE recorded == Larger(pending.targets[g], limit[g])
  <2>1. /\ pc \in {"round", "record"} /\ limit' = limit
        /\ IsFirst(g, Unfinished)
        /\ pc = "round" => limit[g] >= pending.targets[g]
        /\ redistribution' = [Rebased EXCEPT !.limits[g] = recorded,
                                             !.pending.completed = @ \cup {g}]
    BY <1>8 DEF RecordTarget
  <2>2. limit[g] >= pending.targets[g]
    BY <2>1 DEF LedgerOK, RunOK, WrittenFirst
  <2>3. Rebased \in Ledger /\ pending \in Round /\ redistribution # None
        /\ Rebased.window = redistribution.window
        /\ Rebased.limits = redistribution.limits
    BY <2>1, RoundTyped, RebasedIsSame DEF Ordered
  <2>4. recorded = limit[g] /\ limit[g] \in Nat
    <3>1. pending.targets[g] \in Nat /\ limit[g] \in Nat
        BY <2>3 DEF Round, Ordered, TypedTask, TypeOK
    <3> QED BY <2>2, <3>1 DEF Larger
  <2> HIDE DEF recorded
  <2>5. /\ redistribution'.window = redistribution.window
        /\ redistribution'.limits = [redistribution.limits EXCEPT ![g] = limit[g]]
        /\ redistribution.limits \in [Groups -> Nat]
    BY <2>1, <2>3, <2>4 DEF Ledger
  <2> QED BY <1>1, <2>1, <2>3, <2>4, <2>5 DEF LimitsHold
<1>9. CASE FinishRound
  <2>1. /\ pc = "round" /\ limit' = limit
        /\ redistribution' = [Rebased EXCEPT !.total = @ + pending.perShare,
                                             !.committed = pending.committed,
                                             !.pending = None]
    BY <1>9 DEF FinishRound
  <2>2. Rebased \in Ledger /\ redistribution # None
        /\ Rebased.window = redistribution.window
        /\ Rebased.limits = redistribution.limits
    BY <2>1, RoundTyped, RebasedIsSame DEF Ordered
  <2>3. /\ redistribution'.window = redistribution.window
        /\ redistribution'.limits = redistribution.limits
    BY <2>1, <2>2 DEF Ledger
  <2> QED BY <1>1, <2>1, <2>2, <2>3 DEF LimitsHold
<1>10. \/ UNCHANGED <<redistribution, limit>>
       \/ \E g \in Groups : WriteGroup(g)
       \/ KeepLedger \/ (\E m \in BOOLEAN : RebaseLedger(m) \/ StartRound(m))
       \/ \E g \in Groups : \/ LeaveRound(g) \/ DropTarget(g) \/ WriteTarget(g)
                            \/ FailTarget(g) \/ RecordTarget(g)
       \/ FinishRound
    BY DEF CapacityStep, Sample, SkipGroup, SaveCapacity, NoLedger, ResumeRound
<1> QED BY <1>2, <1>4, <1>5, <1>6, <1>7, <1>8, <1>9, <1>10, LimitsByWriteGroup

\* In the window of a ledger no limit falls below the one the ledger has issued:
\* the sync of the estimate takes it as the target (capacity.ts), and only the
\* reset of a later window restores the base.
THEOREM LimitsStay ==
    ASSUME Moves = {}
    PROVE  Spec => []IssuedLimitsKept
<1>1. Expiring
    BY DEF Expiring
<1>2. Init => LimitsHold
    BY DEF Init, LimitsHold
<1>3. Ordered /\ LedgerOK /\ LimitsHold /\ [Next]_vars => LimitsHold'
  <2> SUFFICES ASSUME Ordered, LedgerOK, LimitsHold, [Next]_vars PROVE LimitsHold'
    OBVIOUS
  <2>1. TypedTask'
    BY NextTyped DEF Ordered
  <2>2. CASE Admin \/ StartReset \/ StartCapacity \/ Abort \/ UNCHANGED vars
    <3>1. UNCHANGED <<quota, limit, redistribution>>
        BY <2>2 DEF Admin, OpenForm, ReplaceConfig, StartReset, StartCapacity,
           StartTask, Abort, vars, upstream, account
    <3> QED BY <3>1, LimitsKept DEF SameLedger
  <2> QED BY <1>1, <2>1, <2>2, LimitsByUpstream, LimitsByReset, LimitsByCapacity
          DEF Next
<1>4. Ordered /\ LimitsHold => IssuedLimitsKept
    BY DEF Ordered, TypedTask, TypeOK, LimitsHold, IssuedLimitsKept
<1> QED BY <1>1, <1>2, <1>3, <1>4, SpecLedger, PTL DEF Spec

----------------------------------------------------------------------------
(* What is handed out.  The stored watermark bounds what the rounds of the  *)
(* ledger's window have granted, and a new round starts above it.           *)

Watermark ==
    IF redistribution.pending # None THEN redistribution.pending.committed
    ELSE redistribution.committed

GrantsCommitted ==
    \A c \in 0..MaxCycle : granted[c] > 0 =>
        /\ redistribution # None /\ observation # None
        /\ c <= redistribution.window.cycle
        /\ c <= observation.cycle
        /\ c = redistribution.window.cycle => granted[c] <= Watermark

\* Shares of whole cents add up to no more than the amount.
LEMMA SharesFit ==
    ASSUME NEW a \in Nat, NEW n \in Nat \ {0}
    PROVE  /\ a \div n \in Nat
           /\ (a \div n) * n \in Nat
           /\ (a \div n) * n <= a
OBVIOUS

LEMMA GrantsKept ==
    ASSUME GrantsCommitted, UNCHANGED <<granted, observation>>,
           redistribution # None => /\ redistribution' # None
                                    /\ redistribution'.window = redistribution.window
                                    /\ Watermark' = Watermark
    PROVE  GrantsCommitted'
BY DEF GrantsCommitted

\* What a new round adds fits under the estimate it is made from.
LEMMA RoundWithinEstimate ==
    ASSUME Ordered, LedgerOK, GrantsCommitted,
           NEW members \in BOOLEAN, StartRound(members)
    PROVE  /\ GrantsCommitted'
           /\ mem.net \in Nets
           /\ mem.seen.cycle \in 0..MaxCycle
           /\ granted'[mem.seen.cycle] <= mem.net
           /\ \A c \in 0..MaxCycle : c # mem.seen.cycle => granted'[c] = granted[c]
<1> DEFINE share == Unallocated \div ShareCount
           round == [perShare  |-> share,
                     targets   |-> [g \in Groups |-> IF g \in mem.groups
                                                     THEN limit[g] + share ELSE 0],
                     committed |-> AllocationBase + share * ShareCount,
                     completed |-> {}]
           n == mem.seen.cycle
<1>1. /\ pc = "redistribute" /\ observation' = observation
      /\ Working.pending = None /\ ResetReady /\ mem.net # None
      /\ Unallocated >= ShareCount
      /\ redistribution' = [Based EXCEPT !.pending = round]
      /\ granted' = [granted EXCEPT ![n] = @ + share * ShareCount]
    BY DEF StartRound, HasEstimate, MayGrant, unchangedByCapacity, resetState
<1>2. /\ mem.seen \in Observation /\ mem.net \in Nets /\ mem.net \in Nat
      /\ n \in 0..MaxCycle /\ granted \in [0..MaxCycle -> Nat]
    BY <1>1, SeenWindow, AmountsAreCents
    DEF CapacitySteps, Observation, Ordered, TypedTask, TypeOK, Memory
<1>3. Working \in Ledger /\ Based \in Ledger /\ Based.window = Working.window
    BY <1>1, WorkingTyped DEF Ordered, Based, Ledger
<1>4. /\ Working.committed \in Nat /\ StandardCost(mem.seen) \in Nat
  <2>1. \A a, b \in Nat : a * b \in Nat
    OBVIOUS
  <2> QED BY <1>2, <1>3, <2>1, AmountsAreCents DEF Ledger, StandardCost, Observation
<1>5. AllocationBase \in Nat /\ AllocationBase >= Working.committed
    BY <1>4 DEF AllocationBase, Larger
<1>6. /\ Unallocated \in Nat /\ share \in Nat /\ share * ShareCount \in Nat
      /\ share * ShareCount <= Unallocated
  <2>1. Unallocated \in Nat
    BY <1>2, <1>5 DEF Unallocated, CentsDown, Larger
  <2> QED BY <2>1, SharesFit, AmountsAreCents
<1>7. AllocationBase + share * ShareCount <= mem.net
  <2>1. ShareCount \in Nat /\ ShareCount > 0
    BY AmountsAreCents
  <2>2. Unallocated = mem.net - AllocationBase
    BY <1>1, <1>2, <1>5, <2>1 DEF Unallocated, CentsDown, Larger
  <2> HIDE DEF share
  <2> QED BY <1>2, <1>5, <1>6, <2>2
<1>8. granted[n] <= Working.committed
  <2>1. CASE redistribution # None /\ Working = redistribution
    <3>1. granted[n] > 0 => granted[n] <= Watermark
        BY <1>1, <1>2, <2>1, WorkingOK DEF GrantsCommitted
    <3>2. Watermark = Working.committed
        BY <1>1, <2>1 DEF Watermark
    <3>3. granted[n] \in Nat
        BY <1>2
    <3> QED BY <1>4, <3>1, <3>2, <3>3
  <2>2. CASE redistribution # None => redistribution.window.cycle < n
    <3>1. redistribution # None => redistribution.window.cycle \in Int
        BY DEF Ordered, TypedTask, TypeOK, Ledger, Observation
    <3>2. ~(granted[n] > 0)
        BY <1>2, <2>2, <3>1 DEF GrantsCommitted
    <3>3. granted[n] \in Nat
        BY <1>2
    <3> QED BY <1>4, <3>2, <3>3
  <2> QED BY <1>1, <2>1, <2>2, WorkingOK
<1>9. /\ granted'[n] = granted[n] + share * ShareCount /\ granted[n] \in Nat
      /\ \A c \in 0..MaxCycle : c # n => granted'[c] = granted[c]
    BY <1>1, <1>2
<1>10. granted'[n] <= AllocationBase + share * ShareCount
  <2> HIDE DEF share
  <2> QED BY <1>4, <1>5, <1>6, <1>8, <1>9
<1>11. granted'[n] <= mem.net
  <2> HIDE DEF share
  <2> QED BY <1>2, <1>5, <1>6, <1>7, <1>9, <1>10
<1>12. /\ redistribution' # None /\ redistribution'.window = Working.window
       /\ Watermark' = AllocationBase + share * ShareCount
  <2>1. redistribution' # None /\ redistribution'.pending # None
    BY StartRoundTyped DEF Ordered, TypedTask, TaskOK, StartRound
  <2>2. redistribution'.window = Working.window /\ redistribution'.pending = round
    BY <1>1, <1>3 DEF Ledger
  <2> QED BY <2>1, <2>2 DEF Watermark
<1>13. /\ observation # None /\ observation.cycle = n
       /\ Working.window.cycle = n
    BY <1>1, WorkingOK
<1>14. \A c \in 0..MaxCycle : granted[c] > 0 => c <= n
    BY <1>13 DEF GrantsCommitted
<1>15. GrantsCommitted'
  <2> SUFFICES ASSUME NEW c \in 0..MaxCycle, granted'[c] > 0
               PROVE  /\ c <= n
                      /\ c = n => granted'[c] <= AllocationBase + share * ShareCount
    BY <1>1, <1>12, <1>13 DEF GrantsCommitted
  <2> QED BY <1>2, <1>9, <1>10, <1>14
<1> QED BY <1>2, <1>9, <1>11, <1>15

\* A step that leaves the grants alone and stays with ledger and baseline.
QuietGrants ==
    UNCHANGED <<granted, observation>> /\ UNCHANGED redistribution

LEMMA GrantsByOther ==
    ASSUME \/ Upstream \/ Admin \/ StartReset \/ StartCapacity \/ Abort
           \/ UNCHANGED vars
    PROVE  QuietGrants
BY DEF QuietGrants, Upstream, Tick, Consume, Rollover, EarlyRollover, ShiftWindow,
       Admin, OpenForm, ReplaceConfig, StartReset, StartCapacity, StartTask, Abort,
       vars, account, history, moneyHistory, resetState

\* The baseline stays in its window, or moves on together with the ledger.
LEMMA GrantsByReset ==
    ASSUME Ordered, LedgerOK, GrantsCommitted, ResetStep
    PROVE  GrantsCommitted' /\ granted' = granted
<1>1. granted' = granted
    BY ResetFrame
<1>2. ASSUME NEW o \in ObserveQuota, KeepObservation(o)
      PROVE  GrantsCommitted'
  <2>1. observation' = o /\ redistribution' = redistribution
    BY <1>2 DEF KeepObservation
  <2>2. o # None
    BY ObservationTyped, NoneIsNoRecord DEF Ordered, TypedTask
  <2>3. Watermark' = Watermark
    BY <2>1 DEF Watermark
  <2>4. observation # None => o.cycle = observation.cycle
    BY <1>2, BaselineStays
  <2> QED BY <1>1, <2>1, <2>2, <2>3, <2>4 DEF GrantsCommitted
<1>3. CASE CompleteReset
  <2>1. /\ pc = "wipe" /\ observation' = pendingEvent.observation
        /\ redistribution' = IF redistribution = None THEN None
                             ELSE FreshRedistribution(pendingEvent.observation)
    BY <1>3 DEF CompleteReset
  <2>2. /\ pendingEvent # None /\ pendingEvent.observation \in Observation
        /\ observation # None /\ observation \in Observation
        /\ pendingEvent.observation.cycle > observation.cycle
    BY <2>1 DEF Ordered, TypedTask, TypeOK, TaskOK, ResetSteps, PendingEvent,
       WindowsInOrder
  <2>3. pendingEvent.observation # None
    BY <2>2, NoneIsNoRecord
  <2>4. redistribution # None => redistribution' # None
    BY <2>1, <2>2, FreshTyped, NoneIsNoRecord
  <2>5. observation.cycle \in Int /\ pendingEvent.observation.cycle \in Int
    BY <2>2, Bounds DEF Observation
  <2>6. redistribution # None => redistribution'.window = pendingEvent.observation
    BY <2>1 DEF FreshRedistribution
  <2>7. ASSUME NEW c \in 0..MaxCycle, granted'[c] > 0
        PROVE  /\ redistribution' # None /\ observation' # None
               /\ redistribution'.window = pendingEvent.observation
               /\ c < pendingEvent.observation.cycle
    <3>1. redistribution # None /\ c <= observation.cycle /\ c \in Int
        BY <1>1, <2>7, Bounds DEF GrantsCommitted
    <3> QED BY <2>1, <2>2, <2>3, <2>4, <2>5, <2>6, <3>1
  <2> QED BY <1>1, <2>1, <2>5, <2>7, Bounds DEF GrantsCommitted
<1>4. CASE UNCHANGED <<observation, redistribution>>
    BY <1>1, <1>4, GrantsKept DEF Watermark
<1>5. \/ \E o \in ObserveQuota : KeepObservation(o)
      \/ CompleteReset
      \/ UNCHANGED <<observation, redistribution>>
    BY DEF ResetStep, DetectNewWindow, PersistEvent, DisableRedistributionForReset,
           CheckGroup, RestoreGroup, GroupsRestored, ResetSubscriptionWeekly,
           RecordProgress, resetState
<1> QED BY <1>1, <1>2, <1>3, <1>4, <1>5

\* A run that ends before its round: the ledger it found, or a new one.
LEMMA GrantsByEndOfRun ==
    ASSUME Ordered, LedgerOK, GrantsCommitted, pc = "redistribute",
           UNCHANGED <<granted, observation>>,
           \/ redistribution' = Working
           \/ mem.net # None /\ redistribution' = Based
    PROVE  GrantsCommitted'
<1>1. /\ Working \in Ledger
      /\ \/ redistribution' = Working
         \/ \E b \in Nat : redistribution' = [Working EXCEPT !.base = b]
  <2>1. mem.net # None => PerShare(mem.net) \in Nat
    BY PerShareIsAmount, AmountsAreCents DEF Ordered, TypedTask, TypeOK, Memory
  <2> QED BY <2>1, WorkingTyped DEF Ordered, Based
<1>2. redistribution' \in Ledger
    BY <1>1 DEF Ledger
<1>3. /\ redistribution' # None
      /\ redistribution'.window = Working.window
      /\ redistribution'.pending = Working.pending
      /\ redistribution'.committed = Working.committed
    BY <1>1, <1>2, NoneIsNoRecord DEF Ledger
<1>4. CASE redistribution # None /\ Working = redistribution
    BY <1>3, <1>4, GrantsKept DEF Watermark
<1>5. CASE Working = FreshRedistribution(mem.seen)
           /\ (redistribution # None => redistribution.window.cycle < mem.seen.cycle)
  <2>1. redistribution'.window = mem.seen /\ mem.seen \in Observation
    BY <1>3, <1>5, SeenWindow DEF FreshRedistribution, CapacitySteps
  <2>2. redistribution # None => redistribution.window.cycle \in Int
    BY DEF Ordered, TypedTask, TypeOK, Ledger, Observation
  <2>3. mem.seen.cycle \in Int
    BY <2>1 DEF Observation
  <2> SUFFICES ASSUME NEW c \in 0..MaxCycle, granted[c] > 0
               PROVE  observation # None /\ c <= observation.cycle /\ c < mem.seen.cycle
    BY <1>3, <2>1, <2>3, Bounds DEF GrantsCommitted
  <2> QED BY <1>5, <2>2, <2>3, Bounds DEF GrantsCommitted
<1> QED BY <1>4, <1>5, WorkingOK

\* The steps of a round keep its watermark, and the last one stores it.
LEMMA GrantsByRound ==
    ASSUME Ordered, LedgerOK, GrantsCommitted, NEW g \in Groups,
           LeaveRound(g) \/ DropTarget(g) \/ FailTarget(g) \/ RecordTarget(g)
    PROVE  GrantsCommitted' /\ granted' = granted
<1>1. UNCHANGED <<granted, observation>> /\ pc \in {"round", "record"}
    BY DEF LeaveRound, DropTarget, FailTarget, RecordTarget, NextTarget,
           unchangedByCapacity, resetState, moneyHistory
<1>2. /\ redistribution # None /\ redistribution.pending # None
      /\ Rebased \in Ledger /\ pending \in Round
      /\ Rebased.window = redistribution.window
      /\ Rebased.pending = redistribution.pending
      /\ Rebased.limits \in [Groups -> Nat]
    BY <1>1, RebasedIsSame, RoundTyped DEF Ordered, Ledger
<1>3. CASE LeaveRound(g) \/ FailTarget(g)
  <2>1. redistribution' = Rebased /\ redistribution' # None
    BY <1>2, <1>3, NoneIsNoRecord DEF LeaveRound, FailTarget
  <2>2. Watermark' = Watermark
    BY <1>2, <2>1 DEF Watermark
  <2> QED BY <1>1, <1>2, <2>1, <2>2, GrantsKept
<1>4. ASSUME NEW l \in [Groups -> Nat],
             redistribution' = [Rebased EXCEPT !.limits = l,
                                               !.pending.completed = @ \cup {g}]
      PROVE  GrantsCommitted'
  <2>1. /\ redistribution' # None /\ redistribution'.pending # None
        /\ redistribution'.window = redistribution.window
        /\ redistribution'.pending = [pending EXCEPT !.completed = @ \cup {g}]
    BY <1>1, <1>4, CompletedRound DEF Ordered
  <2>2. redistribution'.pending.committed = redistribution.pending.committed
    BY <1>2, <2>1 DEF pending, Round
  <2>3. Watermark' = Watermark
    BY <1>2, <2>1, <2>2 DEF Watermark
  <2> QED BY <1>1, <2>1, <2>3, GrantsKept
<1>5. CASE DropTarget(g)
  <2>1. redistribution' = [Rebased EXCEPT !.limits = Rebased.limits,
                                          !.pending.completed = @ \cup {g}]
    BY <1>2, <1>5 DEF DropTarget, Ledger
  <2> QED BY <1>1, <1>2, <1>4, <2>1
<1>6. CASE RecordTarget(g)
  <2> DEFINE recorded == Larger(pending.targets[g], limit[g])
             l == [Rebased.limits EXCEPT ![g] = recorded]
  <2>1. recorded \in Nat
    BY <1>2 DEF Round, Larger, Ordered, TypedTask, TypeOK
  <2>2. l \in [Groups -> Nat]
    BY <1>2, <2>1
  <2>3. redistribution' = [Rebased EXCEPT !.limits = l,
                                          !.pending.completed = @ \cup {g}]
    BY <1>2, <1>6 DEF RecordTarget, Ledger
  <2> HIDE DEF l
  <2> QED BY <1>1, <1>4, <2>2, <2>3
<1> QED BY <1>1, <1>3, <1>5, <1>6

LEMMA GrantsByFinishRound ==
    ASSUME Ordered, LedgerOK, GrantsCommitted, FinishRound
    PROVE  GrantsCommitted' /\ granted' = granted
<1>1. /\ UNCHANGED <<granted, observation>> /\ pc = "round"
      /\ redistribution' = [Rebased EXCEPT !.total = @ + pending.perShare,
                                           !.committed = pending.committed,
                                           !.pending = None]
    BY DEF FinishRound, unchangedByCapacity, resetState, moneyHistory
<1>2. /\ redistribution # None /\ redistribution.pending = pending /\ pending # None
      /\ Rebased \in Ledger /\ pending \in Round
      /\ Rebased.window = redistribution.window
    BY <1>1, RebasedIsSame, RoundTyped DEF Ordered, pending
<1>3. redistribution' # None
  <2>1. Rebased.total + pending.perShare \in Nat /\ pending.committed \in Nat
    BY <1>2 DEF Ledger, Round
  <2>2. redistribution' \in Ledger
    BY <1>1, <1>2, <2>1 DEF Ledger
  <2> QED BY <2>2, NoneIsNoRecord
<1>4. /\ redistribution'.window = redistribution.window
      /\ redistribution'.pending = None
      /\ redistribution'.committed = pending.committed
    BY <1>1, <1>2 DEF Ledger
<1>5. Watermark' = Watermark
    BY <1>2, <1>4 DEF Watermark
<1> QED BY <1>1, <1>3, <1>4, <1>5, GrantsKept

LEMMA GrantsByCapacity ==
    ASSUME Ordered, LedgerOK, GrantsCommitted, CapacityStep
    PROVE  GrantsCommitted'
           /\ \/ granted' = granted
              \/ \E members \in BOOLEAN : StartRound(members)
<1>1. CASE KeepLedger \/ \E members \in BOOLEAN : RebaseLedger(members)
    BY <1>1, GrantsByEndOfRun DEF KeepLedger, RebaseLedger, HasEstimate,
       unchangedByCapacity, resetState, moneyHistory
<1>2. CASE \E members \in BOOLEAN : StartRound(members)
    BY <1>2, RoundWithinEstimate
<1>3. CASE \E g \in Groups : LeaveRound(g) \/ DropTarget(g) \/ FailTarget(g)
                             \/ RecordTarget(g)
    BY <1>3, GrantsByRound
<1>4. CASE UNCHANGED <<granted, observation, redistribution>>
    BY <1>4, GrantsKept DEF Watermark
<1>5. CASE SaveCapacity \/ NoLedger \/ (\E o \in ObserveQuota : Sample(o))
           \/ \E members \in BOOLEAN : ResumeRound(members)
    BY <1>4, <1>5 DEF Sample, SaveCapacity, NoLedger, ResumeRound,
       unchangedByCapacity, resetState, moneyHistory
<1>6. CASE \E g \in Groups : SkipGroup(g) \/ WriteGroup(g) \/ WriteTarget(g)
    BY <1>4, <1>6 DEF SkipGroup, WriteGroup, WriteTarget, unchangedByCapacity,
       resetState, moneyHistory
<1> QED BY <1>1, <1>2, <1>3, <1>5, <1>6, GrantsByFinishRound DEF CapacityStep

\* What the rounds of one window hand out is covered by an amount that an
\* estimate of the account allowed (redistribution.ts, committed: the watermark
\* outlives runs, restarts, switching off and on, and estimates that fall).
THEOREM GrantsCovered ==
    ASSUME Moves = {}
    PROVE  Spec => []GrantsWithinCapacity
<1>1. Expiring
    BY DEF Expiring
<1>2. Init => GrantsCommitted /\ GrantsWithinCapacity
  <2> SUFFICES ASSUME Init PROVE GrantsCommitted /\ GrantsWithinCapacity
    OBVIOUS
  <2>1. \A c \in 0..MaxCycle : granted[c] = 0
    BY DEF Init
  <2> QED BY <2>1 DEF GrantsCommitted, GrantsWithinCapacity
<1>3. Ordered /\ LedgerOK /\ GrantsCommitted /\ GrantsWithinCapacity /\ [Next]_vars
        => GrantsCommitted' /\ GrantsWithinCapacity'
  <2> SUFFICES ASSUME Ordered, LedgerOK, GrantsCommitted, GrantsWithinCapacity,
                      [Next]_vars
               PROVE  GrantsCommitted' /\ GrantsWithinCapacity'
    OBVIOUS
  <2>1. GrantsCommitted'
        /\ \/ granted' = granted
           \/ \E members \in BOOLEAN : StartRound(members)
    <3>1. CASE QuietGrants
        BY <3>1, GrantsKept DEF QuietGrants, Watermark
    <3> QED BY <3>1, GrantsByOther, GrantsByReset, GrantsByCapacity DEF Next
  <2>2. CASE granted' = granted
    BY <2>1, <2>2 DEF GrantsWithinCapacity
  <2>3. ASSUME NEW members \in BOOLEAN, StartRound(members)
        PROVE  GrantsWithinCapacity'
    <3>1. /\ mem.net \in Nets
          /\ granted'[mem.seen.cycle] <= mem.net
          /\ \A c \in 0..MaxCycle : c # mem.seen.cycle => granted'[c] = granted[c]
        BY <2>3, RoundWithinEstimate
    <3> QED BY <3>1 DEF GrantsWithinCapacity
  <2> QED BY <2>1, <2>2, <2>3
<1> QED BY <1>1, <1>2, <1>3, SpecLedger, PTL DEF Spec

----------------------------------------------------------------------------
(* The pages of the subscriptions that a reset takes its targets from: an   *)
(* instance with variables of its own.                                      *)

CONSTANTS Listed, Wanted, PageSize, Ending

VARIABLES list, throughout, at, page, found, completed, resets

Paging == INSTANCE SubscriptionPages WITH Subscriptions <- Listed

\* What was active throughout is in the list, and in a page that was read as far
\* as the pages reached when the list is cut as it now is.
PagesInv ==
    /\ list \in Seq(Listed) /\ found \in Seq(Listed)
    /\ throughout \subseteq Listed /\ completed \subseteq Listed
    /\ page \in Nat \ {0} /\ at \in {"reading", "resetting", "done"}
    /\ at = "reading" /\ ~Ending =>
          \A i \in 1..Len(list) :
              i <= (page - 1) * PageSize /\ list[i] \in throughout
                  => \E j \in 1..Len(found) : found[j] = list[i]
    /\ at = "reading" /\ ~Ending => \A s \in throughout : \E i \in 1..Len(list) : list[i] = s
    /\ at # "reading" /\ ~Ending =>
          \A s \in throughout : \E j \in 1..Len(found) : found[j] = s
    /\ at = "done" => \A j \in 1..Len(found) : found[j] \in Wanted => found[j] \in completed
    /\ completed \subseteq Wanted
    /\ resets = [s \in Listed |-> IF s \in completed THEN 1 ELSE 0]

LEMMA PagesInit ==
    ASSUME Paging!SubscriptionParameters, Paging!Init
    PROVE  PagesInv
<1>1. list \in Seq(Listed)
    <2>1. Paging!Cardinality(Listed) = Cardinality(Listed)
        BY DEF Paging!Cardinality, Cardinality
    <2>2. Paging!IsFiniteSet(Listed) = IsFiniteSet(Listed)
        BY DEF Paging!IsFiniteSet, IsFiniteSet
    <2>3. Cardinality(Listed) \in Nat
        BY <2>2, FS_CardinalityType DEF Paging!SubscriptionParameters
    <2>4. PICK n \in 0..Cardinality(Listed) : list \in [1..n -> Listed]
        BY <2>1 DEF Paging!Init, Paging!SeqOf
    <2> QED BY <2>3, <2>4
<1>2. \A i \in 1..Len(list) : ~(i <= (page - 1) * PageSize)
    <2>1. (page - 1) * PageSize = 0
        BY DEF Paging!Init, Paging!SubscriptionParameters
    <2>2. Len(list) \in Nat
        BY <1>1
    <2> QED BY <2>1, <2>2
<1>3. \A s \in throughout : \E i \in 1..Len(list) : list[i] = s
    BY <1>1 DEF Paging!Init, Paging!ToSet
<1>4. throughout \subseteq Listed
    BY <1>1 DEF Paging!Init, Paging!ToSet
<1>5. found \in Seq(Listed)
    BY DEF Paging!Init
<1> QED BY <1>1, <1>2, <1>3, <1>4, <1>5 DEF Paging!Init, PagesInv

\* The pages cut the list into as many pieces as it needs.
LEMMA PagesCover ==
    ASSUME Paging!SubscriptionParameters, PagesInv
    PROVE  /\ Paging!Pages \in Nat /\ Len(list) \in Nat
           /\ Len(list) <= Paging!Pages * PageSize
           /\ (page - 1) * PageSize + PageSize = page * PageSize
           /\ (page - 1) * PageSize \in Nat /\ page * PageSize \in Nat
           /\ page >= Paging!Pages => Len(list) <= page * PageSize
           /\ page > Paging!Pages => Len(list) <= (page - 1) * PageSize
           /\ page < Paging!Pages => page * PageSize < Len(list)
<1> DEFINE n == Len(list)
<1>1. n \in Nat /\ PageSize \in Nat \ {0} /\ page \in Nat \ {0}
    BY DEF PagesInv, Paging!SubscriptionParameters
<1> DEFINE P == (n + PageSize - 1) \div PageSize
<1>2. Paging!Pages = P
    BY DEF Paging!Pages
<1> HIDE DEF n
<1>3. P \in Nat /\ n <= P * PageSize /\ (P - 1) * PageSize < n
    <2>1. ASSUME NEW a \in Nat, NEW b \in Nat \ {0}
          PROVE  /\ (a \div b) \in Nat
                 /\ (a \div b) * b <= a /\ a < (a \div b) * b + b
        BY <2>1
    <2>2. n + PageSize - 1 \in Nat
        BY <1>1
    <2>3. P \in Nat /\ P * PageSize <= n + PageSize - 1 /\ n + PageSize - 1 < P * PageSize + PageSize
        BY <1>1, <2>1, <2>2
    <2> HIDE DEF P
    <2>4. (P - 1) * PageSize = P * PageSize - PageSize /\ P * PageSize \in Nat
        BY <1>1, <2>3
    <2> QED BY <1>1, <2>3, <2>4
<1> HIDE DEF P
<1>4. ASSUME NEW a \in Int, NEW b \in Int, a <= b PROVE a * PageSize <= b * PageSize
    BY <1>1, <1>4
<1>5. /\ (page - 1) * PageSize + PageSize = page * PageSize
      /\ (page - 1) * PageSize \in Nat /\ page * PageSize \in Nat
    BY <1>1
<1>6. page >= P => n <= page * PageSize
    BY <1>1, <1>3, <1>4, <1>5
<1>7. page > P => n <= (page - 1) * PageSize
    <2>1. SUFFICES ASSUME page > P PROVE n <= (page - 1) * PageSize
        OBVIOUS
    <2>2. P <= page - 1 /\ page - 1 \in Int /\ P \in Int
        BY <1>1, <1>3, <2>1
    <2>3. P * PageSize <= (page - 1) * PageSize
        BY <1>4, <2>2
    <2> QED BY <1>1, <1>3, <1>5, <2>3
<1>8. page < P => page * PageSize < n
    <2>1. SUFFICES ASSUME page < P PROVE page * PageSize < n
        OBVIOUS
    <2>2. page <= P - 1 /\ P - 1 \in Int /\ page \in Int
        BY <1>1, <1>3, <2>1
    <2>3. page * PageSize <= (P - 1) * PageSize
        BY <1>4, <2>2
    <2>4. (P - 1) * PageSize \in Int
        BY <1>1, <1>3
    <2> QED BY <1>1, <1>3, <1>5, <2>3, <2>4
<1> QED BY <1>1, <1>2, <1>3, <1>5, <1>6, <1>7, <1>8 DEF n

LEMMA PageHas ==
    ASSUME Paging!SubscriptionParameters, PagesInv
    PROVE  /\ Paging!PageItems(page) \in Seq(Listed)
           /\ \A i \in 1..Len(list) :
                  i <= page * PageSize /\ ~(i <= (page - 1) * PageSize)
                      => \E j \in 1..Len(Paging!PageItems(page)) :
                             Paging!PageItems(page)[j] = list[i]
<1> DEFINE first == (page - 1) * PageSize + 1
           last  == IF page = Paging!Pages THEN Len(list) ELSE page * PageSize
           items == Paging!PageItems(page)
<1>1. list \in Seq(Listed) /\ page \in Nat \ {0}
    BY DEF PagesInv
<1>2. CASE page > Paging!Pages
    <2>1. items = <<>>
        BY <1>2 DEF Paging!PageItems
    <2>2. \A i \in 1..Len(list) : i <= (page - 1) * PageSize
        BY <1>2, PagesCover
    <2> QED BY <2>1, <2>2
<1>3. CASE ~(page > Paging!Pages)
    <2>1. items = SubSeq(list, first, last)
        BY <1>3 DEF Paging!PageItems
    <2>2. first \in Nat \ {0} /\ last \in Nat /\ last <= Len(list)
        BY <1>1, <1>3, PagesCover
    <2>3. \A i \in 1..Len(list) : i <= page * PageSize => i <= last
        BY <1>3, PagesCover
    <2> HIDE DEF items, last
    <2>4. /\ items \in Seq(Listed)
          /\ Len(items) = IF first <= last THEN last - first + 1 ELSE 0
          /\ \A j \in 1..Len(items) : items[j] = list[first + j - 1]
        <3>1. \A i \in first..last : list[i] \in Listed
            BY <1>1, <2>2
        <3> HIDE DEF first
        <3> QED BY <1>1, <2>1, <2>2, <3>1, SubSeqProperties
    <2>5. ASSUME NEW i \in 1..Len(list), i <= page * PageSize, ~(i <= (page - 1) * PageSize)
          PROVE  \E j \in 1..Len(items) : items[j] = list[i]
        <3>1. i \in first..last /\ i \in Int
            BY <2>2, <2>3, <2>5, PagesCover
        <3> HIDE DEF first
        <3>2. i - first + 1 \in 1..Len(items) /\ first + (i - first + 1) - 1 = i
            BY <2>2, <2>4, <3>1
        <3> QED BY <2>4, <3>2
    <2> QED BY <2>4, <2>5 DEF items
<1> QED BY <1>2, <1>3

LEMMA ReadPageStep ==
    ASSUME Paging!SubscriptionParameters, PagesInv, Paging!ReadPage
    PROVE  PagesInv'
<1> DEFINE items == Paging!PageItems(page)
           all   == found \o items
<1>1. list \in Seq(Listed) /\ found \in Seq(Listed) /\ items \in Seq(Listed) /\ page \in Nat \ {0}
    BY PageHas DEF PagesInv
<1>2. at = "reading" /\ found' = all
      /\ UNCHANGED <<list, throughout, completed, resets>>
    BY DEF Paging!ReadPage
<1>3. /\ \A i \in 1..Len(list) :
             i <= page * PageSize /\ ~(i <= (page - 1) * PageSize)
                 => \E j \in 1..Len(items) : items[j] = list[i]
    BY PageHas
<1> HIDE DEF items
<1>4. /\ all \in Seq(Listed) /\ Len(all) = Len(found) + Len(items)
      /\ \A j \in 1..Len(found) : j \in 1..Len(all) /\ all[j] = found[j]
      /\ \A j \in 1..Len(items) : Len(found) + j \in 1..Len(all) /\ all[Len(found) + j] = items[j]
    BY <1>1
<1> HIDE DEF all
<1>5. ASSUME ~Ending, NEW i \in 1..Len(list), i <= page * PageSize, list[i] \in throughout
      PROVE  \E j \in 1..Len(all) : all[j] = list[i]
    <2>1. CASE i <= (page - 1) * PageSize
        BY <1>2, <1>4, <1>5, <2>1 DEF PagesInv
    <2>2. CASE ~(i <= (page - 1) * PageSize)
        BY <1>3, <1>4, <1>5, <2>2
    <2> QED BY <2>1, <2>2
<1>6. CASE page >= Paging!Pages
    <2>1. at' = "resetting" /\ page' = page
        BY <1>6 DEF Paging!ReadPage
    <2>2. ASSUME ~Ending, NEW s \in throughout PROVE \E j \in 1..Len(all) : all[j] = s
        <3>1. PICK i \in 1..Len(list) : list[i] = s
            BY <1>2, <2>2 DEF PagesInv
        <3>2. i <= page * PageSize
            BY <1>6, <3>1, PagesCover
        <3> QED BY <1>5, <2>2, <3>1, <3>2
    <2> QED BY <1>2, <1>4, <2>1, <2>2 DEF PagesInv
<1>7. CASE ~(page >= Paging!Pages)
    <2>1. at' = at /\ page' = page + 1
        BY <1>7 DEF Paging!ReadPage
    <2>2. (page' - 1) * PageSize = page * PageSize /\ page' \in Nat \ {0}
        BY <1>1, <2>1
    <2> QED BY <1>2, <1>4, <1>5, <2>1, <2>2 DEF PagesInv
<1> QED BY <1>6, <1>7

LEMMA ReadFailsStep ==
    ASSUME Paging!SubscriptionParameters, PagesInv, Paging!ReadFails
    PROVE  PagesInv'
<1>1. /\ at = "reading" /\ page' = 1 /\ found' = <<>> /\ throughout' = {list[i] : i \in DOMAIN list}
      /\ UNCHANGED <<list, at, completed, resets>>
    BY DEF Paging!ReadFails, Paging!ToSet
<1>2. list \in Seq(Listed) /\ DOMAIN list = 1..Len(list) /\ Len(list) \in Nat
    BY DEF PagesInv
<1>3. \A i \in 1..Len(list) : ~(i <= (page' - 1) * PageSize)
    <2>1. (page' - 1) * PageSize = 0
        BY <1>1 DEF Paging!SubscriptionParameters
    <2> QED BY <1>2, <2>1
<1>4. found' \in Seq(Listed)
    BY <1>1
<1> QED BY <1>1, <1>2, <1>3, <1>4 DEF PagesInv

LEMMA ResetStepOfPages ==
    ASSUME PagesInv, Paging!Reset
    PROVE  PagesInv'
<1>1. PICK i \in DOMAIN found :
          /\ Paging!Remains(i)
          /\ resets' = [resets EXCEPT ![found[i]] = @ + 1]
          /\ completed' = completed \cup {found[i]}
    BY DEF Paging!Reset
<1>2. at = "resetting" /\ UNCHANGED <<list, throughout, at, page, found>>
    BY DEF Paging!Reset
<1> DEFINE t == found[i]
<1>3. t \in Listed /\ t \in Wanted /\ t \notin completed
    BY <1>1 DEF PagesInv, Paging!Remains, Paging!IsWanted
<1>4. resets' = [s \in Listed |-> IF s \in completed' THEN 1 ELSE 0]
    BY <1>1, <1>3 DEF PagesInv
<1> QED BY <1>1, <1>2, <1>3, <1>4 DEF PagesInv

LEMMA CompleteStepOfPages ==
    ASSUME PagesInv, Paging!Complete
    PROVE  PagesInv'
<1>1. /\ at = "resetting" /\ at' = "done"
      /\ UNCHANGED <<list, throughout, page, found, completed, resets>>
    BY DEF Paging!Complete
<1>2. \A j \in 1..Len(found) : found[j] \in Wanted => found[j] \in completed
    BY DEF PagesInv, Paging!Complete, Paging!Remains, Paging!IsWanted
<1> QED BY <1>1, <1>2 DEF PagesInv

\* A subscription that begins is not one that was active throughout, and moves
\* the others back at most.
LEMMA BeginsStep ==
    ASSUME Paging!SubscriptionParameters, PagesInv, NEW s \in Listed, Paging!Begins(s)
    PROVE  PagesInv'
<1>1. /\ at = "reading" /\ s \notin {list[i] : i \in DOMAIN list}
      /\ list' \in {<<s>> \o list, Append(list, s)}
      /\ UNCHANGED <<throughout, at, page, found, completed, resets>>
    BY DEF Paging!Begins, Paging!ToSet
<1>2. list \in Seq(Listed) /\ DOMAIN list = 1..Len(list) /\ Len(list) \in Nat
    BY DEF PagesInv
<1>3. ~Ending => s \notin throughout
    BY <1>1, <1>2 DEF PagesInv
<1>4. /\ list' \in Seq(Listed) /\ Len(list') = Len(list) + 1
      /\ \A i \in 1..Len(list') :
            list'[i] = s \/ \E k \in 1..Len(list) : k <= i /\ list'[i] = list[k]
      /\ \A k \in 1..Len(list) : \E i \in 1..Len(list') : list'[i] = list[k]
    <2>1. CASE list' = Append(list, s)
        BY <1>2, <2>1
    <2>2. CASE list' = <<s>> \o list
        <3>1. /\ list' \in Seq(Listed) /\ Len(list') = Len(list) + 1 /\ list'[1] = s
              /\ \A k \in 1..Len(list) : list'[k + 1] = list[k]
            BY <1>2, <2>2
        <3>2. \A i \in 1..Len(list') : i = 1 \/ (i - 1 \in 1..Len(list) /\ i - 1 <= i /\ list'[i] = list[i - 1])
            BY <1>2, <3>1
        <3>3. \A k \in 1..Len(list) : k + 1 \in 1..Len(list')
            BY <1>2, <3>1
        <3> QED BY <3>1, <3>2, <3>3
    <2> QED BY <1>1, <2>1, <2>2
<1>5. (page - 1) * PageSize \in Nat
    BY PagesCover
<1>6. ASSUME ~Ending, NEW i \in 1..Len(list'), i <= (page - 1) * PageSize, list'[i] \in throughout
      PROVE  \E j \in 1..Len(found) : found[j] = list'[i]
    <2>1. PICK k \in 1..Len(list) : k <= i /\ list'[i] = list[k]
        BY <1>3, <1>4, <1>6
    <2>2. k <= (page - 1) * PageSize
        BY <1>2, <1>4, <1>5, <1>6, <2>1
    <2> QED BY <1>1, <1>6, <2>1, <2>2 DEF PagesInv
<1>7. ~Ending => \A t \in throughout : \E i \in 1..Len(list') : list'[i] = t
    BY <1>1, <1>4 DEF PagesInv
<1> QED BY <1>1, <1>4, <1>6, <1>7 DEF PagesInv

LEMMA EndsStep ==
    ASSUME PagesInv, NEW s \in Listed, Paging!Ends(s)
    PROVE  PagesInv'
<1>1. PICK i \in DOMAIN list : list' = SubSeq(list, 1, i - 1) \o SubSeq(list, i + 1, Len(list))
    BY DEF Paging!Ends, Paging!RemoveAt
<1>2. /\ Ending /\ at = "reading" /\ throughout' = throughout \ {s}
      /\ UNCHANGED <<at, page, found, completed, resets>>
    BY DEF Paging!Ends
<1>3. list' \in Seq(Listed)
    BY <1>1 DEF PagesInv
<1> QED BY <1>2, <1>3 DEF PagesInv

LEMMA PagesInvariant ==
    ASSUME Paging!SubscriptionParameters
    PROVE  Paging!Spec => []PagesInv
<1>1. Paging!Init => PagesInv
    BY PagesInit
<1>2. PagesInv /\ [Paging!Next]_Paging!vars => PagesInv'
    <2>1. ASSUME PagesInv, UNCHANGED Paging!vars PROVE PagesInv'
        BY <2>1 DEF PagesInv, Paging!vars
    <2> QED BY <2>1, ReadPageStep, ReadFailsStep, ResetStepOfPages, CompleteStepOfPages,
               BeginsStep, EndsStep DEF Paging!Next
<1> QED BY <1>1, <1>2, PTL DEF Paging!Spec

\* A subscription that was on two of the pages is not reset twice, and one of
\* another group never, also when subscriptions end while the list is read
\* (completeReset in engine.ts; docs 002).
THEOREM NoneTwice ==
    ASSUME Paging!SubscriptionParameters
    PROVE  Paging!Spec => []Paging!NoneResetTwice
<1>1. PagesInv => Paging!NoneResetTwice
    BY DEF PagesInv, Paging!NoneResetTwice
<1> QED BY <1>1, PagesInvariant, PTL

\* While none ends, each that was active all the time is reset, however many
\* begin at either end of the list and move the pages (activeSubscriptions in
\* sub2api-client.ts; docs 002).
THEOREM EachOnce ==
    ASSUME Paging!SubscriptionParameters, ~Ending
    PROVE  Paging!Spec => []Paging!EachResetOnce
<1>1. PagesInv => Paging!EachResetOnce
  <2>1. SUFFICES ASSUME PagesInv, at = "done", NEW s \in throughout \cap Wanted
                 PROVE  resets[s] = 1
      BY DEF Paging!EachResetOnce
  <2>2. PICK j \in 1..Len(found) : found[j] = s
      BY <2>1 DEF PagesInv
  <2>3. s \in completed /\ s \in Listed
      BY <2>1, <2>2 DEF PagesInv
  <2> QED BY <2>1, <2>3 DEF PagesInv
<1> QED BY <1>1, PagesInvariant, PTL
=============================================================================
