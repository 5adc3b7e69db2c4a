---------------------------- MODULE CapacitySync ----------------------------
(***************************************************************************)
(* The capacity job of one account: syncCapacity of engine.ts writes the    *)
(* share of the estimate to the groups and hands the remaining amount to    *)
(* QuotaRedistributor (redistribution.ts), which keeps a ledger of rounds.  *)
(* Which estimate a run arrives at is left open: any allocatable amount of  *)
(* Nets when a sample is eligible, or the stable one of the same window.    *)
(***************************************************************************)
EXTENDS AccountState

unchangedByCapacity == <<upstream, config, admin, aborts, resetState,
                         wiped>>

StandardCost(o) == o.used * CostPerUse

\* roundUsd(allocatable / shareCount), in cents
PerShare(net) == (2 * net + ShareCount) \div (2 * ShareCount)

\* centsDown: an amount below zero counts as zero
CentsDown(amount) == Larger(0, amount)

Distance(a, b) == Larger(a - b, b - a)

StartCapacity == StartTask("sample")

CapacityOf(o) ==
    IF capacity # None /\ IsSameResetWindow(capacity.window, o) THEN capacity ELSE None

\* The estimate of the stored capacity or, where that has none, the one that a
\* failed run left in the cycle of the window.
PreviousEstimate(o) ==
    IF CapacityOf(o) = None THEN None
    ELSE IF capacity.net # None THEN capacity.net ELSE capacity.cycle

\* recordCycleObservation, before the groups are visited.
RecordCycle(o, net) ==
    capacity' = IF CapacityOf(o) # None /\ capacity.net = None
                THEN [capacity EXCEPT !.cycle = net] ELSE capacity

\* Quota, usage, subscriptions and the account's state are read; the groups
\* are visited only with a new estimate, which needs a used window.
Sample(o) ==
    /\ pc = "sample"
    /\ \/ mem' = [mem EXCEPT !.seen = o, !.net = PreviousEstimate(o)] /\ UNCHANGED capacity
       \/ /\ o.used > 0
          /\ \E net \in Nets :
                /\ mem' = [mem EXCEPT !.seen = o, !.net = net, !.todo = mem.groups]
                /\ RecordCycle(o, net)
    /\ pc' = "writeGroups"
    /\ UNCHANGED <<unchangedByCapacity, limit, redistribution, moneyHistory>>

LedgerOfWindow(o) ==
    IF redistribution # None /\ IsSameResetWindow(redistribution.window, o)
    THEN redistribution ELSE None

\* Mutant: the ledger is not looked at.
NoFloor(g) == 0

\* Once a round has recorded a limit, that limit is the group's target.
Floor(g) ==
    LET ledger == LedgerOfWindow(mem.seen)
    IN  IF ledger = None THEN 0 ELSE ledger.limits[g]

TargetLimit(g) == IF Floor(g) > 0 THEN Floor(g) ELSE PerShare(mem.net)

ShouldUpdate(g) ==
    LET ledger == LedgerOfWindow(mem.seen)
    IN  /\ ledger # None => ledger.pending = None
        /\ Distance(limit[g], TargetLimit(g)) >= MinimumChange

SkipGroup(g) ==
    /\ pc = "writeGroups"
    /\ IsFirst(g, mem.todo)
    /\ ~ShouldUpdate(g)
    /\ mem' = [mem EXCEPT !.todo = @ \ {g}]
    /\ UNCHANGED <<unchangedByCapacity, limit, redistribution, capacity, pc,
                   moneyHistory>>

\* The write may fail before or after it took effect; the loop goes on.
WriteGroup(g) ==
    /\ pc = "writeGroups"
    /\ IsFirst(g, mem.todo)
    /\ ShouldUpdate(g)
    /\ \E written, answered \in BOOLEAN :
          /\ answered => written
          /\ ~answered => aborts < MaxAborts
          /\ aborts' = IF answered THEN aborts ELSE aborts + 1
          /\ mem' = [mem EXCEPT !.todo = @ \ {g}, !.failed = @ \/ ~answered]
          /\ limit' = IF written THEN [limit EXCEPT ![g] = TargetLimit(g)]
                      ELSE limit
          /\ IF written /\ Floor(g) = 0 THEN BackToBase(g) ELSE UNCHANGED <<added, departed>>
    /\ UNCHANGED <<upstream, config, admin, resetState, wiped, granted,
                   redistribution, capacity, pc>>

\* saveCapacity; a failed group ends the run here.
SaveCapacity ==
    /\ pc = "writeGroups"
    /\ mem.todo = {}
    /\ capacity' = [window |-> IF CapacityOf(mem.seen) # None THEN capacity.window ELSE mem.seen,
                    net    |-> mem.net,
                    cycle  |-> None]
    /\ IF mem.failed
       THEN pc' = "idle" /\ mem' = NoMemory
       ELSE pc' = "redistribute" /\ UNCHANGED mem
    /\ UNCHANGED <<unchangedByCapacity, limit, redistribution, moneyHistory>>

----------------------------------------------------------------------------
(* QuotaRedistributor.run                                                   *)

Enabled == enabled /\ flag

ResetReady ==
    /\ observation # None
    /\ pendingEvent = None
    /\ IsSameResetWindow(observation, mem.seen)

\* Mutant: an interrupted round is given up together with its ledger.
WithoutInterrupted ==
    IF /\ redistribution # None
       /\ redistribution.pending = None
       /\ IsSameResetWindow(redistribution.window, mem.seen) \/ ~ResetReady
    THEN redistribution ELSE FreshRedistribution(mem.seen)

\* The ledger the run works on: that of another window is given up only when
\* the reset of the observed window is done.
Working ==
    IF /\ redistribution # None
       /\ \/ IsSameResetWindow(redistribution.window, mem.seen)
          \/ ~ResetReady
    THEN redistribution ELSE FreshRedistribution(mem.seen)

Based == [Working EXCEPT !.base = PerShare(mem.net)]

\* Mutant: only the cost so far counts as allocated.
WithoutWatermark == StandardCost(mem.seen)

AllocationBase == Larger(Working.committed, StandardCost(mem.seen))

Unallocated == CentsDown(mem.net - AllocationBase)

NoLedger ==
    /\ pc = "redistribute"
    /\ ~mem.flag
    /\ redistribution = None
    /\ pc' = "idle" /\ mem' = NoMemory
    /\ UNCHANGED <<unchangedByCapacity, limit, redistribution, capacity,
                   moneyHistory>>

HasEstimate == Enabled /\ ResetReady /\ mem.net # None

\* "disabled" or "waiting": the ledger is saved as it was found.
KeepLedger ==
    /\ pc = "redistribute"
    /\ mem.flag \/ redistribution # None
    /\ ~HasEstimate
    /\ redistribution' = Working
    /\ pc' = "idle" /\ mem' = NoMemory
    /\ UNCHANGED <<unchangedByCapacity, limit, capacity, moneyHistory>>

Exhausted ==
    \/ mem.seen.used >= Full
    \/ CentsDown(mem.net - StandardCost(mem.seen)) < ShareCount

\* Only a limit above zero can be added to; unlimited groups are left out.
AllLimited == mem.groups # {} /\ \A g \in mem.groups : limit[g] > 0

MayGrant(members) ==
    /\ Working.pending # None \/ ~Exhausted
    /\ members
    /\ AllLimited
    /\ Working.pending # None \/ Unallocated >= ShareCount

\* "exhausted" or "waiting" after the base limit was brought up to date.
RebaseLedger(members) ==
    /\ pc = "redistribute"
    /\ mem.flag \/ redistribution # None
    /\ HasEstimate
    /\ ~MayGrant(members)
    /\ redistribution' = Based
    /\ pc' = "idle" /\ mem' = NoMemory
    /\ UNCHANGED <<unchangedByCapacity, limit, capacity, moneyHistory>>

\* Absolute targets and the new watermark are stored before any write.
StartRound(members) ==
    LET perShare == Unallocated \div ShareCount
    IN  /\ pc = "redistribute"
        /\ mem.flag \/ redistribution # None
        /\ HasEstimate
        /\ MayGrant(members)
        /\ Working.pending = None
        /\ redistribution' =
              [Based EXCEPT !.pending =
                 [perShare  |-> perShare,
                  targets   |-> [g \in Groups |->
                                   IF g \in mem.groups
                                   THEN limit[g] + perShare ELSE 0],
                  committed |-> AllocationBase + perShare * ShareCount,
                  completed |-> {}]]
        /\ granted' = [granted EXCEPT ![mem.seen.cycle] =
                                        @ + perShare * ShareCount]
        /\ pc' = "round"
        /\ UNCHANGED <<unchangedByCapacity, limit, capacity, mem, added, departed>>

\* A stored round is taken up again; the new base is saved with its next step.
ResumeRound(members) ==
    /\ pc = "redistribute"
    /\ mem.flag \/ redistribution # None
    /\ HasEstimate
    /\ MayGrant(members)
    /\ Working.pending # None
    /\ pc' = "round"
    /\ UNCHANGED <<unchangedByCapacity, limit, redistribution, capacity, mem,
                   moneyHistory>>

pending == redistribution.pending

Unfinished == {g \in Groups : pending.targets[g] > 0} \ pending.completed

Rebased == [redistribution EXCEPT !.base = PerShare(mem.net)]

NextTarget(g) == pc = "round" /\ IsFirst(g, Unfinished)

Writable(g) == Enabled /\ g \in groups \cap mem.groups

\* Turned off meanwhile, or a target that this run did not read.
LeaveRound(g) ==
    /\ NextTarget(g)
    /\ ~Enabled \/ (g \in groups /\ g \notin mem.groups)
    /\ redistribution' = Rebased
    /\ pc' = "idle" /\ mem' = NoMemory
    /\ UNCHANGED <<unchangedByCapacity, limit, capacity, moneyHistory>>

\* A group the administrator took out is not written any more.
DropTarget(g) ==
    /\ NextTarget(g)
    /\ Enabled
    /\ g \notin groups
    /\ redistribution' = [Rebased EXCEPT !.pending.completed = @ \cup {g}]
    /\ UNCHANGED <<unchangedByCapacity, limit, capacity, pc, mem, moneyHistory>>

RaiseLimit(g) ==
    /\ limit' = [limit EXCEPT ![g] = pending.targets[g]]
    /\ added' = [added EXCEPT ![g] = @ + pending.targets[g] - limit[g]]

WriteTarget(g) ==
    /\ NextTarget(g)
    /\ Writable(g)
    /\ limit[g] < pending.targets[g]
    /\ RaiseLimit(g)
    /\ pc' = "record"
    /\ UNCHANGED <<unchangedByCapacity, redistribution, capacity, mem, departed, granted>>

\* The write fails, before or after it took effect: the round stays stored.
FailTarget(g) ==
    /\ NextTarget(g)
    /\ Writable(g)
    /\ limit[g] < pending.targets[g]
    /\ aborts < MaxAborts
    /\ aborts' = aborts + 1
    /\ RaiseLimit(g) \/ UNCHANGED <<limit, added>>
    /\ redistribution' = Rebased
    /\ pc' = "idle" /\ mem' = NoMemory
    /\ UNCHANGED <<upstream, config, admin, resetState, wiped, capacity,
                   departed, granted>>

RecordTarget(g) ==
    /\ \/ pc = "record"
       \/ pc = "round" /\ Writable(g) /\ limit[g] >= pending.targets[g]
    /\ IsFirst(g, Unfinished)
    /\ redistribution' = [Rebased EXCEPT
            !.limits[g] = Larger(pending.targets[g], limit[g]),
            !.pending.completed = @ \cup {g}]
    /\ pc' = "round"
    /\ UNCHANGED <<unchangedByCapacity, limit, capacity, mem, moneyHistory>>

FinishRound ==
    /\ pc = "round"
    /\ Unfinished = {}
    /\ redistribution' = [Rebased EXCEPT !.total = @ + pending.perShare,
                                         !.committed = pending.committed,
                                         !.pending = None]
    /\ pc' = "idle" /\ mem' = NoMemory
    /\ UNCHANGED <<unchangedByCapacity, limit, capacity, moneyHistory>>

CapacityStep ==
    \/ \E o \in ObserveQuota : Sample(o)
    \/ \E g \in Groups : SkipGroup(g) \/ WriteGroup(g)
    \/ SaveCapacity
    \/ NoLedger \/ KeepLedger
    \/ \E members \in BOOLEAN :
          RebaseLedger(members) \/ StartRound(members) \/ ResumeRound(members)
    \/ \E g \in Groups : LeaveRound(g) \/ DropTarget(g) \/ WriteTarget(g)
                         \/ FailTarget(g) \/ RecordTarget(g)
    \/ FinishRound

============================================================================
