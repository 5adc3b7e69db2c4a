---------------------------- MODULE AccountState ----------------------------
(***************************************************************************)
(* What the automation engine shares with the rest of the system for one    *)
(* configured account: the upstream quota window and group limits, the      *)
(* account's entry in the state store, its entry in the configuration, and  *)
(* the task at the head of the account's queue (engine.ts, accountQueues).  *)
(* ResetSync and CapacitySync give that task its steps; the steps of the    *)
(* upstream and of the administrator are here.                              *)
(*                                                                          *)
(* Money is counted in cents, time and usage in small units.  An account's  *)
(* estimate enters as its allocatable amount (estimated capacity minus      *)
(* reserve, clamped at zero), which is all the limits depend on.            *)
(***************************************************************************)
EXTENDS Integers

CONSTANTS
    Groups,         \* ids of Sub2API groups that the account may manage
    Subs,           \* ids of subscriptions in those groups
    None,           \* absent value
    InitialGroups,  \* targetGroupIds at the start
    InitialLimit,   \* weekly limit of every group at the start
    ShareCount,     \* shareCount
    Nets,           \* allocatable amounts that an estimate can produce
    CostPerUse,     \* standard cost of one unit of usage
    Full,           \* the usage that is 100%
    MinimumChange,  \* capacitySync.minimumChangeUsd
    Tolerance,      \* resetSync.resetAtToleranceSeconds
    UsageDrop,      \* resetSync.usageDropTolerancePercent
    Jitter,         \* how far a reported reset_at is off the true one
    CycleLength,    \* length of an upstream window
    Moves,          \* unusual upstream moves: subset of {"early", "shift"}
    StaleForms,     \* may a settings page be saved after the flag changed
    MaxNow,         \* bound on the clock
    MaxCycle,       \* bound on the number of windows
    MaxEdits,       \* bound on saved configurations
    MaxAborts       \* bound on failed or killed tasks

ASSUME IdsAreOrdered == Groups \subseteq Nat /\ Subs \subseteq Nat
ASSUME InitialConfig == InitialGroups \subseteq Groups /\ InitialLimit \in Nat
ASSUME AmountsAreCents ==
    /\ ShareCount \in Nat \ {0}
    /\ Nets \subseteq Nat
    /\ CostPerUse \in Nat
    /\ MinimumChange \in Nat
ASSUME WindowParameters ==
    /\ Tolerance \in Nat /\ UsageDrop \in Nat /\ Full \in Nat
    /\ Jitter \subseteq -Tolerance..0
    /\ CycleLength \in Nat /\ CycleLength > 2 * Tolerance
    /\ Moves \subseteq {"early", "shift"}
    /\ StaleForms \in BOOLEAN
ASSUME Bounds ==
    MaxNow \in Nat /\ MaxCycle \in Nat /\ MaxEdits \in Nat /\ MaxAborts \in Nat

VARIABLES
    now,            \* upstream clock
    quota,          \* the true window: when it ends, its usage, its number
    limit,          \* weekly_limit_usd of each group
    flag,           \* redistributionEnabled, persisted and in memory
    enabled,        \* account.enabled
    groups,         \* targetGroupIds
    form,           \* the flag shown by an open settings page
    observation,    \* reset.observation
    lastHandled,    \* reset.lastHandledResetAt
    pendingEvent,   \* reset.pendingEvent
    redistribution, \* redistribution
    capacity,       \* capacity (window and stable estimate)
    pc,             \* next step of the running account task
    mem,            \* its local variables
    \* History variables: no step of the code reads them.
    wiped,          \* the last window each subscription was reset for
    added,          \* what redistribution has put on top of a group
    departed,       \* groups taken out of the configuration while they carried it
    granted,        \* amount granted in each window
    armed,          \* administrator turned the flag on in the current window
    edits, aborts

upstream == <<now, quota>>
config   == <<flag, enabled, groups>>
admin    == <<form, edits, armed>>
resetState == <<observation, lastHandled, pendingEvent>>
moneyHistory  == <<added, departed, granted>>
vars == <<now, quota, limit, flag, enabled, groups, form, observation,
          lastHandled, pendingEvent, redistribution, capacity, pc, mem, wiped,
          added, departed, granted, armed, edits, aborts>>

----------------------------------------------------------------------------
(* Types.  "cycle" in an observation is history: it numbers the true window *)
(* the observation was taken in.                                            *)

Observation == [resetAt : Int, used : Nat, cycle : 0..MaxCycle]

Restore == [limit : Nat, groups : SUBSET Groups]

PendingEvent == [observation : Observation,
                 targets     : SUBSET Subs,
                 completed   : SUBSET Subs,
                 restore     : Restore \cup {None}]

Round == [perShare  : Nat,
          targets   : [Groups -> Nat],  \* 0: the group is not in the round
          committed : Nat,
          completed : SUBSET Groups]

Ledger == [window    : Observation,
           base      : Nat \cup {None},
           limits    : [Groups -> Nat], \* 0: no limit recorded for the group
           committed : Nat,
           total     : Nat,
           pending   : Round \cup {None}]

\* "cycle": the estimate stored with the cycle of a window whose capacity has none.
Capacity == [window : Observation, net : Nets \cup {None}, cycle : Nets \cup {None}]

ResetSteps == {"observe", "detected", "disable", "restore", "restoreGroup",
               "wipe", "recordWipe"}
CapacitySteps == {"sample", "writeGroups", "redistribute", "round", "record"}

Memory == [flag : BOOLEAN, groups : SUBSET Groups, todo : SUBSET Groups,
           seen : Observation \cup {None}, net : Nets \cup {None},
           failed : BOOLEAN, resumed : BOOLEAN]

NoMemory == [flag |-> FALSE, groups |-> {}, todo |-> {}, seen |-> None,
             net |-> None, failed |-> FALSE, resumed |-> FALSE]

ASSUME NoneIsNoRecord ==
    /\ None \notin Observation \cup PendingEvent \cup Ledger
    /\ None \notin Round \cup Restore
    /\ None \notin Nets \cup Nat

TypeOK ==
    /\ now \in Nat
    /\ quota \in [end : Int, used : Nat, cycle : 0..MaxCycle]
    /\ limit \in [Groups -> Nat]
    /\ flag \in BOOLEAN /\ enabled \in BOOLEAN /\ form \in BOOLEAN
    /\ groups \in SUBSET Groups
    /\ observation \in Observation \cup {None}
    /\ lastHandled \in Observation \cup {None}
    /\ pendingEvent \in PendingEvent \cup {None}
    /\ redistribution \in Ledger \cup {None}
    /\ capacity \in Capacity \cup {None}
    /\ pc \in {"idle"} \cup ResetSteps \cup CapacitySteps
    /\ mem \in Memory
    /\ wiped \in [Subs -> Int]
    /\ added \in [Groups -> Nat] /\ departed \in SUBSET Groups
    /\ granted \in [0..MaxCycle -> Nat]
    /\ armed \in BOOLEAN /\ edits \in Nat /\ aborts \in Nat

Init ==
    /\ now = 0
    /\ quota = [end |-> CycleLength, used |-> 0, cycle |-> 0]
    /\ limit = [g \in Groups |-> InitialLimit]
    /\ flag \in BOOLEAN /\ form = flag /\ armed = flag
    /\ enabled = TRUE
    /\ groups = InitialGroups
    /\ observation = None /\ lastHandled = None /\ pendingEvent = None
    /\ redistribution = None /\ capacity = None
    /\ pc = "idle" /\ mem = NoMemory
    /\ wiped = [s \in Subs |-> -1]
    /\ added = [g \in Groups |-> 0] /\ departed = {} /\ granted = [c \in 0..MaxCycle |-> 0]
    /\ edits = 0 /\ aborts = 0

----------------------------------------------------------------------------
(* Operators of estimation.ts and of the two jobs.                          *)

Larger(a, b) == IF a > b THEN a ELSE b

\* Mutant: the stored order of a list is not kept.
AnyOrder(x, S) == x \in S

IsFirst(x, S) == x \in S /\ \A y \in S : x <= y

IsSameResetWindow(left, right) ==
    left.resetAt - right.resetAt \in -Tolerance..Tolerance

\* Mutants: a move within the tolerance counts; both signs are asked for.
AnyMoveIsNew(previous, current, fetchedAt) ==
    /\ current.resetAt > previous.resetAt
    /\ current.used + UsageDrop < previous.used \/ fetchedAt >= previous.resetAt

NewOnlyWithBothSigns(previous, current, fetchedAt) ==
    /\ current.resetAt > previous.resetAt + Tolerance
    /\ current.used + UsageDrop < previous.used
    /\ fetchedAt >= previous.resetAt

IsNewResetWindow(previous, current, fetchedAt) ==
    /\ current.resetAt > previous.resetAt + Tolerance
    /\ \/ current.used + UsageDrop < previous.used
       \/ fetchedAt >= previous.resetAt

FreshRedistribution(window) ==
    [window |-> window, base |-> None, limits |-> [g \in Groups |-> 0],
     committed |-> 0, total |-> 0, pending |-> None]

\* What a read of the quota endpoint may report.
ObserveQuota ==
    {[resetAt |-> quota.end + j, used |-> quota.used, cycle |-> quota.cycle] :
        j \in Jitter}

----------------------------------------------------------------------------
(* The upstream.                                                            *)

account == <<resetState, redistribution, capacity, pc, mem>>
history == <<wiped, moneyHistory>>

\* A group's limit becomes its base limit again, or for the first time.
BackToBase(g) == added' = [added EXCEPT ![g] = 0] /\ departed' = departed \ {g}

Tick ==
    /\ now < MaxNow
    /\ now' = now + 1
    /\ UNCHANGED <<quota, limit, config, admin, aborts, account, history>>

Consume ==
    /\ quota.used < Full
    /\ quota' = [quota EXCEPT !.used = @ + 1]
    /\ UNCHANGED <<now, limit, config, admin, aborts, account, history>>

\* The window expired and the next one began.
Rollover ==
    /\ now >= quota.end
    /\ quota.cycle < MaxCycle
    /\ quota' = [end |-> now + CycleLength, used |-> 0, cycle |-> quota.cycle + 1]
    /\ UNCHANGED <<now, limit, config, admin, aborts, account, history>>

\* A new window before the old one expired.
EarlyRollover ==
    /\ "early" \in Moves
    /\ now < quota.end
    /\ quota.cycle < MaxCycle
    /\ quota' = [end |-> now + CycleLength, used |-> 0, cycle |-> quota.cycle + 1]
    /\ UNCHANGED <<now, limit, config, admin, aborts, account, history>>

\* The reported end moves by more than the tolerance, in the same window and
\* with no drop of the usage.
ShiftWindow ==
    /\ "shift" \in Moves
    /\ now < quota.end
    /\ quota.end <= CycleLength
    /\ quota' = [quota EXCEPT !.end = @ + 2 * Tolerance + 1]
    /\ UNCHANGED <<now, limit, config, admin, aborts, account, history>>

----------------------------------------------------------------------------
(* The administrator.                                                       *)

\* SettingsPage takes a copy of the configuration when it is mounted.
OpenForm ==
    /\ form # flag
    /\ form' = flag
    /\ UNCHANGED <<upstream, limit, config, armed, edits, aborts, account, history>>

\* PUT /config with the whole form: replaceConfig persists it and takes it
\* over as one entry of the configuration write queue; the account's state is
\* kept, and nothing is written upstream: a group that is taken out keeps its
\* raised limit, and so does one that is put back.
ReplaceConfig(nextFlag, nextEnabled, nextGroups) ==
    /\ edits < MaxEdits
    /\ edits' = edits + 1
    /\ StaleForms \/ form = flag
    /\ flag' = nextFlag /\ form' = nextFlag
    /\ enabled' = nextEnabled
    /\ groups' = nextGroups
    /\ armed' = (IF nextFlag = form THEN armed ELSE nextFlag)
    /\ departed' = departed \cup {g \in groups \ nextGroups : added[g] > 0}
    /\ UNCHANGED <<upstream, limit, aborts, account, wiped, added, granted>>

----------------------------------------------------------------------------
(* The account's queue: a job waits for the one before it (syncAccount), so *)
(* that at most one task runs.                                              *)

StartTask(first) ==
    /\ pc = "idle"
    /\ enabled
    /\ pc' = first
    /\ mem' = [NoMemory EXCEPT !.flag = flag, !.groups = groups]
    /\ UNCHANGED <<upstream, limit, config, admin, aborts, resetState,
                   redistribution, capacity, history>>

\* A call fails, its answer is lost, or the process is killed and started
\* again: the task ends where it is, the stored state remains.
Abort ==
    /\ pc # "idle"
    /\ aborts < MaxAborts
    /\ aborts' = aborts + 1
    /\ pc' = "idle" /\ mem' = NoMemory
    /\ UNCHANGED <<upstream, limit, config, admin, resetState, redistribution,
                   capacity, history>>

============================================================================
