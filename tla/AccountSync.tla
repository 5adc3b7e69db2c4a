----------------------------- MODULE AccountSync -----------------------------
(***************************************************************************)
(* One account of the automation engine: the reset job and the capacity job *)
(* take turns in the account's queue while the upstream window moves on,    *)
(* the administrator saves configurations, calls fail and the process dies. *)
(***************************************************************************)
EXTENDS ResetSync, CapacitySync

Admin ==
    \/ OpenForm
    \/ \E f, e \in BOOLEAN, gs \in SUBSET Groups \ {{}} : ReplaceConfig(f, e, gs)

Upstream == Tick \/ Consume \/ Rollover \/ EarlyRollover \/ ShiftWindow

Next ==
    \/ Upstream
    \/ Admin
    \/ StartReset \/ ResetStep
    \/ StartCapacity \/ CapacityStep
    \/ Abort

Spec == Init /\ [][Next]_vars

\* A step of the running task is a callback that the event loop will run.
\* Both jobs are started by timers and wait for each other in a queue served
\* in order, so neither can be overtaken for ever.
FairSpec ==
    /\ Spec
    /\ WF_vars(ResetStep) /\ WF_vars(CapacityStep)
    /\ SF_vars(StartReset) /\ SF_vars(StartCapacity)

----------------------------------------------------------------------------
(* What a step may take for granted where it runs.  The inductive           *)
(* invariants of AccountSyncProofs are TypeOK with these.                   *)

\* The locals and the stored records that a step of the task reads are there.
TaskOK ==
    /\ pc \in {"detected"} \cup (CapacitySteps \ {"sample"}) => mem.seen # None
    /\ pc \in {"observe", "detected"} => pendingEvent = None
    /\ pc \in ResetSteps \ {"observe", "detected"} => pendingEvent # None
    /\ pc \in {"restore", "restoreGroup"} /\ mem.todo # {} =>
          pendingEvent.restore # None
    /\ pc = "sample" => mem.todo = {}
    /\ pc = "writeGroups" /\ mem.todo # {} => mem.net # None
    /\ pc \in {"round", "record"} =>
          /\ redistribution # None
          /\ redistribution.pending # None
          /\ mem.net # None

\* An observation of the current window is within the jitter of its end.
IsCurrent(o) ==
    /\ o.cycle <= quota.cycle
    /\ o.cycle = quota.cycle => quota.end - o.resetAt \in 0..Tolerance

\* Windows are met in order: handled, then the baseline, then a detected one.
WindowsInOrder ==
    /\ observation # None => IsCurrent(observation)
    /\ lastHandled # None =>
          observation # None /\ lastHandled.cycle <= observation.cycle
    /\ pc = "detected" =>
          /\ observation # None
          /\ IsCurrent(mem.seen)
          /\ mem.seen.cycle > observation.cycle
    /\ pendingEvent # None =>
          /\ observation # None
          /\ IsCurrent(pendingEvent.observation)
          /\ pendingEvent.observation.cycle > observation.cycle

\* Usage was reset for the windows up to the baseline and for the event's.
WipedInOrder ==
    \A s \in Subs :
        \/ wiped[s] = -1
        \/ observation # None /\ wiped[s] <= observation.cycle
        \/ pendingEvent # None /\ wiped[s] = pendingEvent.observation.cycle

\* The stored list trails the resets by at most the next subscription of it.
ProgressTrails ==
    pendingEvent # None =>
        LET done(s) == wiped[s] = pendingEvent.observation.cycle
        IN  /\ \A s \in pendingEvent.completed : done(s)
            /\ pendingEvent.completed \subseteq pendingEvent.targets
            /\ \A s \in Remaining : done(s) => IsFirst(s, Remaining)
            /\ pc = "recordWipe" =>
                  \A s \in Remaining : IsFirst(s, Remaining) => done(s)

\* Past the step that turns it off, redistribution is on only if it was
\* turned on again meanwhile.
OffWhileResetting ==
    pc \in {"restore", "restoreGroup", "wipe", "recordWipe"} => ~flag \/ armed

----------------------------------------------------------------------------
(* The reset event.                                                         *)

\* A subscription that the event lists as completed was reset for the event's
\* window; at most one other was, the one whose answer is outstanding or was
\* lost (completeReset writes and records one by one, in the stored order).
ProgressIsReal ==
    pendingEvent # None =>
        LET reset == {s \in pendingEvent.targets :
                         wiped[s] = pendingEvent.observation.cycle}
        IN  /\ pendingEvent.completed \subseteq reset
            /\ \A s, t \in reset \ pendingEvent.completed : s = t

\* No window is handled twice: an event is for a later window than every
\* event before it, whatever jitter, restarts and delays there were.
OneEventPerWindow ==
    (pendingEvent # None /\ lastHandled # None) =>
        pendingEvent.observation.cycle > lastHandled.cycle

\* An event is closed only when every subscription it names has been reset
\* for its window, and then the window counts as handled.
EventClosesComplete ==
    [][(pendingEvent # None /\ pendingEvent' # pendingEvent) =>
          \/ pendingEvent' # None /\ pendingEvent'.targets = pendingEvent.targets
          \/ /\ pendingEvent' = None
             /\ lastHandled' = pendingEvent.observation
             /\ \A s \in pendingEvent.targets :
                   wiped[s] = pendingEvent.observation.cycle]_vars

\* Members' usage is reset only when no group carries anything that
\* redistribution added in an earlier window, unless the administrator took the
\* group out while it did (completeReset skips it, also when it was put back
\* since) and no job has written its base limit after that.
MembersResetAtBaseLimit ==
    pc \in {"wipe", "recordWipe"} => \A g \in Groups \ departed : added[g] = 0

\* Redistribution that was not turned on in the current window is off, or the
\* event that will turn it off is still stored.
RedistributionTurnedOff ==
    (flag /\ ~armed) => pendingEvent # None

----------------------------------------------------------------------------
(* The ledger.                                                              *)

LedgerTotal ==
    IF redistribution = None THEN 0
    ELSE redistribution.total + (IF redistribution.pending = None THEN 0
                                 ELSE redistribution.pending.perShare)

\* No group got more than the rounds of the ledger add up to: a round that is
\* taken up after a lost answer or a restart does not raise a limit twice.  (A
\* group that was taken out meanwhile may carry the rounds of an earlier ledger.)
RaisesAreInLedger == \A g \in Groups \ departed : added[g] <= LedgerTotal

\* What the rounds of one window hand out never exceeds the largest
\* allocatable amount, over repeated runs, toggles, restarts and estimates
\* that fall and rise again.
GrantsWithinCapacity ==
    \A c \in 0..MaxCycle : \E net \in Nets \cup {0} : granted[c] <= net

\* Within the window of a ledger, a limit it has issued stays in force.
IssuedLimitsKept ==
    (/\ redistribution # None
     /\ redistribution.window.cycle = quota.cycle) =>
        \A g \in groups : limit[g] >= redistribution.limits[g]

----------------------------------------------------------------------------
(* Progress.                                                                *)

\* A stored event is completed, unless the account is disabled.
EventCompleted == pendingEvent # None ~> (pendingEvent = None \/ ~enabled)

\* A window that replaced one with a baseline is handled, unless the account
\* is disabled.
RolloverHandled ==
    \A c \in 1..MaxCycle :
        (observation # None /\ observation.cycle < c /\ quota.cycle = c)
            ~> (\/ lastHandled # None /\ lastHandled.cycle >= c
                \/ quota.cycle > c
                \/ ~enabled)

----------------------------------------------------------------------------
(* Claims of the documentation that the code does not keep.                 *)

\* docs/specs/003: amounts are not handed out twice in a window.  What
\* redistribution has put on top of a group, taken for every share, is never
\* more than the largest allocatable amount.
CarriedWithinCapacity ==
    \A g \in Groups : \E net \in Nets \cup {0} : added[g] * ShareCount <= net

\* docs/specs/002: every target subscription is reset only once.
ResetOnlyOnce ==
    [][\A s \in Subs : ResetSubscriptionWeekly(s) =>
          wiped[s] # pendingEvent.observation.cycle]_vars

============================================================================
