------------------------------- MODULE Scheduler -------------------------------
(***************************************************************************)
(* The scheduling half of AutomationEngine (automation/engine.ts): timers   *)
(* and runs of the jobs, the queue of configuration writes with the route   *)
(* that fills it, and the schedule of user limits with its own queue and    *)
(* timer.  What a run does to an account is in AccountSync.                 *)
(*                                                                          *)
(* The store fails as StateStore says: after one failed write every update  *)
(* is rejected until the process ends.  setNextRun is called without a      *)
(* handler, and Node ends a process with an unhandled rejection.            *)
(***************************************************************************)
EXTENDS Naturals, SequencesExt, FiniteSetsExt

CONSTANTS
    Kinds,          \* of jobs
    Users,          \* active users of Sub2API
    Exempt,         \* exemptUserIds
    None,
    MaxSaves,       \* bounds: saves of the configuration,
    MaxManual,      \* runs started by hand, and limits set by hand,
    MaxTurns,       \* changes between peak and idle time,
    MaxFailures, MaxCrashes, MaxOrphans

SchedulerParameters ==
    /\ Exempt \subseteq Users
    /\ MaxFailures \in Nat /\ MaxCrashes \in Nat /\ MaxOrphans \in Nat

VARIABLES
    up,             \* does the process run
    doomed,         \* has a rejection been left unhandled
    broken,         \* does the store reject every update
    file,           \* config.json
    config,         \* the configuration in force
    timer,          \* is the timer of each job pending that timers[kind] holds
    orphans,        \* pending timers of each job that timers[kind] has lost
    running,        \* the flags that run sets
    run,            \* step of each job's run, by who started it
    ending,         \* timer callbacks that wait for finishJob
    saves,          \* configWrites, the first one running
    saving,         \* its step
    answered,       \* how the last save ended
    period,         \* peak or idle time
    limits,         \* limit of each user
    userTimer, userOrphans, \* timers of the user limits, as above
    userQueue,      \* userConcurrencyQueue: forced or not
    pending,        \* limits that the running reconciliation still writes
    manual, turns, sent, failures, crashes

processVars == <<up, doomed, broken, crashes>>
configVars == <<file, config, saves, saving, answered, sent>>
jobVars == <<timer, orphans, running, run, ending>>
userVars == <<limits, userTimer, userOrphans, userQueue, pending>>
vars == <<processVars, configVars, jobVars, userVars, period, manual, turns, failures>>

\* The file holds one configuration, here whether the schedule is on, or only
\* the beginning of one.
Torn == <<>>
Limits == {"peak", "idle", "exempt", "other"}
NoneIsNoLimit == None \notin Limits \cup [Users -> Limits \cup {None}]

TypeOK ==
    /\ up \in BOOLEAN /\ doomed \in BOOLEAN /\ broken \in BOOLEAN
    /\ file \in {<<TRUE>>, <<FALSE>>, Torn} /\ config \in BOOLEAN
    /\ timer \in [Kinds -> BOOLEAN] /\ orphans \in [Kinds -> 0..MaxOrphans]
    /\ running \in [Kinds -> BOOLEAN] /\ ending \in [Kinds -> Nat]
    /\ run \in [Kinds -> [{"timer", "manual"} -> {"none", "starting", "accounts"}]]
    /\ saves \in Seq(BOOLEAN)
    /\ saving \in {"queued", "writing", "accounts", "leaving", "restoring", "restored", "failed"}
    /\ answered \in {"none", "saved", "failed"}
    /\ period \in {"peak", "idle"} /\ limits \in [Users -> Limits]
    /\ userTimer \in BOOLEAN /\ userOrphans \in 0..MaxOrphans
    /\ userQueue \in Seq(BOOLEAN)
    /\ pending \in [Users -> Limits \cup {None}] \cup {None}

Failing == failures < MaxFailures /\ failures' = failures + 1

\* An update of the store: it is rejected when the store is broken, or breaks.
Stored == ~broken /\ UNCHANGED <<broken, failures>>
NotStored ==
    /\ IF broken THEN UNCHANGED failures ELSE Failing
    /\ broken' = TRUE

----------------------------------------------------------------------------
(* The jobs.                                                                *)

\* schedule: timers[kind] is set.  A timer that was pending there is lost from
\* it and stays pending.
SetTimers(ks, t, o) ==
    /\ timer' = [k \in Kinds |-> t[k] \/ k \in ks]
    /\ orphans' = [k \in Kinds |-> IF t[k] /\ k \in ks /\ o[k] < MaxOrphans
                                   THEN o[k] + 1 ELSE o[k]]

LeavesRejection == TRUE

\* schedule, with its call of setNextRun, which may be rejected.
Rearm(ks, t, o) ==
    /\ SetTimers(ks, t, o)
    /\ \/ Stored /\ UNCHANGED doomed
       \/ NotStored /\ doomed' = LeavesRejection

FlagAt(step) == step = "starting"

Begin(k, by) ==
    /\ run' = [run EXCEPT ![k][by] = "starting"]
    /\ running' = [running EXCEPT ![k] = @ \/ FlagAt("starting")]

\* Mutant: a refused run does not set the timer again.
NotRearmed(k) == {}

RearmedAfterRefusal(k) == {k}

\* A timer fires.  If the job is running the run is refused, and the timer is
\* set again.
TimerFires(k) ==
    /\ up /\ (timer[k] \/ orphans[k] > 0)
    /\ LET held == IF orphans[k] > 0 THEN {timer} ELSE {[timer EXCEPT ![k] = FALSE]}
           left == IF orphans[k] > 0 THEN [orphans EXCEPT ![k] = @ - 1] ELSE orphans
       IN  \E t \in held :
              IF running[k] \/ run[k]["timer"] # "none"
              THEN Rearm(RearmedAfterRefusal(k), t, left) /\ UNCHANGED <<running, run>>
              ELSE /\ timer' = t /\ orphans' = left /\ Begin(k, "timer")
                   /\ UNCHANGED <<doomed, broken, failures>>
    /\ UNCHANGED <<up, crashes, configVars, ending, userVars, period, manual, turns>>

ManualRun(k) ==
    /\ up /\ manual < MaxManual /\ manual' = manual + 1
    /\ ~running[k] /\ run[k]["manual"] = "none"
    /\ Begin(k, "manual")
    /\ UNCHANGED <<processVars, configVars, timer, orphans, ending, userVars, period,
                   turns, failures>>

\* startJob, the accounts, and the end of the run.  A rejected startJob leaves
\* the flag set.
Started(k, by) ==
    /\ up /\ run[k][by] = "starting"
    /\ \/ /\ Stored
          /\ run' = [run EXCEPT ![k][by] = "accounts"]
          /\ running' = [running EXCEPT ![k] = TRUE]
          /\ UNCHANGED <<timer, orphans, doomed>>
       \/ /\ run' = [run EXCEPT ![k][by] = "none"] /\ UNCHANGED running
          /\ NotStored
          /\ IF by = "timer"
             THEN SetTimers({k}, timer, orphans) /\ doomed' = LeavesRejection
             ELSE UNCHANGED <<timer, orphans, doomed>>
    /\ UNCHANGED <<up, crashes, configVars, ending, userVars, period, manual, turns>>

Synced(k, by) ==
    /\ up /\ run[k][by] = "accounts"
    /\ run' = [run EXCEPT ![k][by] = "none"]
    /\ running' = [running EXCEPT ![k] = FALSE]
    /\ IF by = "timer"
       THEN ending' = [ending EXCEPT ![k] = @ + 1] /\ UNCHANGED <<broken, failures>>
       ELSE UNCHANGED ending /\ (Stored \/ NotStored)
    /\ UNCHANGED <<up, doomed, crashes, configVars, timer, orphans, userVars, period,
                   manual, turns>>

\* finishJob is stored or rejected; then the timer is set again.
Finished(k) ==
    /\ up /\ ending[k] > 0
    /\ ending' = [ending EXCEPT ![k] = @ - 1]
    /\ Rearm({k}, timer, orphans)
    /\ UNCHANGED <<up, crashes, configVars, running, run, userVars, period, manual, turns>>

JobStep(k) ==
    \/ TimerFires(k) \/ Finished(k)
    \/ \E by \in {"timer", "manual"} : Started(k, by) \/ Synced(k, by)

----------------------------------------------------------------------------
(* The limits of the users.                                                 *)

\* Mutant: the timer is set again after a success only.
AfterSuccess(ok) == ok /\ config

TimerWanted(ok) == config

Wanted(u, time) == IF u \in Exempt THEN "exempt" ELSE time

\* The queue settles its first task; a timer's task sets the timer again.
SettleUsers(ok) ==
    /\ userQueue' = Tail(userQueue) /\ pending' = None
    /\ IF Head(userQueue)
       THEN /\ saving' = IF ok THEN "restored" ELSE "failed"
            /\ UNCHANGED <<userTimer, userOrphans>>
       ELSE /\ userTimer' = (userTimer \/ TimerWanted(ok))
            /\ userOrphans' = IF userTimer /\ TimerWanted(ok) /\ userOrphans < MaxOrphans
                              THEN userOrphans + 1 ELSE userOrphans
            /\ UNCHANGED saving

UserTimerFires ==
    /\ up /\ (userTimer \/ userOrphans > 0)
    /\ IF userOrphans > 0 THEN userOrphans' = userOrphans - 1 /\ UNCHANGED userTimer
       ELSE userTimer' = FALSE /\ UNCHANGED userOrphans
    /\ userQueue' = Append(userQueue, FALSE)
    /\ UNCHANGED <<processVars, configVars, jobVars, limits, pending, period, manual,
                   turns, failures>>

\* reconcileUserConcurrency: the schedule and the users are read.
Reconcile ==
    /\ up /\ userQueue # <<>> /\ pending = None
    /\ LET forced == Head(userQueue)
           time == IF forced THEN "idle" ELSE period
           differ == {u \in Users : limits[u] # Wanted(u, time)}
       IN  \/ ~config /\ ~forced /\ SettleUsers(TRUE) /\ UNCHANGED <<broken, failures>>
           \/ /\ (config \/ forced) /\ Failing /\ SettleUsers(FALSE)
              /\ broken' \in {broken, TRUE}
           \/ /\ (config \/ forced) /\ differ = {}
              /\ SettleUsers(TRUE) /\ UNCHANGED <<broken, failures>>
           \/ /\ (config \/ forced) /\ differ # {}
              /\ pending' = [u \in Users |-> IF u \in differ THEN Wanted(u, time) ELSE None]
              /\ UNCHANGED <<userQueue, userTimer, userOrphans, saving, broken, failures>>
    /\ UNCHANGED <<up, doomed, crashes, file, config, saves, answered, sent, jobVars,
                   limits, period, manual, turns>>

\* One batch of users that get the same limits: peak, idle, then exempt.
Batch ==
    LET Of(limit) == {u \in Users : pending[u] = limit}
    IN  IF Of("peak") # {} THEN Of("peak") ELSE IF Of("idle") # {} THEN Of("idle")
        ELSE Of("exempt")

\* A failed batch may have been written; the failure ends the task.  So does
\* the event of the last batch, or of the failure, that is not stored.
WriteBatch ==
    /\ up /\ pending # None
    /\ LET written == [u \in Users |-> IF u \in Batch THEN pending[u] ELSE limits[u]]
           rest == [u \in Users |-> IF u \in Batch THEN None ELSE pending[u]]
       IN  \/ /\ limits' = written /\ UNCHANGED <<broken, failures>>
              /\ IF \A u \in Users : rest[u] = None THEN SettleUsers(~broken)
                 ELSE pending' = rest /\ UNCHANGED <<userQueue, userTimer, userOrphans, saving>>
           \/ /\ limits' \in {limits, written} /\ Failing
              /\ SettleUsers(FALSE) /\ broken' \in {broken, TRUE}
    /\ UNCHANGED <<up, doomed, crashes, file, config, saves, answered, sent, jobVars,
                   period, manual, turns>>

UserStep == UserTimerFires \/ Reconcile \/ WriteBatch

SetByHand(u) ==
    /\ manual < MaxManual /\ manual' = manual + 1
    /\ limits[u] # "other" /\ limits' = [limits EXCEPT ![u] = "other"]
    /\ UNCHANGED <<processVars, configVars, jobVars, userTimer, userOrphans, userQueue,
                   pending, period, turns, failures>>

Turn ==
    /\ turns < MaxTurns /\ turns' = turns + 1
    /\ period' = IF period = "peak" THEN "idle" ELSE "peak"
    /\ UNCHANGED <<processVars, configVars, jobVars, userVars, manual, failures>>

----------------------------------------------------------------------------
(* Configuration writes.                                                    *)

SaveArrives(next) ==
    /\ up /\ sent < MaxSaves /\ sent' = sent + 1
    /\ saves' = Append(saves, next)
    /\ UNCHANGED <<processVars, file, config, saving, answered, jobVars, userVars, period,
                   manual, turns, failures>>

Settle(answer) ==
    answered' = answer /\ saves' = Tail(saves) /\ saving' = "queued"

\* saveConfig: the file is written in place.  It may fail before the file is
\* opened, or with a part of it written.
OpenFile ==
    /\ up /\ saves # <<>> /\ saving = "queued"
    /\ \/ file' = Torn /\ saving' = "writing" /\ UNCHANGED <<saves, answered, failures>>
       \/ Failing /\ Settle("failed") /\ UNCHANGED file
    /\ UNCHANGED <<processVars, config, sent, jobVars, userVars, period, manual, turns>>

\* Written: stop, and the configuration is in force.
WriteFile ==
    /\ up /\ saving = "writing"
    /\ \/ /\ file' = <<Head(saves)>> /\ config' = Head(saves)
          /\ saving' = (IF config /\ ~Head(saves) THEN "leaving" ELSE "accounts")
          /\ timer' = [k \in Kinds |-> FALSE] /\ userTimer' = FALSE
          /\ UNCHANGED <<saves, answered, failures>>
       \/ Failing /\ Settle("failed") /\ UNCHANGED <<file, config, timer, userTimer>>
    /\ UNCHANGED <<processVars, sent, orphans, running, run, ending, limits, userOrphans,
                   userQueue, pending, period, manual, turns>>

AwaitRestoration == "restoring"

\* ensureAccounts; then the restoration of the idle limits is queued if the
\* save turned the schedule off.
EnsureAccounts ==
    /\ up /\ saving \in {"accounts", "leaving"}
    /\ \/ /\ Stored
          /\ saving' = (IF saving = "leaving" THEN AwaitRestoration ELSE "restored")
          /\ userQueue' = IF saving = "leaving" THEN Append(userQueue, TRUE) ELSE userQueue
          /\ UNCHANGED <<saves, answered>>
       \/ NotStored /\ Settle("failed") /\ UNCHANGED userQueue
    /\ UNCHANGED <<up, doomed, crashes, file, config, sent, jobVars, limits, userTimer,
                   userOrphans, pending, period, manual, turns>>

\* start: stop again, and every timer is set.
Start ==
    /\ up /\ saving = "restored"
    /\ Rearm(Kinds, [k \in Kinds |-> FALSE], orphans)
    /\ userTimer' = config
    /\ Settle("saved")
    /\ UNCHANGED <<up, crashes, file, config, sent, running, run, ending, limits,
                   userOrphans, userQueue, pending, period, manual, turns>>

\* The restoration failed: the save is answered with its error.
RestorationFailed ==
    /\ up /\ saving = "failed"
    /\ Settle("failed")
    /\ UNCHANGED <<processVars, file, config, sent, jobVars, userVars, period, manual,
                   turns, failures>>

SaveStep == OpenFile \/ WriteFile \/ EnsureAccounts \/ Start \/ RestorationFailed

----------------------------------------------------------------------------
(* The process.                                                             *)

Down ==
    /\ up' = FALSE /\ doomed' = FALSE /\ broken' = FALSE
    /\ timer' = [k \in Kinds |-> FALSE] /\ orphans' = [k \in Kinds |-> 0]
    /\ running' = [k \in Kinds |-> FALSE] /\ ending' = [k \in Kinds |-> 0]
    /\ run' = [k \in Kinds |-> [by \in {"timer", "manual"} |-> "none"]]
    /\ saves' = <<>> /\ saving' = "queued" /\ answered' = "none"
    /\ userTimer' = FALSE /\ userOrphans' = 0 /\ userQueue' = <<>> /\ pending' = None
    /\ UNCHANGED <<file, config, sent, limits, period, manual, turns, failures>>

Exit == up /\ doomed /\ Down /\ UNCHANGED crashes
Crash == up /\ crashes < MaxCrashes /\ crashes' = crashes + 1 /\ Down

\* The process is started again, and cannot start with a torn file.
Restart ==
    /\ ~up /\ file # Torn
    /\ up' = TRUE /\ config' = Head(file)
    /\ timer' = [k \in Kinds |-> TRUE] /\ userTimer' = Head(file)
    /\ UNCHANGED <<doomed, broken, crashes, file, saves, saving, answered, sent, orphans,
                   running, run, ending, limits, userOrphans, userQueue, pending, period,
                   manual, turns, failures>>

Init ==
    /\ up = FALSE /\ doomed = FALSE /\ broken = FALSE
    /\ file \in {<<TRUE>>, <<FALSE>>} /\ config = FALSE
    /\ timer = [k \in Kinds |-> FALSE] /\ orphans = [k \in Kinds |-> 0]
    /\ running = [k \in Kinds |-> FALSE] /\ ending = [k \in Kinds |-> 0]
    /\ run = [k \in Kinds |-> [by \in {"timer", "manual"} |-> "none"]]
    /\ saves = <<>> /\ saving = "queued" /\ answered = "none"
    /\ period \in {"peak", "idle"} /\ limits = [u \in Users |-> "other"]
    /\ userTimer = FALSE /\ userOrphans = 0 /\ userQueue = <<>> /\ pending = None
    /\ manual = 0 /\ turns = 0 /\ sent = 0 /\ failures = 0 /\ crashes = 0

Next ==
    \/ \E k \in Kinds : JobStep(k) \/ ManualRun(k)
    \/ UserStep \/ SaveStep \/ Turn
    \/ \E u \in Users : SetByHand(u)
    \/ \E next \in BOOLEAN : SaveArrives(next)
    \/ Exit \/ Crash \/ Restart

Spec == Init /\ [][Next]_vars

\* Timers fire, awaits end, and the container is started again.
FairSpec ==
    /\ Spec
    /\ \A k \in Kinds : WF_vars(TimerFires(k)) /\ WF_vars(Finished(k)) /\
          \A by \in {"timer", "manual"} : WF_vars(Started(k, by)) /\ WF_vars(Synced(k, by))
    /\ WF_vars(UserTimerFires) /\ WF_vars(Reconcile \/ WriteBatch) /\ WF_vars(SaveStep)
    /\ WF_vars(Exit) /\ WF_vars(Restart)

----------------------------------------------------------------------------
(* Properties.                                                              *)

\* Docs 002: runs of the same job are not concurrent, by hand or by timers,
\* however many of these a change of the configuration has left.
RunsDoNotOverlap ==
    \A k \in Kinds : ~(run[k]["timer"] = "accounts" /\ run[k]["manual"] = "accounts")

\* While the process runs each job has a timer to come, whatever was refused,
\* failed or reconfigured; a save that failed may have stopped them.
TimersAlive ==
    up /\ saves = <<>> /\ answered # "failed" =>
        /\ \A k \in Kinds : \/ timer[k] \/ orphans[k] > 0
                            \/ run[k]["timer"] # "none" \/ ending[k] > 0
        /\ config => userTimer \/ userOrphans > 0 \/ FALSE \in ToSet(userQueue)

\* Docs 009: turning the schedule off restores the idle limits at once; with
\* the save answered, no reconciliation that was under way leaves another limit.
DisabledIsIdle ==
    up /\ ~config /\ saves = <<>> /\ answered = "saved" =>
        \A u \in Users : limits[u] \in {Wanted(u, "idle"), "other"}

\* Docs 009: while it stays on, every active user comes to have the limit of
\* the hour, though reconciliations fail and administrators set limits.
StaysOn(time) == up /\ config /\ answered # "failed" /\ period = time
InForce(time) == \A u \in Users : limits[u] = Wanted(u, time)
LimitsFollowSchedule ==
    \A time \in {"peak", "idle"} : <>[]StaysOn(time) => <>[]InForce(time)

\* A store that rejects every update does not stay so: the next timer ends the
\* process, and its successor has a store that works.
StoreRecovers == []<>~broken
=============================================================================
