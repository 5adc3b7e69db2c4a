---------------------------- MODULE SchedulerProofs ----------------------------
(***************************************************************************)
(* Proofs about the scheduling half of AutomationEngine, for every number   *)
(* of jobs, users, saves, failures and crashes: runs of a job do not        *)
(* overlap, every job keeps a timer to come, and a schedule that was turned *)
(* off leaves the idle limits.                                              *)
(***************************************************************************)
EXTENDS Scheduler, SequenceTheorems, TLAPS

----------------------------------------------------------------------------
(* The inductive invariant.                                                 *)

\* A save that has begun is the first of the queue.
SavesOK == saving # "queued" => saves # <<>>

\* One restoration at most waits for its turn, and the save that queued it
\* waits for its end; the limits that are written belong to the first task.
QueueOK ==
    /\ pending # None => userQueue # <<>>
    /\ \A i \in 1..Len(userQueue) : userQueue[i] => saving = "restoring"
    /\ \A i, j \in 1..Len(userQueue) : userQueue[i] /\ userQueue[j] => i = j

\* The flag is set from the first step of a run on, so no other begins.
FlagsOK ==
    \A k \in Kinds :
        /\ run[k]["timer"] # "none" => running[k] /\ run[k]["manual"] = "none"
        /\ run[k]["manual"] # "none" => running[k]

SchedulerInv == TypeOK /\ SavesOK /\ QueueOK /\ FlagsOK /\ TimersAlive

Bys == {"timer", "manual"}
Steps == {"none", "starting", "accounts"}
Stages == {"queued", "writing", "accounts", "leaving", "restoring", "restored", "failed"}
Files == {<<TRUE>>, <<FALSE>>, Torn}
Answers == {"none", "saved", "failed"}
Orders == [Users -> Limits \cup {None}] \cup {None}

JobAlive(k) ==
    timer[k] \/ orphans[k] > 0 \/ run[k]["timer"] # "none" \/ ending[k] > 0
UsersAlive == config => userTimer \/ userOrphans > 0 \/ FALSE \in ToSet(userQueue)

----------------------------------------------------------------------------
(* The jobs.                                                                *)

LEMMA JobTypes ==
    ASSUME SchedulerParameters, TypeOK
    PROVE  /\ timer \in [Kinds -> BOOLEAN] /\ orphans \in [Kinds -> 0..MaxOrphans]
           /\ running \in [Kinds -> BOOLEAN] /\ ending \in [Kinds -> Nat]
           /\ run \in [Kinds -> [Bys -> Steps]] /\ MaxOrphans \in Nat
BY DEF TypeOK, Bys, Steps, SchedulerParameters

LEMMA TimersSet ==
    ASSUME SchedulerParameters, NEW ks \in SUBSET Kinds, NEW t \in [Kinds -> BOOLEAN],
           NEW o \in [Kinds -> 0..MaxOrphans], SetTimers(ks, t, o)
    PROVE  /\ timer' \in [Kinds -> BOOLEAN] /\ orphans' \in [Kinds -> 0..MaxOrphans]
           /\ \A k \in ks : timer'[k]
           /\ \A k \in Kinds : (t[k] => timer'[k]) /\ (o[k] > 0 => orphans'[k] > 0)
<1>1. /\ timer' = [k \in Kinds |-> t[k] \/ k \in ks]
      /\ orphans' = [k \in Kinds |-> IF t[k] /\ k \in ks /\ o[k] < MaxOrphans
                                     THEN o[k] + 1 ELSE o[k]]
    BY DEF SetTimers
<1>2. timer' \in [Kinds -> BOOLEAN] /\ \A k \in Kinds : timer'[k] = (t[k] \/ k \in ks)
    BY <1>1, Zenon
<1>3. \A k \in Kinds : /\ orphans'[k] \in 0..MaxOrphans
                       /\ o[k] > 0 => orphans'[k] > 0
    BY <1>1 DEF SchedulerParameters
<1>4. orphans' \in [Kinds -> 0..MaxOrphans]
    BY <1>1, <1>3
<1> QED BY <1>2, <1>3, <1>4

LEMMA OneTimerSet ==
    ASSUME SchedulerParameters, NEW k \in Kinds, NEW t \in [Kinds -> BOOLEAN],
           NEW o \in [Kinds -> 0..MaxOrphans], SetTimers({k}, t, o)
    PROVE  /\ timer' \in [Kinds -> BOOLEAN] /\ orphans' \in [Kinds -> 0..MaxOrphans]
           /\ timer'[k]
           /\ \A j \in Kinds : (t[j] => timer'[j]) /\ (o[j] > 0 => orphans'[j] > 0)
<1>1. {k} \in SUBSET Kinds /\ k \in {k}
    OBVIOUS
<1> QED BY <1>1, TimersSet

\* What the steps of the jobs leave alone.
JobFrame == UNCHANGED <<up, crashes, configVars, userVars, period, turns>>

\* A step of the jobs keeps the invariant if it keeps types, flags and timers.
LEMMA JobKept ==
    ASSUME SchedulerInv, JobFrame, doomed' \in BOOLEAN, broken' \in BOOLEAN,
           timer' \in [Kinds -> BOOLEAN], orphans' \in [Kinds -> 0..MaxOrphans],
           running' \in [Kinds -> BOOLEAN], ending' \in [Kinds -> Nat],
           run' \in [Kinds -> [Bys -> Steps]],
           FlagsOK', \A k \in Kinds : JobAlive(k) => JobAlive(k)'
    PROVE  SchedulerInv'
<1>1. TypeOK'
  <2>1. /\ up' \in BOOLEAN /\ file' \in Files /\ config' \in BOOLEAN
        /\ saves' \in Seq(BOOLEAN) /\ saving' \in Stages /\ answered' \in Answers
    BY DEF SchedulerInv, TypeOK, JobFrame, configVars, Files, Stages, Answers
  <2>2. /\ period' \in {"peak", "idle"} /\ limits' \in [Users -> Limits]
        /\ userTimer' \in BOOLEAN /\ userOrphans' \in 0..MaxOrphans
        /\ userQueue' \in Seq(BOOLEAN) /\ pending' \in Orders
    BY DEF SchedulerInv, TypeOK, JobFrame, userVars, Orders
  <2> QED BY <2>1, <2>2 DEF TypeOK, Files, Stages, Answers, Bys, Steps, Orders
<1>2. SavesOK' /\ QueueOK'
    BY DEF SchedulerInv, SavesOK, QueueOK, JobFrame, configVars, userVars
<1>3. TimersAlive'
    BY DEF SchedulerInv, TimersAlive, JobAlive, JobFrame, configVars, userVars
<1> QED BY <1>1, <1>2, <1>3 DEF SchedulerInv

LEMMA BrokenTyped ==
    ASSUME TypeOK, Stored \/ NotStored \/ UNCHANGED broken
    PROVE  broken' \in BOOLEAN
BY DEF TypeOK, Stored, NotStored

LEMMA RearmTyped ==
    ASSUME TypeOK, NEW ks, NEW t, NEW o, Rearm(ks, t, o)
    PROVE  SetTimers(ks, t, o) /\ doomed' \in BOOLEAN /\ broken' \in BOOLEAN
<1>1. broken' \in BOOLEAN
    BY BrokenTyped DEF Rearm
<1>2. doomed' \in BOOLEAN
    BY DEF Rearm, TypeOK, LeavesRejection
<1> QED BY <1>1, <1>2 DEF Rearm

LEMMA BeginKept ==
    ASSUME SchedulerParameters, SchedulerInv, NEW k \in Kinds, NEW by \in Bys, Begin(k, by),
           ~running[k] \/ (by = "manual" /\ run[k]["manual"] = "none" /\ ~running[k])
    PROVE  /\ running' \in [Kinds -> BOOLEAN] /\ run' \in [Kinds -> [Bys -> Steps]]
           /\ FlagsOK'
           /\ \A j \in Kinds : j # k => run'[j] = run[j]
           /\ run'[k]["timer"] = IF by = "timer" THEN "starting" ELSE run[k]["timer"]
<1>1. running \in [Kinds -> BOOLEAN] /\ run \in [Kinds -> [Bys -> Steps]]
    BY JobTypes DEF SchedulerInv
<1>2. /\ running' = [running EXCEPT ![k] = TRUE]
      /\ run' = [run EXCEPT ![k] = [run[k] EXCEPT ![by] = "starting"]]
    BY <1>1 DEF Begin, FlagAt
<1>3. run[k]["timer"] = "none" /\ run[k]["manual"] = "none"
    BY DEF SchedulerInv, FlagsOK
<1>4. /\ running'[k] /\ run'[k] = [run[k] EXCEPT ![by] = "starting"]
      /\ \A j \in Kinds : j # k => run'[j] = run[j] /\ running'[j] = running[j]
    BY <1>1, <1>2
<1>5. running' \in [Kinds -> BOOLEAN] /\ run' \in [Kinds -> [Bys -> Steps]]
    BY <1>1, <1>2 DEF Bys, Steps
<1>6. FlagsOK'
    BY <1>1, <1>3, <1>4 DEF SchedulerInv, FlagsOK, Bys
<1> QED BY <1>1, <1>4, <1>5, <1>6 DEF Bys

LEMMA TimerFiresKept ==
    ASSUME SchedulerParameters, SchedulerInv, NEW k \in Kinds, TimerFires(k)
    PROVE  SchedulerInv'
<1>1. /\ timer \in [Kinds -> BOOLEAN] /\ orphans \in [Kinds -> 0..MaxOrphans]
      /\ running \in [Kinds -> BOOLEAN] /\ ending \in [Kinds -> Nat]
      /\ run \in [Kinds -> [Bys -> Steps]] /\ MaxOrphans \in Nat
    BY JobTypes DEF SchedulerInv
<1>2. JobFrame /\ ending' = ending
    BY DEF TimerFires, JobFrame
<1> DEFINE left == IF orphans[k] > 0 THEN [orphans EXCEPT ![k] = @ - 1] ELSE orphans
<1>3. PICK t \in IF orphans[k] > 0 THEN {timer} ELSE {[timer EXCEPT ![k] = FALSE]} :
          IF running[k] \/ run[k]["timer"] # "none"
          THEN Rearm(RearmedAfterRefusal(k), t, left) /\ UNCHANGED <<running, run>>
          ELSE /\ timer' = t /\ orphans' = left /\ Begin(k, "timer")
               /\ UNCHANGED <<doomed, broken, failures>>
    BY DEF TimerFires
<1>4. /\ t \in [Kinds -> BOOLEAN] /\ left \in [Kinds -> 0..MaxOrphans]
      /\ \A j \in Kinds : j # k => t[j] = timer[j] /\ left[j] = orphans[j]
  <2>1. CASE orphans[k] > 0
    <3>1. t = timer
        BY <1>3, <2>1
    <3>2. orphans[k] - 1 \in 0..MaxOrphans
        BY <1>1, <2>1
    <3>3. left = [orphans EXCEPT ![k] = orphans[k] - 1]
        BY <1>1, <2>1
    <3> HIDE DEF left
    <3> QED BY <1>1, <3>1, <3>2, <3>3
  <2>2. CASE ~(orphans[k] > 0)
    <3>1. t = [timer EXCEPT ![k] = FALSE] /\ left = orphans
        BY <1>3, <2>2
    <3> HIDE DEF left
    <3> QED BY <1>1, <3>1
  <2> QED BY <2>1, <2>2
<1> HIDE DEF left
<1>5. CASE running[k] \/ run[k]["timer"] # "none"
  <2>1. /\ SetTimers({k}, t, left) /\ doomed' \in BOOLEAN /\ broken' \in BOOLEAN
        /\ UNCHANGED <<running, run>>
    BY <1>3, <1>5, RearmTyped DEF RearmedAfterRefusal, SchedulerInv
  <2>2. /\ timer' \in [Kinds -> BOOLEAN] /\ orphans' \in [Kinds -> 0..MaxOrphans]
        /\ timer'[k]
        /\ \A j \in Kinds : (t[j] => timer'[j]) /\ (left[j] > 0 => orphans'[j] > 0)
    BY <1>4, <2>1, OneTimerSet
  <2>3. \A j \in Kinds : JobAlive(j) => JobAlive(j)'
    BY <1>2, <1>4, <2>1, <2>2 DEF JobAlive
  <2>4. FlagsOK'
    BY <2>1 DEF SchedulerInv, FlagsOK
  <2> QED BY <1>1, <1>2, <2>1, <2>2, <2>3, <2>4, JobKept
<1>6. CASE ~(running[k] \/ run[k]["timer"] # "none")
  <2>1. /\ timer' = t /\ orphans' = left /\ Begin(k, "timer")
        /\ UNCHANGED <<doomed, broken>>
    BY <1>3, <1>6
  <2>2. /\ running' \in [Kinds -> BOOLEAN] /\ run' \in [Kinds -> [Bys -> Steps]]
        /\ FlagsOK'
        /\ \A j \in Kinds : j # k => run'[j] = run[j]
        /\ run'[k]["timer"] = "starting"
    BY <1>6, <2>1, BeginKept DEF Bys
  <2>3. \A j \in Kinds : JobAlive(j) => JobAlive(j)'
    BY <1>2, <1>4, <2>1, <2>2 DEF JobAlive
  <2>4. doomed' \in BOOLEAN /\ broken' \in BOOLEAN
    BY <2>1 DEF SchedulerInv, TypeOK
  <2> QED BY <1>1, <1>2, <1>4, <2>1, <2>2, <2>3, <2>4, JobKept
<1> QED BY <1>5, <1>6

LEMMA ManualRunKept ==
    ASSUME SchedulerParameters, SchedulerInv, NEW k \in Kinds, ManualRun(k)
    PROVE  SchedulerInv'
<1>1. /\ timer \in [Kinds -> BOOLEAN] /\ orphans \in [Kinds -> 0..MaxOrphans]
      /\ ending \in [Kinds -> Nat]
    BY JobTypes DEF SchedulerInv
<1>2. /\ JobFrame /\ UNCHANGED <<timer, orphans, ending, doomed, broken>>
      /\ Begin(k, "manual") /\ ~running[k]
    BY DEF ManualRun, JobFrame, processVars
<1>3. /\ running' \in [Kinds -> BOOLEAN] /\ run' \in [Kinds -> [Bys -> Steps]]
      /\ FlagsOK'
      /\ \A j \in Kinds : j # k => run'[j] = run[j]
      /\ run'[k]["timer"] = run[k]["timer"]
    BY <1>2, BeginKept DEF Bys
<1>4. \A j \in Kinds : JobAlive(j) => JobAlive(j)'
    BY <1>2, <1>3 DEF JobAlive
<1>5. doomed' \in BOOLEAN /\ broken' \in BOOLEAN
    BY <1>2 DEF SchedulerInv, TypeOK
<1> QED BY <1>1, <1>2, <1>3, <1>4, <1>5, JobKept

LEMMA StartedKept ==
    ASSUME SchedulerParameters, SchedulerInv, NEW k \in Kinds, NEW by \in Bys, Started(k, by)
    PROVE  SchedulerInv'
<1>1. /\ timer \in [Kinds -> BOOLEAN] /\ orphans \in [Kinds -> 0..MaxOrphans]
      /\ running \in [Kinds -> BOOLEAN] /\ ending \in [Kinds -> Nat]
      /\ run \in [Kinds -> [Bys -> Steps]]
    BY JobTypes DEF SchedulerInv
<1>2. JobFrame /\ ending' = ending /\ run[k][by] = "starting"
    BY DEF Started, JobFrame
<1>3. CASE /\ Stored /\ run' = [run EXCEPT ![k][by] = "accounts"]
           /\ running' = [running EXCEPT ![k] = TRUE]
           /\ UNCHANGED <<timer, orphans, doomed>>
  <2>1. run' = [run EXCEPT ![k] = [run[k] EXCEPT ![by] = "accounts"]]
    BY <1>1, <1>3
  <2>2. /\ running'[k] /\ run'[k] = [run[k] EXCEPT ![by] = "accounts"]
        /\ \A j \in Kinds : j # k => run'[j] = run[j] /\ running'[j] = running[j]
    BY <1>1, <1>3, <2>1
  <2>3. running' \in [Kinds -> BOOLEAN] /\ run' \in [Kinds -> [Bys -> Steps]]
    BY <1>1, <1>3, <2>1 DEF Bys, Steps
  <2>4. FlagsOK'
    BY <1>1, <1>2, <2>2 DEF SchedulerInv, FlagsOK, Bys
  <2>5. \A j \in Kinds : JobAlive(j) => JobAlive(j)'
    BY <1>1, <1>2, <1>3, <2>2 DEF JobAlive, Bys
  <2>6. doomed' \in BOOLEAN /\ broken' \in BOOLEAN
    BY <1>3, BrokenTyped DEF SchedulerInv, TypeOK
  <2> QED BY <1>1, <1>2, <1>3, <2>3, <2>4, <2>5, <2>6, JobKept
<1>4. CASE /\ run' = [run EXCEPT ![k][by] = "none"] /\ UNCHANGED running /\ NotStored
           /\ IF by = "timer"
              THEN SetTimers({k}, timer, orphans) /\ doomed' = LeavesRejection
              ELSE UNCHANGED <<timer, orphans, doomed>>
  <2>1. run' = [run EXCEPT ![k] = [run[k] EXCEPT ![by] = "none"]]
    BY <1>1, <1>4
  <2>2. /\ run'[k] = [run[k] EXCEPT ![by] = "none"]
        /\ \A j \in Kinds : j # k => run'[j] = run[j]
    BY <1>1, <2>1
  <2>3. run' \in [Kinds -> [Bys -> Steps]]
    BY <1>1, <2>1 DEF Bys, Steps
  <2>4. FlagsOK'
    BY <1>1, <1>2, <1>4, <2>2 DEF SchedulerInv, FlagsOK, Bys
  <2>5. doomed' \in BOOLEAN /\ broken' \in BOOLEAN
    BY <1>4, BrokenTyped DEF SchedulerInv, TypeOK, LeavesRejection
  <2>6. CASE by = "timer"
    <3>1. /\ timer' \in [Kinds -> BOOLEAN] /\ orphans' \in [Kinds -> 0..MaxOrphans]
          /\ timer'[k]
          /\ \A j \in Kinds : (timer[j] => timer'[j]) /\ (orphans[j] > 0 => orphans'[j] > 0)
        BY <1>1, <1>4, <2>6, OneTimerSet
    <3>2. \A j \in Kinds : JobAlive(j) => JobAlive(j)'
        BY <1>2, <2>2, <3>1 DEF JobAlive
    <3> QED BY <1>1, <1>2, <1>4, <2>3, <2>4, <2>5, <3>1, <3>2, JobKept
  <2>7. CASE by = "manual"
    <3>1. UNCHANGED <<timer, orphans>> /\ run'[k]["timer"] = run[k]["timer"]
        BY <1>1, <1>4, <2>2, <2>7 DEF Bys
    <3>2. \A j \in Kinds : JobAlive(j) => JobAlive(j)'
        BY <1>2, <2>2, <3>1 DEF JobAlive
    <3> QED BY <1>1, <1>2, <1>4, <2>3, <2>4, <2>5, <3>1, <3>2, JobKept
  <2> QED BY <2>6, <2>7 DEF Bys
<1> QED BY <1>3, <1>4 DEF Started

LEMMA SyncedKept ==
    ASSUME SchedulerParameters, SchedulerInv, NEW k \in Kinds, NEW by \in Bys, Synced(k, by)
    PROVE  SchedulerInv'
<1>1. /\ timer \in [Kinds -> BOOLEAN] /\ orphans \in [Kinds -> 0..MaxOrphans]
      /\ running \in [Kinds -> BOOLEAN] /\ ending \in [Kinds -> Nat]
      /\ run \in [Kinds -> [Bys -> Steps]]
    BY JobTypes DEF SchedulerInv
<1>2. /\ JobFrame /\ UNCHANGED <<timer, orphans, doomed>> /\ run[k][by] = "accounts"
      /\ run' = [run EXCEPT ![k][by] = "none"] /\ running' = [running EXCEPT ![k] = FALSE]
    BY DEF Synced, JobFrame
<1>3. run' = [run EXCEPT ![k] = [run[k] EXCEPT ![by] = "none"]]
    BY <1>1, <1>2
<1>4. /\ run'[k] = [run[k] EXCEPT ![by] = "none"]
      /\ \A j \in Kinds : j # k => run'[j] = run[j] /\ running'[j] = running[j]
    BY <1>1, <1>2, <1>3
<1>5. running' \in [Kinds -> BOOLEAN] /\ run' \in [Kinds -> [Bys -> Steps]]
    BY <1>1, <1>2, <1>3 DEF Bys, Steps
<1>6. \A b \in Bys : b # by => run[k][b] = "none"
    BY <1>2 DEF SchedulerInv, FlagsOK, Bys
<1>7. FlagsOK'
    BY <1>1, <1>4, <1>6 DEF SchedulerInv, FlagsOK, Bys
<1>8. doomed' \in BOOLEAN
    BY <1>2 DEF SchedulerInv, TypeOK
<1>9. broken' \in BOOLEAN
    BY BrokenTyped DEF Synced, SchedulerInv
<1>10. CASE by = "timer"
  <2>1. ending' = [ending EXCEPT ![k] = ending[k] + 1]
    BY <1>10 DEF Synced
  <2>2. /\ ending' \in [Kinds -> Nat] /\ ending'[k] > 0
        /\ \A j \in Kinds : j # k => ending'[j] = ending[j]
    BY <1>1, <2>1
  <2>3. \A j \in Kinds : JobAlive(j) => JobAlive(j)'
    BY <1>2, <1>4, <2>2 DEF JobAlive
  <2> QED BY <1>1, <1>2, <1>5, <1>7, <1>8, <1>9, <2>2, <2>3, JobKept
<1>11. CASE by = "manual"
  <2>1. ending' = ending
    BY <1>11 DEF Synced
  <2>2. run'[k]["timer"] = run[k]["timer"]
    BY <1>1, <1>4, <1>11 DEF Bys
  <2>3. \A j \in Kinds : JobAlive(j) => JobAlive(j)'
    BY <1>2, <1>4, <2>1, <2>2 DEF JobAlive
  <2> QED BY <1>1, <1>2, <1>5, <1>7, <1>8, <1>9, <2>1, <2>3, JobKept
<1> QED BY <1>10, <1>11 DEF Bys

LEMMA FinishedKept ==
    ASSUME SchedulerParameters, SchedulerInv, NEW k \in Kinds, Finished(k)
    PROVE  SchedulerInv'
<1>1. /\ timer \in [Kinds -> BOOLEAN] /\ orphans \in [Kinds -> 0..MaxOrphans]
      /\ running \in [Kinds -> BOOLEAN] /\ ending \in [Kinds -> Nat]
      /\ run \in [Kinds -> [Bys -> Steps]]
    BY JobTypes DEF SchedulerInv
<1>2. /\ JobFrame /\ UNCHANGED <<running, run>> /\ ending[k] > 0
      /\ ending' = [ending EXCEPT ![k] = ending[k] - 1] /\ Rearm({k}, timer, orphans)
    BY DEF Finished, JobFrame
<1>3. ending[k] - 1 \in Nat
    BY <1>1, <1>2
<1>4. /\ ending' \in [Kinds -> Nat]
      /\ \A j \in Kinds : j # k => ending'[j] = ending[j]
    BY <1>1, <1>2, <1>3
<1>5. SetTimers({k}, timer, orphans) /\ doomed' \in BOOLEAN /\ broken' \in BOOLEAN
    BY <1>2, RearmTyped DEF SchedulerInv
<1>6. /\ timer' \in [Kinds -> BOOLEAN] /\ orphans' \in [Kinds -> 0..MaxOrphans]
      /\ timer'[k]
      /\ \A j \in Kinds : (timer[j] => timer'[j]) /\ (orphans[j] > 0 => orphans'[j] > 0)
    BY <1>1, <1>5, OneTimerSet
<1>7. \A j \in Kinds : JobAlive(j) => JobAlive(j)'
    BY <1>2, <1>4, <1>6 DEF JobAlive
<1>8. FlagsOK' /\ running' \in [Kinds -> BOOLEAN] /\ run' \in [Kinds -> [Bys -> Steps]]
    BY <1>1, <1>2 DEF SchedulerInv, FlagsOK
<1> QED BY <1>2, <1>4, <1>5, <1>6, <1>7, <1>8, JobKept

----------------------------------------------------------------------------
(* The limits of the users.                                                 *)

\* What the steps about the users leave alone.
UserFrame ==
    UNCHANGED <<up, doomed, crashes, file, config, saves, answered, sent, jobVars,
                period, turns>>

LEMMA UsersKept ==
    ASSUME SchedulerInv, UserFrame, broken' \in BOOLEAN, limits' \in [Users -> Limits],
           userTimer' \in BOOLEAN, userOrphans' \in 0..MaxOrphans,
           userQueue' \in Seq(BOOLEAN), pending' \in Orders, saving' \in Stages,
           SavesOK', QueueOK', saves = <<>> => (UsersAlive => UsersAlive')
    PROVE  SchedulerInv'
<1>1. TypeOK'
    BY DEF SchedulerInv, TypeOK, UserFrame, jobVars, Orders, Stages
<1>2. FlagsOK'
    BY DEF SchedulerInv, FlagsOK, UserFrame, jobVars
<1>3. TimersAlive'
    BY DEF SchedulerInv, TimersAlive, UsersAlive, UserFrame, jobVars
<1> QED BY <1>1, <1>2, <1>3 DEF SchedulerInv

LEMMA UserTypes ==
    ASSUME TypeOK, SchedulerParameters
    PROVE  /\ limits \in [Users -> Limits] /\ userTimer \in BOOLEAN
           /\ userOrphans \in 0..MaxOrphans /\ userQueue \in Seq(BOOLEAN)
           /\ pending \in Orders /\ saving \in Stages /\ config \in BOOLEAN
           /\ period \in {"peak", "idle"} /\ broken \in BOOLEAN /\ MaxOrphans \in Nat
BY DEF TypeOK, Orders, Stages, SchedulerParameters

LEMMA TaskAppended ==
    ASSUME NEW q \in Seq(BOOLEAN), NEW forced \in BOOLEAN
    PROVE  /\ Append(q, forced) \in Seq(BOOLEAN) /\ Append(q, forced) # <<>>
           /\ Len(Append(q, forced)) = Len(q) + 1 /\ Len(q) \in Nat
           /\ \A i \in 1..Len(q) : Append(q, forced)[i] = q[i]
           /\ Append(q, forced)[Len(q) + 1] = forced
BY AppendProperties

\* The end of the first task of the queue.
LEMMA SettledUsers ==
    ASSUME SchedulerParameters, SchedulerInv, userQueue # <<>>, NEW ok \in BOOLEAN,
           SettleUsers(ok), UNCHANGED <<config, saves>>
    PROVE  /\ userTimer' \in BOOLEAN /\ userOrphans' \in 0..MaxOrphans
           /\ userQueue' \in Seq(BOOLEAN) /\ pending' \in Orders /\ saving' \in Stages
           /\ SavesOK' /\ QueueOK'
           /\ saves = <<>> => (UsersAlive => UsersAlive')
<1>1. /\ userTimer \in BOOLEAN /\ userOrphans \in 0..MaxOrphans
      /\ userQueue \in Seq(BOOLEAN) /\ saving \in Stages /\ config \in BOOLEAN
      /\ MaxOrphans \in Nat
    BY UserTypes DEF SchedulerInv
<1>2. /\ Head(userQueue) \in BOOLEAN /\ Head(userQueue) = userQueue[1]
      /\ Tail(userQueue) \in Seq(BOOLEAN) /\ Len(Tail(userQueue)) = Len(userQueue) - 1
      /\ \A i \in 1..Len(Tail(userQueue)) : Tail(userQueue)[i] = userQueue[i + 1]
      /\ Len(userQueue) \in Nat /\ Len(userQueue) > 0
    BY <1>1, HeadTailProperties
<1>3. userQueue' = Tail(userQueue) /\ pending' = None /\ pending' \in Orders
    BY DEF SettleUsers, Orders
<1>4. \A i \in 1..Len(userQueue') :
         /\ i + 1 \in 1..Len(userQueue) /\ i + 1 # 1 /\ userQueue'[i] = userQueue[i + 1]
    BY <1>2, <1>3
<1>5. /\ \A i \in 1..Len(userQueue) : userQueue[i] => saving = "restoring"
      /\ \A i, j \in 1..Len(userQueue) : userQueue[i] /\ userQueue[j] => i = j
      /\ 1 \in 1..Len(userQueue)
      /\ saving # "queued" => saves # <<>>
    BY <1>2 DEF SchedulerInv, QueueOK, SavesOK
<1>6. CASE Head(userQueue)
  <2>1. saving = "restoring" /\ saves # <<>>
    BY <1>2, <1>5, <1>6
  <2>2. saving' \in {"restored", "failed"} /\ UNCHANGED <<userTimer, userOrphans>>
    BY <1>6 DEF SettleUsers
  <2>3. \A i \in 1..Len(userQueue') : ~userQueue'[i]
    BY <1>2, <1>4, <1>5, <1>6
  <2>4. SavesOK' /\ QueueOK'
    BY <1>3, <2>1, <2>3 DEF SavesOK, QueueOK
  <2>5. userTimer' \in BOOLEAN /\ userOrphans' \in 0..MaxOrphans /\ saving' \in Stages
    BY <1>1, <2>2 DEF Stages
  <2> QED BY <1>2, <1>3, <2>1, <2>4, <2>5
<1>7. CASE ~Head(userQueue)
  <2>1. /\ userTimer' = (userTimer \/ config) /\ saving' = saving
        /\ userOrphans' = IF userTimer /\ config /\ userOrphans < MaxOrphans
                          THEN userOrphans + 1 ELSE userOrphans
    BY <1>7 DEF SettleUsers, TimerWanted
  <2>2. userOrphans' \in 0..MaxOrphans
    BY <1>1, <2>1
  <2>3. userTimer' \in BOOLEAN /\ (config => userTimer')
    BY <1>1, <2>1, Zenon
  <2>4. UsersAlive'
    BY <2>3, Zenon DEF UsersAlive
  <2>5. \A i, j \in 1..Len(userQueue') : userQueue'[i] /\ userQueue'[j] => i = j
    <3> TAKE i, j \in 1..Len(userQueue')
    <3>1. userQueue'[i] /\ userQueue'[j] => i + 1 = j + 1
        BY <1>4, <1>5
    <3> QED BY <1>2, <1>3, <3>1
  <2>6. SavesOK' /\ QueueOK'
    BY <1>3, <1>4, <1>5, <2>1, <2>5 DEF SavesOK, QueueOK
  <2> QED BY <1>1, <1>2, <1>3, <2>1, <2>2, <2>3, <2>4, <2>6
<1> QED BY <1>2, <1>6, <1>7

\* A task that goes on, or a limit that changes, disturbs neither queue.
LEMMA QueueKept ==
    ASSUME SchedulerParameters, SchedulerInv, UNCHANGED <<config, saves>>,
           UNCHANGED <<userQueue, userTimer, userOrphans, saving>>,
           pending' # None => userQueue # <<>>
    PROVE  /\ userTimer' \in BOOLEAN /\ userOrphans' \in 0..MaxOrphans
           /\ userQueue' \in Seq(BOOLEAN) /\ saving' \in Stages
           /\ SavesOK' /\ QueueOK'
           /\ saves = <<>> => (UsersAlive => UsersAlive')
<1>1. SavesOK' /\ QueueOK'
    BY DEF SchedulerInv, SavesOK, QueueOK
<1>2. UsersAlive => UsersAlive'
    BY DEF UsersAlive
<1> QED BY <1>1, <1>2, UserTypes DEF SchedulerInv

LEMMA UserTimerFiresKept ==
    ASSUME SchedulerParameters, SchedulerInv, UserTimerFires
    PROVE  SchedulerInv'
<1>1. /\ limits \in [Users -> Limits] /\ userTimer \in BOOLEAN
      /\ userOrphans \in 0..MaxOrphans /\ userQueue \in Seq(BOOLEAN)
      /\ pending \in Orders /\ saving \in Stages /\ broken \in BOOLEAN
      /\ MaxOrphans \in Nat
    BY UserTypes DEF SchedulerInv
<1>2. /\ UserFrame /\ UNCHANGED <<broken, limits, pending, saving>>
      /\ userQueue' = Append(userQueue, FALSE)
    BY DEF UserTimerFires, UserFrame, processVars, configVars
<1>3. userTimer' \in BOOLEAN /\ userOrphans' \in 0..MaxOrphans
  <2>1. CASE userOrphans > 0
    BY <1>1, <2>1 DEF UserTimerFires
  <2>2. CASE ~(userOrphans > 0)
    BY <1>1, <2>2 DEF UserTimerFires
  <2> QED BY <2>1, <2>2
<1>4. /\ userQueue' \in Seq(BOOLEAN) /\ userQueue' # <<>>
      /\ Len(userQueue') = Len(userQueue) + 1 /\ Len(userQueue) \in Nat
      /\ \A i \in 1..Len(userQueue) : userQueue'[i] = userQueue[i]
      /\ userQueue'[Len(userQueue) + 1] = FALSE
  <2>1. userQueue \in Seq(BOOLEAN) /\ FALSE \in BOOLEAN
    BY <1>1
  <2> QED BY <1>2, <2>1, TaskAppended
<1>5. \A i \in 1..Len(userQueue') :
         userQueue'[i] => i \in 1..Len(userQueue) /\ userQueue[i]
    BY <1>4
<1>6. SavesOK' /\ QueueOK'
    BY <1>2, <1>4, <1>5 DEF SchedulerInv, SavesOK, QueueOK, UserFrame
<1>7. UsersAlive'
  <2>1. Len(userQueue) + 1 \in DOMAIN userQueue'
    BY <1>4
  <2>2. FALSE \in ToSet(userQueue')
    BY <1>4, <2>1 DEF ToSet
  <2> QED BY <2>2 DEF UsersAlive
<1> QED BY <1>1, <1>2, <1>3, <1>4, <1>6, <1>7, UsersKept

LEMMA ReconcileKept ==
    ASSUME SchedulerParameters, NoneIsNoLimit, SchedulerInv, Reconcile
    PROVE  SchedulerInv'
<1>1. /\ UserFrame /\ limits' = limits /\ userQueue # <<>> /\ UNCHANGED <<config, saves>>
    BY DEF Reconcile, UserFrame
<1>2. broken' \in BOOLEAN /\ limits' \in [Users -> Limits]
    BY <1>1, UserTypes DEF Reconcile, SchedulerInv
<1>3. ASSUME NEW ok \in BOOLEAN, SettleUsers(ok)
      PROVE  SchedulerInv'
    BY <1>1, <1>2, <1>3, SettledUsers, UsersKept
<1>4. ASSUME NEW time \in {"peak", "idle"}, NEW differ \in SUBSET Users,
             pending' = [u \in Users |-> IF u \in differ THEN Wanted(u, time) ELSE None],
             UNCHANGED <<userQueue, userTimer, userOrphans, saving>>
      PROVE  SchedulerInv'
  <2>1. pending' \in Orders
    BY <1>4 DEF Orders, Wanted, Limits
  <2> QED BY <1>1, <1>2, <1>4, <2>1, QueueKept, UsersKept
<1>5. (IF Head(userQueue) THEN "idle" ELSE period) \in {"peak", "idle"}
    BY UserTypes DEF SchedulerInv
<1>6. {u \in Users : limits[u] # Wanted(u, IF Head(userQueue) THEN "idle" ELSE period)}
          \in SUBSET Users
    OBVIOUS
<1>7. \/ SettleUsers(TRUE) \/ SettleUsers(FALSE)
      \/ LET time == IF Head(userQueue) THEN "idle" ELSE period
             differ == {u \in Users : limits[u] # Wanted(u, time)}
         IN  /\ pending' = [u \in Users |-> IF u \in differ THEN Wanted(u, time) ELSE None]
             /\ UNCHANGED <<userQueue, userTimer, userOrphans, saving>>
    BY DEF Reconcile
<1> QED BY <1>3, <1>4, <1>5, <1>6, <1>7

LEMMA WriteBatchKept ==
    ASSUME SchedulerParameters, NoneIsNoLimit, SchedulerInv, WriteBatch
    PROVE  SchedulerInv'
<1>1. /\ UserFrame /\ UNCHANGED <<config, saves>> /\ pending # None
    BY DEF WriteBatch, UserFrame
<1>2. /\ limits \in [Users -> Limits] /\ broken \in BOOLEAN
      /\ pending \in [Users -> Limits \cup {None}] /\ userQueue # <<>>
    BY <1>1, UserTypes DEF SchedulerInv, Orders, QueueOK
<1> DEFINE written == [u \in Users |-> IF u \in Batch THEN pending[u] ELSE limits[u]]
           rest == [u \in Users |-> IF u \in Batch THEN None ELSE pending[u]]
<1>3. \A u \in Batch : pending[u] \in Limits
    BY DEF Batch, Limits
<1>4. written \in [Users -> Limits] /\ rest \in Orders
    BY <1>2, <1>3 DEF Orders
<1>5. /\ limits' \in {limits, written} /\ broken' \in {broken, TRUE}
      /\ \/ SettleUsers(~broken) \/ SettleUsers(FALSE)
         \/ pending' = rest /\ UNCHANGED <<userQueue, userTimer, userOrphans, saving>>
    BY DEF WriteBatch
<1> HIDE DEF written, rest
<1>6. limits' \in [Users -> Limits] /\ broken' \in BOOLEAN /\ (~broken) \in BOOLEAN
    BY <1>2, <1>4, <1>5
<1>7. ASSUME NEW ok \in BOOLEAN, SettleUsers(ok)
      PROVE  SchedulerInv'
    BY <1>1, <1>2, <1>6, <1>7, SettledUsers, UsersKept
<1>8. CASE pending' = rest /\ UNCHANGED <<userQueue, userTimer, userOrphans, saving>>
    BY <1>1, <1>2, <1>4, <1>6, <1>8, QueueKept, UsersKept
<1> QED BY <1>5, <1>6, <1>7, <1>8

LEMMA SetByHandKept ==
    ASSUME SchedulerParameters, SchedulerInv, NEW u \in Users, SetByHand(u)
    PROVE  SchedulerInv'
<1>1. /\ UserFrame /\ UNCHANGED <<config, saves, broken, pending>>
      /\ UNCHANGED <<userQueue, userTimer, userOrphans, saving>>
      /\ limits' = [limits EXCEPT ![u] = "other"]
    BY DEF SetByHand, UserFrame, processVars, configVars
<1>2. limits' \in [Users -> Limits] /\ broken' \in BOOLEAN /\ pending' \in Orders
    BY <1>1, UserTypes DEF SchedulerInv, Limits
<1>3. pending' # None => userQueue # <<>>
    BY <1>1 DEF SchedulerInv, QueueOK
<1> QED BY <1>1, <1>2, <1>3, QueueKept, UsersKept

LEMMA TurnKept ==
    ASSUME SchedulerInv, Turn
    PROVE  SchedulerInv'
<1>1. /\ UNCHANGED <<processVars, configVars, jobVars, userVars>>
      /\ period' \in {"peak", "idle"}
    BY DEF Turn
<1>2. TypeOK'
  <2>1. /\ up' = up /\ doomed' = doomed /\ broken' = broken /\ file' = file
        /\ config' = config /\ timer' = timer /\ orphans' = orphans /\ running' = running
        /\ run' = run /\ ending' = ending /\ saves' = saves /\ saving' = saving
        /\ answered' = answered /\ limits' = limits /\ userTimer' = userTimer
        /\ userOrphans' = userOrphans /\ userQueue' = userQueue /\ pending' = pending
    BY <1>1 DEF processVars, configVars, jobVars, userVars
  <2>2. TypeOK
    BY DEF SchedulerInv
  <2>3. /\ up' \in BOOLEAN /\ doomed' \in BOOLEAN /\ broken' \in BOOLEAN
        /\ file' \in Files /\ config' \in BOOLEAN /\ saves' \in Seq(BOOLEAN)
        /\ saving' \in Stages /\ answered' \in Answers
    BY <1>1, <2>1, <2>2 DEF TypeOK, Files, Stages, Answers
  <2>4. /\ timer' \in [Kinds -> BOOLEAN] /\ orphans' \in [Kinds -> 0..MaxOrphans]
        /\ running' \in [Kinds -> BOOLEAN] /\ ending' \in [Kinds -> Nat]
        /\ run' \in [Kinds -> [Bys -> Steps]]
    BY <1>1, <2>1, <2>2 DEF TypeOK, Bys, Steps
  <2>5. /\ period' \in {"peak", "idle"} /\ limits' \in [Users -> Limits]
        /\ userTimer' \in BOOLEAN /\ userOrphans' \in 0..MaxOrphans
        /\ userQueue' \in Seq(BOOLEAN) /\ pending' \in Orders
    BY <1>1, <2>1, <2>2 DEF TypeOK, Orders
  <2> QED BY <2>3, <2>4, <2>5 DEF TypeOK, Files, Stages, Answers, Bys, Steps, Orders
<1>3. SavesOK' /\ QueueOK' /\ FlagsOK'
    BY <1>1 DEF SchedulerInv, SavesOK, QueueOK, FlagsOK, configVars, jobVars, userVars
<1>4. TimersAlive'
    BY <1>1 DEF SchedulerInv, TimersAlive, processVars, configVars, jobVars, userVars
<1> QED BY <1>2, <1>3, <1>4 DEF SchedulerInv

----------------------------------------------------------------------------
(* Configuration writes.                                                    *)

\* What the steps of the saves leave alone.
SaveFrame ==
    UNCHANGED <<up, crashes, running, run, ending, limits, userOrphans, pending, period,
                turns>>

LEMMA SavesKept ==
    ASSUME SchedulerInv, SaveFrame, doomed' \in BOOLEAN, broken' \in BOOLEAN,
           file' \in Files, config' \in BOOLEAN, saves' \in Seq(BOOLEAN),
           saving' \in Stages, answered' \in Answers, timer' \in [Kinds -> BOOLEAN],
           orphans' \in [Kinds -> 0..MaxOrphans], userTimer' \in BOOLEAN,
           userQueue' \in Seq(BOOLEAN), SavesOK', QueueOK', TimersAlive'
    PROVE  SchedulerInv'
<1>1. TypeOK'
    BY DEF SchedulerInv, TypeOK, SaveFrame, Files, Answers, Stages
<1>2. FlagsOK'
    BY DEF SchedulerInv, FlagsOK, SaveFrame
<1> QED BY <1>1, <1>2 DEF SchedulerInv

LEMMA SaveTypes ==
    ASSUME TypeOK
    PROVE  /\ doomed \in BOOLEAN /\ broken \in BOOLEAN /\ file \in Files
           /\ config \in BOOLEAN /\ saves \in Seq(BOOLEAN) /\ saving \in Stages
           /\ answered \in Answers /\ timer \in [Kinds -> BOOLEAN]
           /\ orphans \in [Kinds -> 0..MaxOrphans] /\ userTimer \in BOOLEAN
           /\ userQueue \in Seq(BOOLEAN)
BY DEF TypeOK, Files, Answers, Stages

\* A save that is answered leaves the queue, which holds no restoration then.
LEMMA Settled ==
    ASSUME SchedulerInv, saving # "queued", saving # "restoring", NEW answer \in Answers,
           Settle(answer), UNCHANGED <<userQueue, pending>>
    PROVE  /\ saves' \in Seq(BOOLEAN) /\ saving' \in Stages /\ answered' = answer
           /\ SavesOK' /\ QueueOK'
<1>1. saves \in Seq(BOOLEAN) /\ saves # <<>>
    BY SaveTypes DEF SchedulerInv, SavesOK
<1>2. saves' \in Seq(BOOLEAN) /\ saving' = "queued" /\ answered' = answer
    BY <1>1, HeadTailProperties DEF Settle
<1>3. QueueOK'
    BY DEF SchedulerInv, QueueOK
<1> QED BY <1>2, <1>3 DEF SavesOK, Stages

LEMMA SaveArrivesKept ==
    ASSUME SchedulerInv, NEW next \in BOOLEAN, SaveArrives(next)
    PROVE  SchedulerInv'
<1>1. /\ SaveFrame /\ UNCHANGED <<doomed, broken, file, config, saving, answered, timer,
                                  orphans, userTimer, userQueue, pending>>
      /\ saves' = Append(saves, next)
    BY DEF SaveArrives, SaveFrame, processVars, jobVars, userVars
<1>2. saves' \in Seq(BOOLEAN) /\ saves' # <<>>
  <2>1. saves \in Seq(BOOLEAN)
    BY SaveTypes DEF SchedulerInv
  <2> QED BY <1>1, <2>1, AppendProperties
<1>3. SavesOK' /\ QueueOK' /\ TimersAlive'
    BY <1>1, <1>2 DEF SchedulerInv, SavesOK, QueueOK, TimersAlive
<1> QED BY <1>1, <1>2, <1>3, SaveTypes, SavesKept DEF SchedulerInv

LEMMA OpenFileKept ==
    ASSUME SchedulerInv, OpenFile
    PROVE  SchedulerInv'
<1>1. /\ SaveFrame /\ UNCHANGED <<doomed, broken, config, timer, orphans, userTimer,
                                  userQueue, pending>>
      /\ saves # <<>> /\ saving = "queued"
    BY DEF OpenFile, SaveFrame, processVars, jobVars, userVars
<1>2. CASE file' = Torn /\ saving' = "writing" /\ UNCHANGED <<saves, answered>>
  <2>1. SavesOK' /\ QueueOK' /\ TimersAlive'
    BY <1>1, <1>2 DEF SchedulerInv, SavesOK, QueueOK, TimersAlive
  <2>2. file' \in Files /\ saving' \in Stages
    BY <1>2 DEF Files, Stages
  <2> QED BY <1>1, <1>2, <2>1, <2>2, SaveTypes, SavesKept DEF SchedulerInv
<1>3. CASE Settle("failed") /\ UNCHANGED file
  <2>1. /\ saves' \in Seq(BOOLEAN) /\ saving' = "queued" /\ answered' = "failed"
        /\ saving' \in Stages /\ answered' \in Answers
    BY <1>1, <1>3, SaveTypes, HeadTailProperties DEF SchedulerInv, Settle, Stages, Answers
  <2>2. SavesOK' /\ QueueOK' /\ TimersAlive'
    BY <1>1, <2>1 DEF SchedulerInv, SavesOK, QueueOK, TimersAlive
  <2> QED BY <1>1, <1>3, <2>1, <2>2, SaveTypes, SavesKept DEF SchedulerInv
<1> QED BY <1>2, <1>3 DEF OpenFile

LEMMA WriteFileKept ==
    ASSUME SchedulerInv, WriteFile
    PROVE  SchedulerInv'
<1>1. /\ SaveFrame /\ UNCHANGED <<doomed, broken, orphans, userQueue, pending>>
      /\ saving = "writing"
    BY DEF WriteFile, SaveFrame, processVars
<1>2. saves \in Seq(BOOLEAN) /\ saves # <<>> /\ Head(saves) \in BOOLEAN
    BY <1>1, SaveTypes, HeadTailProperties DEF SchedulerInv, SavesOK
<1>3. CASE /\ file' = <<Head(saves)>> /\ config' = Head(saves)
           /\ saving' = (IF config /\ ~Head(saves) THEN "leaving" ELSE "accounts")
           /\ timer' = [k \in Kinds |-> FALSE] /\ userTimer' = FALSE
           /\ UNCHANGED <<saves, answered>>
  <2>1. SavesOK' /\ QueueOK' /\ TimersAlive'
    BY <1>1, <1>2, <1>3 DEF SchedulerInv, SavesOK, QueueOK, TimersAlive
  <2>2. file' \in Files /\ saving' \in Stages /\ config' \in BOOLEAN
    BY <1>2, <1>3 DEF Files, Stages
  <2>3. timer' \in [Kinds -> BOOLEAN] /\ userTimer' \in BOOLEAN
    BY <1>3
  <2> QED BY <1>1, <1>3, <2>1, <2>2, <2>3, SaveTypes, SavesKept DEF SchedulerInv
<1>4. CASE Settle("failed") /\ UNCHANGED <<file, config, timer, userTimer>>
  <2>1. "failed" \in Answers
    BY DEF Answers
  <2>2. /\ saves' \in Seq(BOOLEAN) /\ saving' \in Stages /\ answered' = "failed"
        /\ SavesOK' /\ QueueOK'
    BY <1>1, <1>4, <2>1, Settled
  <2>3. TimersAlive'
    BY <2>2 DEF TimersAlive
  <2> QED BY <1>1, <1>4, <2>1, <2>2, <2>3, SaveTypes, SavesKept DEF SchedulerInv
<1> QED BY <1>3, <1>4 DEF WriteFile

LEMMA EnsureAccountsKept ==
    ASSUME SchedulerInv, EnsureAccounts
    PROVE  SchedulerInv'
<1>1. /\ SaveFrame
      /\ UNCHANGED <<doomed, file, config, timer, orphans, userTimer, pending>>
      /\ saving \in {"accounts", "leaving"}
    BY DEF EnsureAccounts, SaveFrame, jobVars
<1>2. broken' \in BOOLEAN
    BY BrokenTyped DEF EnsureAccounts, SchedulerInv
<1>3. /\ userQueue \in Seq(BOOLEAN) /\ saves # <<>>
      /\ \A i \in 1..Len(userQueue) : ~userQueue[i]
    BY <1>1, SaveTypes DEF SchedulerInv, SavesOK, QueueOK
<1>4. CASE saving = "accounts" /\ saving' = "restored" /\ UNCHANGED <<userQueue, saves, answered>>
  <2>1. SavesOK' /\ QueueOK' /\ TimersAlive'
    BY <1>1, <1>3, <1>4 DEF SchedulerInv, SavesOK, QueueOK, TimersAlive
  <2>2. saving' \in Stages
    BY <1>4 DEF Stages
  <2> QED BY <1>1, <1>2, <1>4, <2>1, <2>2, SaveTypes, SavesKept DEF SchedulerInv
<1>5. CASE /\ saving = "leaving" /\ saving' = "restoring"
           /\ userQueue' = Append(userQueue, TRUE) /\ UNCHANGED <<saves, answered>>
  <2>1. /\ userQueue' \in Seq(BOOLEAN) /\ userQueue' # <<>>
        /\ Len(userQueue') = Len(userQueue) + 1 /\ Len(userQueue) \in Nat
        /\ \A i \in 1..Len(userQueue) : userQueue'[i] = userQueue[i]
    <3>1. userQueue \in Seq(BOOLEAN) /\ TRUE \in BOOLEAN
        BY <1>3
    <3> QED BY <1>5, <3>1, TaskAppended
  <2>2. \A i \in 1..Len(userQueue') : userQueue'[i] => i = Len(userQueue) + 1
    BY <1>3, <2>1
  <2>3. SavesOK' /\ QueueOK' /\ TimersAlive'
    BY <1>1, <1>3, <1>5, <2>1, <2>2 DEF SavesOK, QueueOK, TimersAlive
  <2>4. saving' \in Stages
    BY <1>5 DEF Stages
  <2> QED BY <1>1, <1>2, <1>5, <2>1, <2>3, <2>4, SaveTypes, SavesKept DEF SchedulerInv
<1>6. CASE Settle("failed") /\ UNCHANGED userQueue
  <2>1. "failed" \in Answers
    BY DEF Answers
  <2>2. /\ saves' \in Seq(BOOLEAN) /\ saving' \in Stages /\ answered' = "failed"
        /\ SavesOK' /\ QueueOK'
    BY <1>1, <1>6, <2>1, Settled
  <2>3. TimersAlive'
    BY <2>2 DEF TimersAlive
  <2> QED BY <1>1, <1>2, <1>6, <2>1, <2>2, <2>3, SaveTypes, SavesKept DEF SchedulerInv
<1> QED BY <1>1, <1>4, <1>5, <1>6 DEF EnsureAccounts, AwaitRestoration

LEMMA StartKept ==
    ASSUME SchedulerParameters, SchedulerInv, Start
    PROVE  SchedulerInv'
<1>1. /\ SaveFrame /\ UNCHANGED <<file, config, userQueue, pending>>
      /\ saving = "restored" /\ userTimer' = config /\ Settle("saved")
      /\ Rearm(Kinds, [k \in Kinds |-> FALSE], orphans)
    BY DEF Start, SaveFrame
<1>2. /\ SetTimers(Kinds, [k \in Kinds |-> FALSE], orphans)
      /\ doomed' \in BOOLEAN /\ broken' \in BOOLEAN
    BY <1>1, RearmTyped DEF SchedulerInv
<1>3. /\ timer' \in [Kinds -> BOOLEAN] /\ orphans' \in [Kinds -> 0..MaxOrphans]
      /\ \A k \in Kinds : timer'[k]
    BY <1>2, SaveTypes, TimersSet DEF SchedulerInv
<1>4. "saved" \in Answers
    BY DEF Answers
<1>5. saves' \in Seq(BOOLEAN) /\ saving' \in Stages /\ answered' = "saved" /\ SavesOK' /\ QueueOK'
    BY <1>1, <1>4, Settled
<1>6. TimersAlive'
    BY <1>1, <1>3 DEF TimersAlive
<1>7. userTimer' \in BOOLEAN
    BY <1>1, SaveTypes DEF SchedulerInv
<1> QED BY <1>1, <1>2, <1>3, <1>4, <1>5, <1>6, <1>7, SaveTypes, SavesKept DEF SchedulerInv

LEMMA RestorationFailedKept ==
    ASSUME SchedulerInv, RestorationFailed
    PROVE  SchedulerInv'
<1>1. /\ SaveFrame /\ UNCHANGED <<doomed, broken, file, config, timer, orphans, userTimer,
                                  userQueue, pending>>
      /\ saving = "failed" /\ Settle("failed")
    BY DEF RestorationFailed, SaveFrame, processVars, jobVars, userVars
<1>2. "failed" \in Answers
    BY DEF Answers
<1>3. /\ saves' \in Seq(BOOLEAN) /\ saving' \in Stages /\ answered' = "failed"
      /\ SavesOK' /\ QueueOK'
    BY <1>1, <1>2, Settled
<1>4. TimersAlive'
    BY <1>3 DEF TimersAlive
<1> QED BY <1>1, <1>2, <1>3, <1>4, SaveTypes, SavesKept DEF SchedulerInv

----------------------------------------------------------------------------
(* The process.                                                             *)

LEMMA DownKept ==
    ASSUME SchedulerParameters, SchedulerInv, Down
    PROVE  SchedulerInv'
<1>1. /\ up' = FALSE /\ doomed' = FALSE /\ broken' = FALSE
      /\ timer' = [k \in Kinds |-> FALSE] /\ orphans' = [k \in Kinds |-> 0]
      /\ running' = [k \in Kinds |-> FALSE] /\ ending' = [k \in Kinds |-> 0]
      /\ run' = [k \in Kinds |-> [by \in {"timer", "manual"} |-> "none"]]
      /\ saves' = <<>> /\ saving' = "queued" /\ answered' = "none"
      /\ userTimer' = FALSE /\ userOrphans' = 0 /\ userQueue' = <<>> /\ pending' = None
      /\ file' = file /\ config' = config /\ limits' = limits /\ period' = period
    BY DEF Down
<1>2. /\ orphans' \in [Kinds -> 0..MaxOrphans] /\ userOrphans' \in 0..MaxOrphans
      /\ saves' \in Seq(BOOLEAN) /\ userQueue' \in Seq(BOOLEAN)
    BY <1>1 DEF SchedulerParameters
<1>3. /\ timer' \in [Kinds -> BOOLEAN] /\ running' \in [Kinds -> BOOLEAN]
      /\ ending' \in [Kinds -> Nat]
      /\ run' \in [Kinds -> [{"timer", "manual"} -> {"none", "starting", "accounts"}]]
    BY <1>1
<1>4. TypeOK
    BY DEF SchedulerInv
<1>5. TypeOK'
    BY <1>1, <1>2, <1>3, <1>4 DEF TypeOK
<1>6. SavesOK' /\ QueueOK'
    BY <1>1 DEF SavesOK, QueueOK
<1>7. FlagsOK'
    BY <1>1 DEF FlagsOK
<1>8. TimersAlive'
    BY <1>1 DEF TimersAlive
<1> QED BY <1>5, <1>6, <1>7, <1>8 DEF SchedulerInv

LEMMA RestartKept ==
    ASSUME SchedulerInv, Restart
    PROVE  SchedulerInv'
<1>1. /\ up' = TRUE /\ config' = Head(file) /\ userTimer' = Head(file) /\ file # Torn
      /\ timer' = [k \in Kinds |-> TRUE]
      /\ doomed' = doomed /\ broken' = broken /\ file' = file /\ saves' = saves
      /\ saving' = saving /\ answered' = answered /\ orphans' = orphans
      /\ running' = running /\ run' = run /\ ending' = ending /\ limits' = limits
      /\ userOrphans' = userOrphans /\ userQueue' = userQueue /\ pending' = pending
      /\ period' = period
    BY DEF Restart
<1>2. TypeOK
    BY DEF SchedulerInv
<1>3. config' \in BOOLEAN /\ timer' \in [Kinds -> BOOLEAN]
  <2>1. file = <<TRUE>> \/ file = <<FALSE>>
    BY <1>1, <1>2 DEF TypeOK
  <2>2. config' = TRUE \/ config' = FALSE
    BY <1>1, <2>1
  <2>3. timer' \in [Kinds -> BOOLEAN]
    BY <1>1
  <2> QED BY <2>2, <2>3
<1>4. TypeOK'
  <2>1. /\ up' \in BOOLEAN /\ doomed' \in BOOLEAN /\ broken' \in BOOLEAN
        /\ file' \in Files /\ config' \in BOOLEAN /\ userTimer' \in BOOLEAN
        /\ saves' \in Seq(BOOLEAN) /\ saving' \in Stages /\ answered' \in Answers
    BY <1>1, <1>2, <1>3 DEF TypeOK, Files, Stages, Answers
  <2>2. /\ orphans' \in [Kinds -> 0..MaxOrphans]
        /\ running' \in [Kinds -> BOOLEAN] /\ ending' \in [Kinds -> Nat]
        /\ run' \in [Kinds -> [Bys -> Steps]]
        /\ period' \in {"peak", "idle"} /\ limits' \in [Users -> Limits]
        /\ userOrphans' \in 0..MaxOrphans
        /\ userQueue' \in Seq(BOOLEAN) /\ pending' \in Orders
    BY <1>1, <1>2 DEF TypeOK, Bys, Steps, Orders
  <2> QED BY <1>3, <2>1, <2>2 DEF TypeOK, Files, Stages, Answers, Bys, Steps, Orders
<1>5. SavesOK' /\ QueueOK' /\ FlagsOK'
    BY <1>1 DEF SchedulerInv, SavesOK, QueueOK, FlagsOK
<1>6. TimersAlive'
    BY <1>1, <1>3 DEF TimersAlive
<1> QED BY <1>4, <1>5, <1>6 DEF SchedulerInv

LEMMA InitKept ==
    ASSUME SchedulerParameters, Init
    PROVE  SchedulerInv
<1>1. /\ orphans \in [Kinds -> 0..MaxOrphans] /\ userOrphans \in 0..MaxOrphans
      /\ saves \in Seq(BOOLEAN) /\ userQueue \in Seq(BOOLEAN)
      /\ limits \in [Users -> Limits]
    BY DEF Init, SchedulerParameters, Limits
<1>2. /\ timer \in [Kinds -> BOOLEAN] /\ running \in [Kinds -> BOOLEAN]
      /\ ending \in [Kinds -> Nat]
      /\ run \in [Kinds -> [{"timer", "manual"} -> {"none", "starting", "accounts"}]]
    BY DEF Init
<1>3. TypeOK
    BY <1>1, <1>2 DEF Init, TypeOK
<1>4. SavesOK /\ QueueOK
    BY DEF Init, SavesOK, QueueOK
<1>5. FlagsOK
    BY DEF Init, FlagsOK
<1>6. TimersAlive
    BY DEF Init, TimersAlive
<1> QED BY <1>3, <1>4, <1>5, <1>6 DEF SchedulerInv

----------------------------------------------------------------------------
(* The theorems.                                                            *)

LEMMA StutterKept ==
    ASSUME SchedulerInv, UNCHANGED vars
    PROVE  SchedulerInv'
<1>1. /\ up' = up /\ doomed' = doomed /\ broken' = broken /\ file' = file
      /\ config' = config /\ timer' = timer /\ orphans' = orphans /\ running' = running
      /\ run' = run /\ ending' = ending /\ saves' = saves /\ saving' = saving
      /\ answered' = answered /\ limits' = limits /\ userTimer' = userTimer
      /\ userOrphans' = userOrphans /\ userQueue' = userQueue /\ pending' = pending
      /\ period' = period
    BY DEF vars, processVars, configVars, jobVars, userVars
<1>2. TypeOK'
  <2>1. TypeOK
    BY DEF SchedulerInv
  <2>3. /\ up' \in BOOLEAN /\ doomed' \in BOOLEAN /\ broken' \in BOOLEAN
        /\ file' \in Files /\ config' \in BOOLEAN /\ saves' \in Seq(BOOLEAN)
        /\ saving' \in Stages /\ answered' \in Answers
    BY <1>1, <2>1 DEF TypeOK, Files, Stages, Answers
  <2>4. /\ timer' \in [Kinds -> BOOLEAN] /\ orphans' \in [Kinds -> 0..MaxOrphans]
        /\ running' \in [Kinds -> BOOLEAN] /\ ending' \in [Kinds -> Nat]
        /\ run' \in [Kinds -> [Bys -> Steps]]
    BY <1>1, <2>1 DEF TypeOK, Bys, Steps
  <2>5. /\ period' \in {"peak", "idle"} /\ limits' \in [Users -> Limits]
        /\ userTimer' \in BOOLEAN /\ userOrphans' \in 0..MaxOrphans
        /\ userQueue' \in Seq(BOOLEAN) /\ pending' \in Orders
    BY <1>1, <2>1 DEF TypeOK, Orders
  <2> QED BY <2>3, <2>4, <2>5 DEF TypeOK, Files, Stages, Answers, Bys, Steps, Orders
<1>3. SavesOK' /\ QueueOK' /\ FlagsOK'
    BY <1>1 DEF SchedulerInv, SavesOK, QueueOK, FlagsOK
<1>4. TimersAlive'
    BY <1>1 DEF SchedulerInv, TimersAlive
<1> QED BY <1>2, <1>3, <1>4 DEF SchedulerInv

LEMMA StepKept ==
    ASSUME SchedulerParameters, NoneIsNoLimit, SchedulerInv, [Next]_vars
    PROVE  SchedulerInv'
<1>1. ASSUME NEW k \in Kinds, JobStep(k) \/ ManualRun(k)
      PROVE  SchedulerInv'
    BY <1>1, TimerFiresKept, FinishedKept, StartedKept, SyncedKept, ManualRunKept
       DEF JobStep, Bys
<1>2. CASE UserStep
    BY <1>2, UserTimerFiresKept, ReconcileKept, WriteBatchKept DEF UserStep
<1>3. CASE SaveStep
    BY <1>3, OpenFileKept, WriteFileKept, EnsureAccountsKept, StartKept,
       RestorationFailedKept DEF SaveStep
<1>4. ASSUME NEW u \in Users, SetByHand(u)
      PROVE  SchedulerInv'
    BY <1>4, SetByHandKept
<1>5. ASSUME NEW next \in BOOLEAN, SaveArrives(next)
      PROVE  SchedulerInv'
    BY <1>5, SaveArrivesKept
<1>6. CASE Turn
    BY <1>6, TurnKept
<1>7. CASE Exit \/ Crash
    BY <1>7, DownKept DEF Exit, Crash
<1>8. CASE Restart
    BY <1>8, RestartKept
<1>9. CASE UNCHANGED vars
    BY <1>9, StutterKept
<1> QED BY <1>1, <1>2, <1>3, <1>4, <1>5, <1>6, <1>7, <1>8, <1>9 DEF Next

\* The invariant holds in every behaviour.
LEMMA SchedulerInvariant ==
    ASSUME SchedulerParameters, NoneIsNoLimit
    PROVE  Spec => []SchedulerInv
<1>1. Init => SchedulerInv
    BY InitKept
<1>2. SchedulerInv /\ [Next]_vars => SchedulerInv'
    BY StepKept
<1> QED BY <1>1, <1>2, PTL DEF Spec

\* The variables of engine.ts keep their types: above all no timer, no waiting
\* callback and no task of the queues is counted below zero.
THEOREM SchedulerTyped ==
    ASSUME SchedulerParameters, NoneIsNoLimit
    PROVE  Spec => []TypeOK
<1>1. SchedulerInv => TypeOK
    BY DEF SchedulerInv
<1> QED BY <1>1, SchedulerInvariant, PTL

\* Docs 002: two runs of one job never go on at once, whatever timers, manual
\* runs and reconfigurations have started.
THEOREM NoOverlap ==
    ASSUME SchedulerParameters, NoneIsNoLimit
    PROVE  Spec => []RunsDoNotOverlap
<1>1. SchedulerInv => RunsDoNotOverlap
    BY DEF SchedulerInv, FlagsOK, RunsDoNotOverlap
<1> QED BY <1>1, SchedulerInvariant, PTL

\* While the process runs and no save is under way or has failed, every job and
\* the schedule in force have a timer to come.
THEOREM TimersStayAlive ==
    ASSUME SchedulerParameters, NoneIsNoLimit
    PROVE  Spec => []TimersAlive
<1>1. SchedulerInv => TimersAlive
    BY DEF SchedulerInv
<1> QED BY <1>1, SchedulerInvariant, PTL

----------------------------------------------------------------------------
(* The idle limits after the schedule was turned off.                       *)

\* A failure is answered as such, and a crash between the new configuration and
\* the restoration forgets the restoration: without either nothing is lost.
NoFailures == MaxFailures = 0 /\ MaxCrashes = 0

CalmOK == ~broken /\ ~doomed /\ failures = 0 /\ crashes = 0

IdleFor(u) == {Wanted(u, "idle"), "other"}

\* With the schedule off, and no restoration to come, nothing is written and
\* every limit is idle or was set by hand.
OffOK ==
    ~config /\ saving \notin {"leaving", "restoring"} =>
        pending = None /\ \A u \in Users : limits[u] \in IdleFor(u)

\* A restoration writes idle limits, to every user who has another one.
RestoringOK ==
    pending # None /\ Head(userQueue) =>
        \A u \in Users : \/ pending[u] = Wanted(u, "idle")
                         \/ pending[u] = None /\ limits[u] \in IdleFor(u)

\* A process that has not started yet.
StoppedOK == ~up => ~config /\ saving = "queued"

IdleOK == CalmOK /\ OffOK /\ RestoringOK /\ StoppedOK

LEMMA NothingFails ==
    ASSUME NoFailures, CalmOK
    PROVE  ~Failing /\ ~NotStored /\ ~Exit /\ ~Crash
BY DEF NoFailures, CalmOK, Failing, NotStored, Exit, Crash

LEMMA CalmKept ==
    ASSUME NoFailures, CalmOK, [Next]_vars
    PROVE  CalmOK' /\ (up => up')
<1>1. ~Failing /\ ~NotStored /\ ~Exit /\ ~Crash
    BY NothingFails
<1>2. ASSUME NEW k \in Kinds, JobStep(k) \/ ManualRun(k)
      PROVE  UNCHANGED <<up, doomed, broken, failures, crashes>>
  <2>1. CASE TimerFires(k)
    BY <1>1, <2>1 DEF TimerFires, Rearm, Stored
  <2>2. CASE Finished(k)
    BY <1>1, <2>2 DEF Finished, Rearm, Stored
  <2>3. ASSUME NEW by \in Bys, Started(k, by) \/ Synced(k, by)
        PROVE  UNCHANGED <<up, doomed, broken, failures, crashes>>
    BY <1>1, <2>3 DEF Started, Synced, Stored
  <2>4. CASE ManualRun(k)
    BY <2>4 DEF ManualRun, processVars
  <2> QED BY <1>2, <2>1, <2>2, <2>3, <2>4 DEF JobStep, Bys
<1>3. CASE UserStep
  <2>1. CASE UserTimerFires
    BY <2>1 DEF UserTimerFires, processVars, CalmOK
  <2>2. CASE Reconcile
    <3>1. UNCHANGED <<up, doomed, crashes>>
        BY <2>2 DEF Reconcile
    <3>2. UNCHANGED <<broken, failures>>
        BY <1>1, <2>2 DEF Reconcile
    <3> QED BY <3>1, <3>2 DEF CalmOK
  <2>3. CASE WriteBatch
    <3>1. UNCHANGED <<up, doomed, crashes>>
        BY <2>3 DEF WriteBatch
    <3>2. UNCHANGED <<broken, failures>>
        BY <1>1, <2>3 DEF WriteBatch
    <3> QED BY <3>1, <3>2 DEF CalmOK
  <2> QED BY <1>3, <2>1, <2>2, <2>3 DEF UserStep
<1>4. CASE SaveStep
  <2>1. CASE OpenFile
    BY <1>1, <2>1 DEF OpenFile, processVars, CalmOK
  <2>2. CASE WriteFile
    BY <1>1, <2>2 DEF WriteFile, processVars, CalmOK
  <2>3. CASE EnsureAccounts
    <3>1. UNCHANGED <<up, doomed, crashes>>
        BY <2>3 DEF EnsureAccounts
    <3>2. Stored
        BY <1>1, <2>3 DEF EnsureAccounts
    <3> QED BY <3>1, <3>2 DEF Stored, CalmOK
  <2>4. CASE Start
    BY <1>1, <2>4 DEF Start, Rearm, Stored, CalmOK
  <2>5. CASE RestorationFailed
    BY <2>5 DEF RestorationFailed, processVars, CalmOK
  <2> QED BY <1>4, <2>1, <2>2, <2>3, <2>4, <2>5 DEF SaveStep
<1>5. ASSUME NEW u \in Users, SetByHand(u)
      PROVE  UNCHANGED <<processVars, failures>>
    BY <1>5 DEF SetByHand
<1>6. ASSUME NEW next \in BOOLEAN, SaveArrives(next)
      PROVE  UNCHANGED <<processVars, failures>>
    BY <1>6 DEF SaveArrives
<1>7. CASE Turn
    BY <1>7 DEF Turn, processVars, CalmOK
<1>8. CASE Restart
    BY <1>8 DEF Restart, CalmOK
<1>9. CASE UNCHANGED vars
    BY <1>9 DEF vars, processVars, CalmOK
<1> QED BY <1>1, <1>2, <1>3, <1>4, <1>5, <1>6, <1>7, <1>8, <1>9
    DEF Next, processVars, CalmOK

\* A step that changes no limit and begins or ends no restoration.
LEMMA LimitsUntouched ==
    ASSUME IdleOK, up => up', UNCHANGED <<config, limits, pending>>,
           saving' = saving \/ (up /\ saving \notin {"leaving", "restoring"}),
           pending # None => Head(userQueue)' = Head(userQueue)
    PROVE  OffOK' /\ RestoringOK' /\ StoppedOK'
<1>1. OffOK'
    BY DEF IdleOK, OffOK, IdleFor
<1>2. RestoringOK'
    BY DEF IdleOK, RestoringOK, IdleFor
<1>3. StoppedOK'
    BY DEF IdleOK, StoppedOK
<1> QED BY <1>1, <1>2, <1>3

LEMMA JobsIdle ==
    ASSUME NoFailures, IdleOK, [Next]_vars, NEW k \in Kinds, JobStep(k) \/ ManualRun(k)
    PROVE  IdleOK'
<1>1. CalmOK' /\ (up => up')
    BY CalmKept DEF IdleOK
<1>2. UNCHANGED <<configVars, userVars>>
    BY DEF JobStep, ManualRun, TimerFires, Finished, Started, Synced
<1>3. UNCHANGED <<config, limits, pending, saving, userQueue>>
    BY <1>2 DEF configVars, userVars
<1> QED BY <1>1, <1>3, LimitsUntouched DEF IdleOK

LEMMA UserTimerIdle ==
    ASSUME NoFailures, IdleOK, SchedulerInv, [Next]_vars, UserTimerFires
    PROVE  IdleOK'
<1>1. CalmOK' /\ (up => up')
    BY CalmKept DEF IdleOK
<1>2. UNCHANGED <<config, limits, pending, saving>> /\ userQueue' = Append(userQueue, FALSE)
    BY DEF UserTimerFires, configVars
<1>3. /\ userQueue \in Seq(BOOLEAN)
      /\ pending # None => userQueue # <<>>
    BY SaveTypes DEF SchedulerInv, QueueOK
<1>4. pending # None => Head(userQueue)' = Head(userQueue)
    BY <1>2, <1>3, HeadTailAppend
<1> QED BY <1>1, <1>2, <1>4, LimitsUntouched DEF IdleOK

\* The end of a task, with what it has written.
LEMMA SettledIdle ==
    ASSUME NoFailures, IdleOK, SchedulerInv, userQueue # <<>>, up, up', CalmOK',
           SettleUsers(TRUE), UNCHANGED config,
           limits' = limits \/ (pending # None),
           Head(userQueue) => \A u \in Users : limits'[u] \in IdleFor(u)'
    PROVE  IdleOK'
<1>1. pending' = None
    BY DEF SettleUsers
<1>2. OffOK'
  <2>1. CASE Head(userQueue)
    BY <1>1, <2>1 DEF OffOK
  <2>2. CASE ~Head(userQueue)
    <3>1. saving' = saving
        BY <2>2 DEF SettleUsers
    <3> QED BY <1>1, <3>1 DEF IdleOK, OffOK, IdleFor
  <2> QED BY <2>1, <2>2
<1> QED BY <1>1, <1>2 DEF IdleOK, RestoringOK, StoppedOK

LEMMA ReconcileIdle ==
    ASSUME SchedulerParameters, NoneIsNoLimit, NoFailures, IdleOK, SchedulerInv,
           [Next]_vars, Reconcile
    PROVE  IdleOK'
<1>1. CalmOK' /\ (up => up') /\ ~Failing
    BY CalmKept, NothingFails DEF IdleOK
<1>2. up /\ userQueue # <<>> /\ pending = None /\ UNCHANGED <<config, limits>>
    BY DEF Reconcile
<1> DEFINE time == IF Head(userQueue) THEN "idle" ELSE period
           differ == {u \in Users : limits[u] # Wanted(u, time)}
<1>3. \/ ~config /\ ~Head(userQueue) /\ SettleUsers(TRUE)
      \/ differ = {} /\ SettleUsers(TRUE)
      \/ /\ config \/ Head(userQueue)
         /\ pending' = [u \in Users |-> IF u \in differ THEN Wanted(u, time) ELSE None]
         /\ UNCHANGED <<userQueue, saving>>
    BY <1>1 DEF Reconcile
<1>4. differ = {} /\ Head(userQueue) => \A u \in Users : limits'[u] \in IdleFor(u)'
    BY <1>2 DEF IdleFor, Wanted
<1>5. CASE ~Head(userQueue) /\ SettleUsers(TRUE)
    BY <1>1, <1>2, <1>5, SettledIdle
<1>6. CASE differ = {} /\ SettleUsers(TRUE)
    BY <1>1, <1>2, <1>4, <1>6, SettledIdle
<1>7. CASE /\ config \/ Head(userQueue)
           /\ pending' = [u \in Users |-> IF u \in differ THEN Wanted(u, time) ELSE None]
           /\ UNCHANGED <<userQueue, saving>>
  <2>1. Head(userQueue) => saving = "restoring"
    <3>1. /\ userQueue \in Seq(BOOLEAN)
          /\ \A i \in 1..Len(userQueue) : userQueue[i] => saving = "restoring"
        BY SaveTypes DEF SchedulerInv, QueueOK
    <3>2. 1 \in 1..Len(userQueue) /\ Head(userQueue) = userQueue[1]
        BY <1>2, <3>1
    <3> QED BY <3>1, <3>2
  <2>2. OffOK'
    BY <1>2, <1>7, <2>1 DEF OffOK
  <2>3. ASSUME Head(userQueue), NEW u \in Users
        PROVE  \/ pending'[u] = Wanted(u, "idle")
               \/ pending'[u] = None /\ limits'[u] = Wanted(u, "idle")
    <3>1. time = "idle"
        BY <2>3
    <3>2. /\ u \in differ => pending'[u] = Wanted(u, time)
          /\ u \notin differ => pending'[u] = None /\ limits[u] = Wanted(u, time)
        BY <1>7
    <3> QED BY <1>2, <3>1, <3>2
  <2>4. RestoringOK'
    <3>1. userQueue' = userQueue
        BY <1>7
    <3>2. Head(userQueue') =>
             \A u \in Users : \/ pending'[u] = Wanted(u, "idle")
                              \/ pending'[u] = None /\ limits'[u] \in IdleFor(u)
        BY <2>3, <3>1 DEF IdleFor
    <3> QED BY <3>2 DEF RestoringOK, IdleFor, Wanted
  <2> QED BY <1>1, <1>2, <2>2, <2>4 DEF IdleOK, StoppedOK
<1> QED BY <1>3, <1>5, <1>6, <1>7

LEMMA WriteBatchIdle ==
    ASSUME SchedulerParameters, NoneIsNoLimit, NoFailures, IdleOK, SchedulerInv,
           [Next]_vars, WriteBatch
    PROVE  IdleOK'
<1>1. CalmOK' /\ (up => up') /\ ~Failing /\ ~broken
    BY CalmKept, NothingFails DEF IdleOK, CalmOK
<1>2. /\ up /\ pending # None /\ UNCHANGED config
      /\ pending \in [Users -> Limits \cup {None}] /\ limits \in [Users -> Limits]
      /\ userQueue # <<>>
    BY UserTypes DEF WriteBatch, SchedulerInv, Orders, QueueOK
<1> DEFINE written == [u \in Users |-> IF u \in Batch THEN pending[u] ELSE limits[u]]
           rest == [u \in Users |-> IF u \in Batch THEN None ELSE pending[u]]
<1>3. /\ limits' = written
      /\ \/ (\A u \in Users : rest[u] = None) /\ SettleUsers(TRUE)
         \/ pending' = rest /\ UNCHANGED <<userQueue, saving>>
  <2>1. limits' = written
    BY <1>1 DEF WriteBatch
  <2>2. IF \A u \in Users : rest[u] = None THEN SettleUsers(~broken)
        ELSE pending' = rest /\ UNCHANGED <<userQueue, userTimer, userOrphans, saving>>
    BY <1>1 DEF WriteBatch
  <2>3. SettleUsers(~broken) = SettleUsers(TRUE)
    BY <1>1 DEF SettleUsers, TimerWanted
  <2> QED BY <2>1, <2>2, <2>3
<1>4. \A u \in Batch : pending[u] # None
    BY DEF Batch, NoneIsNoLimit, Limits
<1>5. ASSUME Head(userQueue), NEW u \in Users
      PROVE  rest[u] = Wanted(u, "idle") \/ (rest[u] = None /\ written[u] \in IdleFor(u))
    BY <1>2, <1>4, <1>5 DEF IdleOK, RestoringOK, IdleFor
<1>6. CASE (\A u \in Users : rest[u] = None) /\ SettleUsers(TRUE)
  <2>1. \A u \in Users : Wanted(u, "idle") # None
    BY DEF Wanted, NoneIsNoLimit, Limits
  <2>2. Head(userQueue) => \A u \in Users : written[u] \in IdleFor(u)
    BY <1>5, <1>6, <2>1
  <2>3. Head(userQueue) => \A u \in Users : limits'[u] \in IdleFor(u)'
    BY <1>3, <2>2 DEF IdleFor, Wanted
  <2> QED BY <1>1, <1>2, <1>6, <2>3, SettledIdle
<1>7. CASE pending' = rest /\ UNCHANGED <<userQueue, saving>>
  <2>1. OffOK'
    BY <1>2, <1>7 DEF IdleOK, OffOK
  <2>2. RestoringOK'
    <3> HIDE DEF written, rest
    <3>1. userQueue' = userQueue /\ limits' = written /\ pending' = rest
        BY <1>3, <1>7
    <3>2. Head(userQueue') =>
             \A u \in Users : \/ pending'[u] = Wanted(u, "idle")
                              \/ pending'[u] = None /\ limits'[u] \in IdleFor(u)
        BY <1>5, <3>1
    <3> QED BY <3>2 DEF RestoringOK, IdleFor, Wanted
  <2> QED BY <1>1, <1>2, <2>1, <2>2 DEF IdleOK, StoppedOK
<1> QED BY <1>3, <1>6, <1>7

LEMMA SaveStepIdle ==
    ASSUME NoFailures, IdleOK, SchedulerInv, [Next]_vars, SaveStep
    PROVE  IdleOK'
<1>1. CalmOK' /\ (up => up') /\ ~Failing /\ ~NotStored
    BY CalmKept, NothingFails DEF IdleOK
<1>2. CASE OpenFile \/ Start \/ RestorationFailed
  <2>1. /\ UNCHANGED <<config, limits, pending, userQueue>>
        /\ up /\ saving \notin {"leaving", "restoring"}
    BY <1>2 DEF OpenFile, Start, RestorationFailed, userVars
  <2> QED BY <1>1, <2>1, LimitsUntouched DEF IdleOK
<1>3. CASE WriteFile
  <2>1. /\ up /\ saving = "writing" /\ UNCHANGED <<limits, pending, userQueue>>
        /\ config' = Head(saves)
        /\ saving' = (IF config /\ ~Head(saves) THEN "leaving" ELSE "accounts")
    BY <1>1, <1>3 DEF WriteFile
  <2>2. OffOK'
    BY <2>1 DEF IdleOK, OffOK, IdleFor
  <2>3. RestoringOK'
    BY <2>1 DEF IdleOK, RestoringOK, IdleFor
  <2> QED BY <1>1, <2>1, <2>2, <2>3 DEF IdleOK, StoppedOK
<1>4. CASE EnsureAccounts
  <2>1. /\ up /\ UNCHANGED <<config, limits, pending>>
        /\ saving' = (IF saving = "leaving" THEN "restoring" ELSE "restored")
        /\ userQueue' = IF saving = "leaving" THEN Append(userQueue, TRUE) ELSE userQueue
        /\ saving \in {"accounts", "leaving"}
    BY <1>1, <1>4 DEF EnsureAccounts, AwaitRestoration
  <2>2. OffOK'
    BY <2>1 DEF IdleOK, OffOK, IdleFor
  <2>3. /\ userQueue \in Seq(BOOLEAN)
        /\ pending # None => userQueue # <<>>
    BY SaveTypes DEF SchedulerInv, QueueOK
  <2>4. pending # None => Head(userQueue') = Head(userQueue)
    BY <2>1, <2>3, HeadTailAppend
  <2>5. RestoringOK'
    BY <2>1, <2>4 DEF IdleOK, RestoringOK, IdleFor
  <2> QED BY <1>1, <2>1, <2>2, <2>5 DEF IdleOK, StoppedOK
<1> QED BY <1>2, <1>3, <1>4 DEF SaveStep

LEMMA IdleKept ==
    ASSUME SchedulerParameters, NoneIsNoLimit, NoFailures, IdleOK, SchedulerInv, [Next]_vars
    PROVE  IdleOK'
<1>1. CalmOK' /\ (up => up') /\ ~Exit /\ ~Crash
    BY CalmKept, NothingFails DEF IdleOK
<1>2. ASSUME NEW u \in Users, SetByHand(u)
      PROVE  IdleOK'
  <2>1. /\ UNCHANGED <<up, config, saving, userQueue, pending>>
        /\ limits' = [limits EXCEPT ![u] = "other"] /\ limits \in [Users -> Limits]
    BY <1>2, UserTypes DEF SetByHand, processVars, configVars, SchedulerInv
  <2>2. \A v \in Users : limits'[v] = limits[v] \/ limits'[v] = "other"
    BY <2>1
  <2>3. OffOK'
    BY <2>1, <2>2 DEF IdleOK, OffOK, IdleFor
  <2>4. RestoringOK'
    BY <2>1, <2>2 DEF IdleOK, RestoringOK, IdleFor
  <2> QED BY <1>1, <2>1, <2>3, <2>4 DEF IdleOK, StoppedOK
<1>3. ASSUME NEW next \in BOOLEAN, SaveArrives(next)
      PROVE  IdleOK'
  <2>1. UNCHANGED <<config, limits, pending, saving, userQueue>>
    BY <1>3 DEF SaveArrives, userVars
  <2> QED BY <1>1, <2>1, LimitsUntouched DEF IdleOK
<1>4. CASE Turn \/ UNCHANGED vars
  <2>1. UNCHANGED <<config, limits, pending, saving, userQueue>>
    BY <1>4 DEF Turn, vars, configVars, userVars
  <2> QED BY <1>1, <2>1, LimitsUntouched DEF IdleOK
<1>5. CASE Restart
  <2>1. ~up /\ up' /\ UNCHANGED <<limits, pending, saving, userQueue>>
    BY <1>5 DEF Restart
  <2>2. OffOK'
    BY <2>1 DEF IdleOK, OffOK, StoppedOK, IdleFor
  <2>3. RestoringOK'
    BY <2>1 DEF IdleOK, RestoringOK, IdleFor
  <2> QED BY <1>1, <2>1, <2>2, <2>3 DEF IdleOK, StoppedOK
<1>6. ASSUME NEW k \in Kinds, JobStep(k) \/ ManualRun(k)
      PROVE  IdleOK'
    BY <1>6, JobsIdle
<1>7. CASE UserStep
    BY <1>7, UserTimerIdle, ReconcileIdle, WriteBatchIdle DEF UserStep
<1>8. CASE SaveStep
    BY <1>8, SaveStepIdle
<1> QED BY <1>1, <1>2, <1>3, <1>4, <1>5, <1>6, <1>7, <1>8 DEF Next

\* Docs 009: without failures and crashes, a save that turned the schedule off
\* leaves no user with the limit of the peak hours, whatever reconciliations
\* were queued or under way.
THEOREM DisabledLeavesIdle ==
    ASSUME SchedulerParameters, NoneIsNoLimit, NoFailures
    PROVE  Spec => []DisabledIsIdle
<1>1. Init => IdleOK
    BY DEF Init, IdleOK, CalmOK, OffOK, RestoringOK, StoppedOK, IdleFor
<1>2. IdleOK /\ SchedulerInv /\ [Next]_vars => IdleOK'
    BY IdleKept
<1>3. IdleOK /\ SchedulerInv => DisabledIsIdle
    BY DEF IdleOK, OffOK, SchedulerInv, SavesOK, DisabledIsIdle, IdleFor
<1> QED BY <1>1, <1>2, <1>3, SchedulerInvariant, PTL DEF Spec
=============================================================================
