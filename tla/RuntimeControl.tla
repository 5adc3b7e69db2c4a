----------------------------- MODULE RuntimeControl -----------------------------
(***************************************************************************)
(* The host service that changes the database connections and the memory of *)
(* Sub2API (deploy/runtime-control/controller.py): one task at a time edits  *)
(* compose.yml, changes or recreates the container, checks it, and rolls     *)
(* back when anything fails or the service was restarted on the way.         *)
(*                                                                          *)
(* A digest of compose.yml is here its content: the two values, the image,   *)
(* how the file is laid out and how often its operator edited it.            *)
(***************************************************************************)
EXTENDS Naturals

CONSTANTS
    Connections, Memory,    \* values of the two parameters
    Old, New,               \* versions of Sub2API
    None,
    MaxJobs, MaxEdits, MaxFailures, MaxSaveFailures, MaxCrashes \* bounds

VARIABLES
    compose,        \* compose.yml
    container,      \* values, image and binary of the container, and is it up
    job, jobFile,   \* self.job and job.json
    backup,         \* the binary in the backup of the job, or None
    step,           \* of the thread that applies or recovers
    overlapped,     \* has a task begun while another was under way
    version,        \* version that ran when the last job was accepted
    edits, raced,   \* edits by the operator; has one come between check and write
    jobs, failures, saveFailures, crashes

files == <<compose, jobFile, backup>>
counters == <<edits, raced, jobs, crashes>>
vars == <<files, container, job, step, overlapped, version, counters, failures, saveFailures>>

Values == [db : Connections, mem : Memory]
Composes == [db : Connections, mem : Memory, image : {Old, New}, dumped : BOOLEAN,
             edits : 0..MaxEdits]
Jobs == [status : {"applying", "succeeded", "failed", "rolled_back", "rollback_failed"},
         target : Values, previous : Values, before : Composes, candidate : Composes \cup {None},
         image : {Old, New}, mutated : BOOLEAN, restart : BOOLEAN]

RuntimeParameters ==
    /\ MaxEdits \in Nat
    /\ None \notin Values \cup Composes \cup Jobs \cup {Old, New}

TypeOK ==
    /\ compose \in Composes
    /\ container \in [db : Connections, mem : Memory, image : {Old, New}, binary : {Old, New},
                      up : BOOLEAN]
    /\ job \in Jobs \cup {None} /\ jobFile \in Jobs \cup {None}
    /\ backup \in {Old, New, None} /\ version \in {Old, New, None}
    /\ step \in {"idle", "down", "prepare", "check", "write", "apply", "health", "rollback",
                 "restore", "recreate", "copy", "start", "update", "verify", "giveUp"}
    /\ edits \in 0..MaxEdits /\ raced \in BOOLEAN /\ overlapped \in BOOLEAN

\* The values in force, or None.
Effective == IF container.up THEN [db |-> container.db, mem |-> container.mem] ELSE None

Applying == job # None /\ job.status = "applying"

Failing == failures < MaxFailures /\ failures' = failures + 1
To(next) == step' = next

\* atomic: a replacement of a file that fails may have had its effect, for the
\* directory is synced after the rename.
Attempted(content, file) == {file, content}

\* save_job: the file is replaced, or the write fails.
SaveFails ==
    /\ saveFailures < MaxSaveFailures /\ saveFailures' = saveFailures + 1
    /\ jobFile' \in Attempted(job', jobFile)
SaveJob(j) == job' = j /\ jobFile' = j /\ UNCHANGED saveFailures

----------------------------------------------------------------------------
(* start                                                                    *)

Running == container.up

\* The request names the digest of the file as it is.
Start(target) ==
    /\ step # "down" /\ ~overlapped /\ ~Applying /\ Running
    /\ jobs < MaxJobs /\ jobs' = jobs + 1
    /\ LET accepted == [status |-> "applying", target |-> target, previous |-> Effective,
                        before |-> compose, candidate |-> None, image |-> container.image,
                        mutated |-> FALSE, restart |-> container.db # target.db]
       IN  \/ SaveJob(accepted) /\ To("prepare") /\ overlapped' = (step # "idle")
           \/ job' = accepted /\ SaveFails /\ UNCHANGED <<step, overlapped>>
    /\ version' = container.binary /\ backup' = None
    /\ UNCHANGED <<compose, container, edits, raced, crashes, failures>>

----------------------------------------------------------------------------
(* apply                                                                    *)

At(s) == step = s /\ ~overlapped

ToRollback == To("rollback")

\* With a new container comes the version that runs, not the one named.
PreservedImage == IF job.restart THEN container.binary ELSE job.before.image

Candidate ==
    [job.before EXCEPT !.db = job.target.db, !.mem = job.target.mem, !.image = PreservedImage,
                       !.dumped = TRUE]

Prepare ==
    /\ At("prepare")
    /\ \/ /\ backup' = (IF job.restart THEN container.binary ELSE None)
          /\ SaveJob([job EXCEPT !.candidate = Candidate]) /\ To("check") /\ UNCHANGED failures
       \/ /\ backup' \in {None, IF job.restart THEN container.binary ELSE None}
          /\ Failing /\ ToRollback /\ UNCHANGED <<job, jobFile, saveFailures>>
       \/ /\ backup' = (IF job.restart THEN container.binary ELSE None)
          /\ job' = [job EXCEPT !.candidate = Candidate]
          /\ SaveFails /\ ToRollback /\ UNCHANGED failures
    /\ UNCHANGED <<compose, container, overlapped, version, counters>>

Check ==
    /\ At("check")
    /\ \/ Failing /\ ToRollback /\ UNCHANGED <<job, jobFile, saveFailures>>  \* not read
       \/ /\ compose # job.before
          /\ ToRollback /\ UNCHANGED <<job, jobFile, failures, saveFailures>>
       \/ /\ compose = job.before /\ UNCHANGED failures
          /\ \/ SaveJob([job EXCEPT !.mutated = TRUE]) /\ To("write")
             \/ job' = [job EXCEPT !.mutated = TRUE] /\ SaveFails /\ ToRollback
    /\ UNCHANGED <<compose, container, backup, overlapped, version, counters>>

Write ==
    /\ At("write")
    /\ \/ compose' = job.candidate /\ To("apply") /\ UNCHANGED failures
       \/ compose' \in Attempted(job.candidate, compose) /\ Failing /\ ToRollback
    /\ UNCHANGED <<container, job, jobFile, backup, overlapped, version, counters, saveFailures>>

\* What compose makes of a file: a new container of its image.
Made(file, up) ==
    [db |-> file.db, mem |-> file.mem, image |-> file.image, binary |-> file.image, up |-> up]

\* A command that fails may have had its effect, or stopped the container.
ApplyContainer ==
    /\ At("apply")
    /\ LET applied == IF job.restart THEN Made(compose, TRUE)
                      ELSE [container EXCEPT !.mem = job.target.mem]
       IN  \/ container' = applied /\ To("health") /\ UNCHANGED failures
           \/ /\ Failing /\ ToRollback
              /\ container' \in {container, applied} \cup
                    (IF job.restart THEN {Made(compose, FALSE)} ELSE {})
    /\ UNCHANGED <<files, job, overlapped, version, counters, saveFailures>>

\* finish: the status, and the file.  What follows a file that is not written.
Finish(status, unsaved) ==
    \/ SaveJob([job EXCEPT !.status = status]) /\ To("idle")
    \/ job' = [job EXCEPT !.status = status] /\ SaveFails /\ To(unsaved)

Health ==
    /\ At("health")
    /\ \/ Effective = job.target /\ Finish("succeeded", "rollback") /\ UNCHANGED failures
       \/ Effective # job.target /\ ToRollback /\ UNCHANGED <<job, jobFile, failures, saveFailures>>
       \/ Failing /\ ToRollback /\ UNCHANGED <<job, jobFile, saveFailures>>
    /\ UNCHANGED <<compose, container, backup, overlapped, version, counters>>

----------------------------------------------------------------------------
(* rollback                                                                 *)

KnownFile == compose \in {job.before, job.candidate}

Rollback ==
    /\ At("rollback")
    /\ \/ Failing /\ To("giveUp") /\ UNCHANGED <<job, jobFile, saveFailures>>  \* not read
       \/ /\ UNCHANGED failures
          /\ IF ~KnownFile THEN To("giveUp") /\ UNCHANGED <<job, jobFile, saveFailures>>
             ELSE IF ~job.mutated /\ compose = job.before THEN Finish("failed", "giveUp")
             ELSE To("restore") /\ UNCHANGED <<job, jobFile, saveFailures>>
    /\ UNCHANGED <<compose, container, backup, overlapped, version, counters>>

Restore ==
    /\ At("restore")
    /\ \/ /\ compose' = job.before /\ UNCHANGED failures
          /\ To(IF job.restart /\ backup # None THEN "recreate" ELSE "update")
       \/ compose' \in Attempted(job.before, compose) /\ Failing /\ To("giveUp")
    /\ UNCHANGED <<container, job, jobFile, backup, overlapped, version, counters, saveFailures>>

\* One command of the rollback: it has its effect, or fails with or without it.
Command(at, effect, next) ==
    /\ At(at)
    /\ \/ container' = effect /\ To(next) /\ UNCHANGED failures
       \/ container' \in {container, effect} /\ Failing /\ To("giveUp")
    /\ UNCHANGED <<files, job, overlapped, version, counters, saveFailures>>

\* The container is made again from the image it had, gets the binary it ran,
\* and is started; or its memory is set back.
Recreate == Command("recreate", Made([job.before EXCEPT !.image = job.image], FALSE), "copy")
Copy == Command("copy", [container EXCEPT !.binary = backup], "start")
StartContainer == Command("start", [container EXCEPT !.up = TRUE], "verify")
UpdateMemory == Command("update", [container EXCEPT !.mem = job.previous.mem], "verify")

\* Mutant: the rollback is checked for health only.
HealthyAgain == container.up

Restored == Effective = job.previous

Verify ==
    /\ At("verify")
    /\ \/ Restored /\ Finish("rolled_back", "giveUp") /\ UNCHANGED failures
       \/ ~Restored /\ To("giveUp") /\ UNCHANGED <<job, jobFile, failures, saveFailures>>
       \/ Failing /\ To("giveUp") /\ UNCHANGED <<job, jobFile, saveFailures>>
    /\ UNCHANGED <<compose, container, backup, overlapped, version, counters>>

GiveUp ==
    /\ At("giveUp") /\ Finish("rollback_failed", "idle")
    /\ UNCHANGED <<compose, container, backup, overlapped, version, counters, failures>>

----------------------------------------------------------------------------
(* The operator, and the end and recovery of the service.                   *)

\* An edit leaves the two values and the image alone.
Edit ==
    /\ edits < MaxEdits /\ edits' = edits + 1
    /\ compose' = [compose EXCEPT !.edits = edits + 1]
    /\ raced' = (raced \/ step \in {"write", "restore"})
    /\ UNCHANGED <<container, job, jobFile, backup, step, overlapped, version, jobs, failures,
                   saveFailures, crashes>>

Crash ==
    /\ step # "down" /\ crashes < MaxCrashes /\ crashes' = crashes + 1
    /\ To("down")
    /\ UNCHANGED <<files, container, job, overlapped, version, edits, raced, jobs, failures,
                   saveFailures>>

RecoverAt(status) == IF status = "applying" THEN "rollback" ELSE "idle"

Recover ==
    /\ step = "down" /\ ~overlapped
    /\ job' = jobFile /\ To(IF jobFile = None THEN "idle" ELSE RecoverAt(jobFile.status))
    /\ UNCHANGED <<files, container, overlapped, version, counters, failures, saveFailures>>

\* compose.yml may name an older version than the one that runs, and other
\* values than those in force.
Init ==
    /\ compose \in [db : Connections, mem : Memory, image : {Old}, dumped : {FALSE}, edits : {0}]
    /\ container \in [db : Connections, mem : Memory, image : {Old}, binary : {Old, New},
                      up : {TRUE}]
    /\ job = None /\ jobFile = None /\ backup = None /\ step = "idle" /\ overlapped = FALSE
    /\ version = None /\ edits = 0 /\ raced = FALSE
    /\ jobs = 0 /\ failures = 0 /\ saveFailures = 0 /\ crashes = 0

ApplyStep == Prepare \/ Check \/ Write \/ ApplyContainer \/ Health
RollbackStep ==
    \/ Rollback \/ Restore \/ Recreate \/ Copy \/ StartContainer \/ UpdateMemory
    \/ Verify \/ GiveUp

Next ==
    \/ \E target \in Values : Start(target)
    \/ ApplyStep \/ RollbackStep \/ Edit \/ Crash \/ Recover

Spec == Init /\ [][Next]_vars

\* Commands have timeouts, and the service is started again.
FairSpec == Spec /\ WF_vars(ApplyStep \/ RollbackStep) /\ WF_vars(Recover)

----------------------------------------------------------------------------
(* Properties.                                                              *)

Agrees(values, file) == values.db = file.db /\ values.mem = file.mem

\* Docs 004: the result that is shown is what happened: succeeded, both the
\* file and the container have the new values; rolled back or failed, both are
\* as they were, whichever step failed or was cut off by a restart.
ResultIsTrue ==
    job # None /\ step = "idle" =>
        /\ job.status = "succeeded" => Effective = job.target /\ Agrees(job.target, compose)
        /\ job.status \in {"rolled_back", "failed"} =>
              /\ Effective = job.previous
              /\ Agrees(job.before, compose) /\ compose.image = job.before.image

\* Docs 004: the version that ran is kept through new containers and rollbacks,
\* also when the program had updated itself past the image it came from.
VersionKept ==
    job # None /\ step = "idle" /\ job.status \in {"succeeded", "rolled_back", "failed"} =>
        container.binary = version

\* Edits of the operator outlive every task, except one that came between the
\* check of the file and its replacement.
EditsKept == ~raced => compose.edits = edits

\* The result that is shown is what happened to file and container, the version
\* stays, and an operator's edit is kept, whichever step failed or was cut off by
\* a restart (controller.py; docs 004).
TasksHonest == ResultIsTrue /\ VersionKept /\ EditsKept

\* Docs 004: a task comes to its result, after a restart too.
ApplyingEnds == []<>~Applying
=============================================================================
