---------------------------- MODULE RuntimeProofs ----------------------------
(***************************************************************************)
(* Proofs about the controller of Sub2API's parameters, for every number of *)
(* tasks, edits, failed commands and crashes while job.json can be written: *)
(* the result that is shown is what happened, the version that ran is kept, *)
(* and so are the operator's edits.                                         *)
(***************************************************************************)
EXTENDS RuntimeControl, TLAPS

----------------------------------------------------------------------------
(* The inductive invariant.                                                 *)

\* The file is that one but for edits of the operator.
Like(file) ==
    /\ compose.db = file.db /\ compose.mem = file.mem
    /\ compose.image = file.image /\ compose.dumped = file.dumped

\* The file that a task writes is the one it found with the values it was asked
\* for and, for a new container, the version that ran.
CandidateOK ==
    job # None =>
        /\ job.mutated => job.candidate # None
        /\ job.candidate # None =>
              job.candidate = [job.before EXCEPT
                  !.db = job.target.db, !.mem = job.target.mem, !.dumped = TRUE,
                  !.image = IF job.restart THEN version ELSE job.before.image]

\* A task that has not recorded that it changes something has changed nothing;
\* without a restart the binary stays, and with one the backup has it.
WorkOK ==
    Applying =>
        /\ ~job.mutated => /\ Like(job.before) /\ Effective = job.previous
                           /\ container.binary = version
        /\ ~job.restart => container.binary = version
        /\ backup # None => backup = version
        /\ job.candidate # None /\ job.restart => backup # None

\* What each step takes for granted.
StepOK ==
    /\ step \notin {"idle", "down"} => Applying
    /\ step = "idle" => ~Applying
    /\ step = "prepare" => job.candidate = None
    /\ step \in {"prepare", "check"} => ~job.mutated
    /\ step \in {"check", "write", "apply", "health"} => job.candidate # None
    /\ step \in {"write", "apply", "health", "restore", "recreate", "copy", "start", "update"} =>
          job.mutated
    /\ step \in {"write", "apply", "health", "start", "verify"} => container.binary = version
    /\ step \in {"apply", "health"} => Like(job.candidate)
    /\ step \in {"recreate", "copy", "start", "update", "verify"} => Like(job.before)
    /\ step \in {"recreate", "copy", "start"} => backup # None /\ job.restart
    /\ step = "update" => ~job.restart

ResultOK ==
    job # None =>
        /\ job.status = "succeeded" => Effective = job.target /\ Agrees(job.target, compose)
        /\ job.status \in {"rolled_back", "failed"} =>
              /\ Effective = job.previous
              /\ Agrees(job.before, compose) /\ compose.image = job.before.image
        /\ job.status \in {"succeeded", "rolled_back", "failed"} => container.binary = version

\* Without an edit in between, a replacement finds the file that was compared.
EditsOK ==
    ~raced => /\ compose.edits = edits
              /\ step = "write" => compose = job.before
              /\ step = "restore" => compose \in {job.before, job.candidate}

\* What the controller remembers is what job.json says.
SavedOK == saveFailures = 0 /\ jobFile = job /\ ~overlapped

RuntimeInv ==
    TypeOK /\ SavedOK /\ CandidateOK /\ WorkOK /\ StepOK /\ ResultOK /\ EditsOK

----------------------------------------------------------------------------
(* The steps.                                                               *)

LEMMA SavesDone ==
    ASSUME MaxSaveFailures = 0, RuntimeInv
    PROVE  ~SaveFails
BY DEF RuntimeInv, SavedOK, SaveFails

LEMMA JobTyped ==
    ASSUME RuntimeParameters, TypeOK, job # None
    PROVE  /\ job \in Jobs /\ job.target \in Values /\ job.previous \in Values
           /\ job.before \in Composes /\ job.candidate \in Composes \cup {None}
           /\ job.image \in {Old, New} /\ job.mutated \in BOOLEAN /\ job.restart \in BOOLEAN
BY DEF TypeOK, Jobs

\* A task is admitted when no other is under way.
LEMMA StartKept ==
    ASSUME RuntimeParameters, MaxSaveFailures = 0, RuntimeInv, NEW target \in Values,
           Start(target)
    PROVE  RuntimeInv'
<1> DEFINE accepted == [status |-> "applying", target |-> target, previous |-> Effective,
                        before |-> compose, candidate |-> None, image |-> container.image,
                        mutated |-> FALSE, restart |-> container.db # target.db]
<1>1. /\ step = "idle" /\ ~overlapped /\ container.up
      /\ compose \in Composes /\ Effective \in Values
      /\ container.image \in {Old, New} /\ container.binary \in {Old, New}
    BY DEF RuntimeInv, TypeOK, StepOK, Start, Running, Effective, Values
<1>2. /\ job' = accepted /\ jobFile' = accepted /\ saveFailures' = saveFailures
      /\ step' = "prepare" /\ overlapped' = FALSE
      /\ version' = container.binary /\ backup' = None
      /\ UNCHANGED <<compose, container, edits, raced>>
    BY <1>1, SavesDone DEF Start, SaveJob, To
<1>3. accepted \in Jobs
    BY <1>1 DEF Jobs
<1>4. /\ accepted.status = "applying" /\ accepted.previous = Effective
      /\ accepted.before = compose /\ accepted.candidate = None /\ ~accepted.mutated
    OBVIOUS
<1> HIDE DEF accepted
<1>5. accepted # None
    BY <1>3 DEF RuntimeParameters
<1>6. TypeOK'
    BY <1>1, <1>2, <1>3 DEF RuntimeInv, TypeOK
<1>7. SavedOK' /\ CandidateOK'
    BY <1>2, <1>4 DEF RuntimeInv, SavedOK, CandidateOK
<1>8. WorkOK' /\ StepOK'
    BY <1>1, <1>2, <1>4, <1>5 DEF WorkOK, StepOK, Applying, Like, Effective
<1>9. ResultOK' /\ EditsOK'
    BY <1>2, <1>4 DEF RuntimeInv, ResultOK, EditsOK
<1> QED BY <1>6, <1>7, <1>8, <1>9 DEF RuntimeInv

LEMMA PrepareKept ==
    ASSUME RuntimeParameters, MaxSaveFailures = 0, RuntimeInv, Prepare
    PROVE  RuntimeInv'
<1>1. /\ step = "prepare" /\ Applying /\ ~job.mutated /\ container.binary = version
      /\ job.candidate = None /\ job # None /\ job \in Jobs /\ container.binary \in {Old, New}
    BY DEF RuntimeInv, TypeOK, StepOK, WorkOK, Prepare, At, Applying
<1>2. /\ UNCHANGED <<compose, container, overlapped, version, edits, raced, saveFailures>>
      /\ backup' \in {None, container.binary}
      /\ jobFile' = job'
      /\ \/ job' = job /\ step' = "rollback"
         \/ /\ job' = [job EXCEPT !.candidate = Candidate] /\ step' = "check"
            /\ job.restart => backup' = container.binary
    BY SavesDone DEF Prepare, SaveJob, To, ToRollback, counters, RuntimeInv, SavedOK
<1>3. /\ Candidate = [job.before EXCEPT
             !.db = job.target.db, !.mem = job.target.mem, !.dumped = TRUE,
             !.image = IF job.restart THEN version ELSE job.before.image]
      /\ Candidate \in Composes
    BY <1>1, JobTyped DEF RuntimeInv, Candidate, PreservedImage, Composes, Values
<1>4. Candidate # None
    BY <1>3 DEF RuntimeParameters
<1>5. /\ job' \in Jobs /\ job'.status = job.status /\ job'.target = job.target
      /\ job'.previous = job.previous /\ job'.before = job.before /\ job'.image = job.image
      /\ job'.mutated = job.mutated /\ job'.restart = job.restart
      /\ job'.candidate = IF step' = "check" THEN Candidate ELSE None
    BY <1>1, <1>2, <1>3 DEF Jobs
<1>6. job' # None
    BY <1>5 DEF RuntimeParameters
<1>7. TypeOK'
    BY <1>1, <1>2, <1>5 DEF RuntimeInv, TypeOK
<1>8. SavedOK' /\ CandidateOK'
    BY <1>1, <1>2, <1>3, <1>5 DEF RuntimeInv, SavedOK, CandidateOK
<1>9. WorkOK'
  <2>1. job'.candidate # None /\ job'.restart => backup' # None
    BY <1>1, <1>2, <1>5 DEF RuntimeParameters
  <2> QED BY <1>1, <1>2, <1>5, <2>1 DEF RuntimeInv, WorkOK, Applying, Like, Effective
<1>10. StepOK'
    BY <1>1, <1>2, <1>4, <1>5, <1>6 DEF StepOK, Applying
<1>11. ResultOK' /\ EditsOK'
    BY <1>1, <1>2, <1>5 DEF RuntimeInv, ResultOK, EditsOK, Applying
<1> QED BY <1>7, <1>8, <1>9, <1>10, <1>11 DEF RuntimeInv

LEMMA CheckKept ==
    ASSUME RuntimeParameters, MaxSaveFailures = 0, RuntimeInv, Check
    PROVE  RuntimeInv'
<1>1. /\ step = "check" /\ Applying /\ ~job.mutated /\ job.candidate # None
      /\ container.binary = version /\ Like(job.before) /\ Effective = job.previous
      /\ job # None /\ job \in Jobs
    BY DEF RuntimeInv, TypeOK, StepOK, WorkOK, Check, At, Applying
<1>2. /\ UNCHANGED <<compose, container, overlapped, version, edits, raced, saveFailures>>
      /\ backup' = backup /\ jobFile' = job'
      /\ \/ job' = job /\ step' = "rollback"
         \/ job' = [job EXCEPT !.mutated = TRUE] /\ step' = "write" /\ compose = job.before
  <2>1. UNCHANGED <<compose, container, backup, overlapped, version, edits, raced>>
    BY DEF Check, counters
  <2>2. jobFile = job
    BY DEF RuntimeInv, SavedOK
  <2> QED BY <2>1, <2>2, SavesDone DEF Check, SaveJob, To, ToRollback
<1>3. /\ job' \in Jobs /\ job'.status = job.status /\ job'.target = job.target
      /\ job'.previous = job.previous /\ job'.before = job.before /\ job'.image = job.image
      /\ job'.restart = job.restart /\ job'.candidate = job.candidate
      /\ job'.mutated = (step' = "write")
    BY <1>1, <1>2 DEF Jobs
<1>4. job' # None
    BY <1>3 DEF RuntimeParameters
<1>5. job.restart => backup # None
    BY <1>1 DEF RuntimeInv, WorkOK
<1>6. TypeOK'
    BY <1>1, <1>2, <1>3 DEF RuntimeInv, TypeOK
<1>7. SavedOK' /\ CandidateOK'
    BY <1>1, <1>2, <1>3 DEF RuntimeInv, SavedOK, CandidateOK
<1>8. WorkOK' /\ StepOK'
    BY <1>1, <1>2, <1>3, <1>4 DEF RuntimeInv, WorkOK, StepOK, Applying, Like, Effective
<1>9. ResultOK' /\ EditsOK'
    BY <1>1, <1>2, <1>3 DEF RuntimeInv, ResultOK, EditsOK, Applying
<1> QED BY <1>6, <1>7, <1>8, <1>9 DEF RuntimeInv

\* A step of a task that stores nothing.
LEMMA TaskGoesOn ==
    ASSUME RuntimeInv, Applying, UNCHANGED <<job, jobFile, overlapped, version, saveFailures>>,
           TypeOK', WorkOK', StepOK', EditsOK'
    PROVE  RuntimeInv'
BY DEF RuntimeInv, SavedOK, CandidateOK, ResultOK, Applying

LEMMA WriteKept ==
    ASSUME RuntimeParameters, MaxSaveFailures = 0, RuntimeInv, Write
    PROVE  RuntimeInv'
<1>1. /\ step = "write" /\ Applying /\ job.mutated /\ job.candidate # None
      /\ container.binary = version /\ job # None /\ job \in Jobs
    BY DEF RuntimeInv, TypeOK, StepOK, Write, At, Applying
<1>2. /\ UNCHANGED <<container, job, jobFile, backup, overlapped, version, edits, raced,
                     saveFailures>>
      /\ \/ compose' = job.candidate /\ step' = "apply"
         \/ compose' \in {job.candidate, compose} /\ step' = "rollback"
    BY DEF Write, Attempted, To, ToRollback, counters
<1>3. job.candidate \in Composes /\ job.candidate.edits = job.before.edits
    BY <1>1, JobTyped DEF RuntimeInv, CandidateOK, Composes
<1>4. TypeOK'
    BY <1>1, <1>2, <1>3 DEF RuntimeInv, TypeOK
<1>5. WorkOK' /\ StepOK'
    BY <1>1, <1>2 DEF RuntimeInv, WorkOK, StepOK, Applying, Like, Effective
<1>6. EditsOK'
    BY <1>1, <1>2, <1>3 DEF RuntimeInv, EditsOK
<1> QED BY <1>1, <1>2, <1>4, <1>5, <1>6, TaskGoesOn

\* The program reaches the container, or a new container runs the version that
\* the file names.
LEMMA ApplyContainerKept ==
    ASSUME RuntimeParameters, MaxSaveFailures = 0, RuntimeInv, ApplyContainer
    PROVE  RuntimeInv'
<1>1. /\ step = "apply" /\ Applying /\ job.mutated /\ job.candidate # None
      /\ container.binary = version /\ Like(job.candidate) /\ job # None /\ job \in Jobs
    BY DEF RuntimeInv, TypeOK, StepOK, ApplyContainer, At, Applying
<1>2. /\ UNCHANGED <<compose, job, jobFile, backup, overlapped, version, edits, raced,
                     saveFailures>>
      /\ step' \in {"health", "rollback"}
      /\ LET applied == IF job.restart THEN Made(compose, TRUE)
                         ELSE [container EXCEPT !.mem = job.target.mem]
         IN  \/ container' = applied
             \/ /\ step' = "rollback"
                /\ container' \in {container, applied} \cup
                       (IF job.restart THEN {Made(compose, FALSE)} ELSE {})
    BY DEF ApplyContainer, To, ToRollback, files, counters
<1>3. job.restart => compose.image = version
    BY <1>1, JobTyped DEF RuntimeInv, CandidateOK, Like, Composes
<1>4. TypeOK'
  <2> DEFINE Containers == [db : Connections, mem : Memory, image : {Old, New},
                            binary : {Old, New}, up : BOOLEAN]
  <2>1. compose \in Composes /\ container \in Containers /\ job.target.mem \in Memory
    BY <1>1, JobTyped DEF RuntimeInv, TypeOK, Values
  <2>2. Made(compose, TRUE) \in Containers /\ Made(compose, FALSE) \in Containers
    BY <2>1 DEF Made, Composes
  <2>3. [container EXCEPT !.mem = job.target.mem] \in Containers
    BY <2>1
  <2>4. container' \in Containers
    <3> HIDE DEF Containers
    <3> QED BY <1>2, <2>1, <2>2, <2>3
  <2> QED BY <1>2, <2>4 DEF RuntimeInv, TypeOK
<1>5. /\ ~job.restart => container'.binary = version
      /\ step' = "health" => container'.binary = version
    BY <1>1, <1>2, <1>3 DEF RuntimeInv, TypeOK, Made
<1>6. WorkOK' /\ StepOK'
    BY <1>1, <1>2, <1>5 DEF RuntimeInv, WorkOK, StepOK, Applying, Like
<1>7. EditsOK'
    BY <1>1, <1>2 DEF RuntimeInv, EditsOK
<1> QED BY <1>1, <1>2, <1>4, <1>6, <1>7, TaskGoesOn

\* The end of a task with a result that is true.
LEMMA FinishKept ==
    ASSUME RuntimeParameters, MaxSaveFailures = 0, RuntimeInv, Applying,
           NEW status \in {"succeeded", "failed", "rolled_back", "rollback_failed"},
           NEW unsaved, Finish(status, unsaved),
           UNCHANGED <<compose, container, backup, overlapped, version, edits, raced>>,
           status = "succeeded" => Effective = job.target /\ Agrees(job.target, compose),
           status \in {"rolled_back", "failed"} =>
               /\ Effective = job.previous
               /\ Agrees(job.before, compose) /\ compose.image = job.before.image,
           status # "rollback_failed" => container.binary = version
    PROVE  RuntimeInv'
<1>1. /\ job # None /\ job \in Jobs
      /\ job' = [job EXCEPT !.status = status] /\ jobFile' = job'
      /\ step' = "idle" /\ saveFailures' = saveFailures
    BY SavesDone DEF RuntimeInv, TypeOK, Applying, Finish, SaveJob, To
<1>2. /\ job' \in Jobs /\ job'.status = status /\ job'.target = job.target
      /\ job'.previous = job.previous /\ job'.before = job.before
      /\ job'.restart = job.restart /\ job'.candidate = job.candidate
      /\ job'.mutated = job.mutated
    BY <1>1 DEF Jobs
<1>3. TypeOK'
    BY <1>1, <1>2 DEF RuntimeInv, TypeOK
<1>4. SavedOK' /\ CandidateOK'
    BY <1>1, <1>2 DEF RuntimeInv, SavedOK, CandidateOK
<1>5. WorkOK' /\ StepOK' /\ EditsOK'
    BY <1>1, <1>2 DEF RuntimeInv, WorkOK, StepOK, EditsOK, Applying
<1>6. ResultOK'
    BY <1>2 DEF ResultOK, Agrees, Effective
<1> QED BY <1>3, <1>4, <1>5, <1>6 DEF RuntimeInv

LEMMA HealthKept ==
    ASSUME RuntimeParameters, MaxSaveFailures = 0, RuntimeInv, Health
    PROVE  RuntimeInv'
<1>1. /\ step = "health" /\ Applying /\ job.candidate # None
      /\ container.binary = version /\ Like(job.candidate) /\ job # None /\ job \in Jobs
    BY DEF RuntimeInv, TypeOK, StepOK, Health, At, Applying
<1>2. UNCHANGED <<compose, container, backup, overlapped, version, edits, raced>>
    BY DEF Health, counters
<1>3. Agrees(job.target, compose)
    BY <1>1, JobTyped DEF RuntimeInv, CandidateOK, Like, Agrees, Composes
<1>4. CASE Effective = job.target /\ Finish("succeeded", "rollback")
    BY <1>1, <1>2, <1>3, <1>4, FinishKept
<1>5. CASE step' = "rollback" /\ UNCHANGED <<job, jobFile, saveFailures>>
  <2>1. TypeOK'
    BY <1>2, <1>5 DEF RuntimeInv, TypeOK
  <2>2. WorkOK' /\ StepOK' /\ EditsOK'
    BY <1>1, <1>2, <1>5 DEF RuntimeInv, WorkOK, StepOK, EditsOK, Applying, Like, Effective
  <2> QED BY <1>1, <1>2, <1>5, <2>1, <2>2, TaskGoesOn
<1> QED BY <1>4, <1>5 DEF Health, ToRollback, To

\* What is to be undone has been recorded: otherwise the file is the one found.
LEMMA RollbackKept ==
    ASSUME RuntimeParameters, MaxSaveFailures = 0, RuntimeInv, Rollback
    PROVE  RuntimeInv'
<1>1. /\ step = "rollback" /\ Applying /\ job # None /\ job \in Jobs
      /\ compose \in Composes /\ job.before \in Composes
    BY JobTyped DEF RuntimeInv, TypeOK, StepOK, Rollback, At, Applying
<1>2. UNCHANGED <<compose, container, backup, overlapped, version, edits, raced>>
    BY DEF Rollback, counters
<1>3. ASSUME ~job.mutated
      PROVE  /\ Like(job.before) /\ Effective = job.previous /\ container.binary = version
             /\ KnownFile => compose = job.before
  <2>1. Like(job.before) /\ Effective = job.previous /\ container.binary = version
    BY <1>1, <1>3 DEF RuntimeInv, WorkOK
  <2>2. ASSUME compose = job.candidate
        PROVE  compose.edits = job.before.edits
    <3>1. job.candidate # None
      BY <1>1, <2>2 DEF RuntimeParameters
    <3> QED BY <1>1, <2>2, <3>1 DEF RuntimeInv, CandidateOK, Composes
  <2>3. compose = job.candidate => compose = job.before
    BY <1>1, <2>1, <2>2 DEF Like, Composes
  <2> QED BY <2>1, <2>3 DEF KnownFile
<1>4. CASE ~job.mutated /\ Finish("failed", "giveUp")
  <2>1. Agrees(job.before, compose) /\ compose.image = job.before.image
    BY <1>3, <1>4 DEF Like, Agrees
  <2> QED BY <1>1, <1>2, <1>3, <1>4, <2>1, FinishKept
<1>5. CASE /\ step' = "giveUp" \/ (step' = "restore" /\ job.mutated /\ KnownFile)
           /\ UNCHANGED <<job, jobFile, saveFailures>>
  <2>1. TypeOK'
    BY <1>2, <1>5 DEF RuntimeInv, TypeOK
  <2>2. WorkOK' /\ StepOK'
    BY <1>1, <1>2, <1>5 DEF RuntimeInv, WorkOK, StepOK, Applying, Like, Effective
  <2>3. EditsOK'
    BY <1>1, <1>2, <1>5 DEF RuntimeInv, EditsOK, KnownFile
  <2> QED BY <1>1, <1>2, <1>5, <2>1, <2>2, <2>3, TaskGoesOn
<1>6. CASE step' = "giveUp" /\ UNCHANGED <<job, jobFile, saveFailures>>
    BY <1>5, <1>6
<1>7. CASE ~job.mutated /\ compose = job.before /\ Finish("failed", "giveUp")
    BY <1>4, <1>7
<1>8. CASE /\ KnownFile /\ ~(~job.mutated /\ compose = job.before)
           /\ To("restore") /\ UNCHANGED <<job, jobFile, saveFailures>>
  <2>1. job.mutated
    BY <1>1, <1>3, <1>8 DEF Jobs
  <2> QED BY <1>5, <1>8, <2>1 DEF To
<1> QED BY <1>6, <1>7, <1>8 DEF Rollback, To

LEMMA RestoreKept ==
    ASSUME RuntimeParameters, MaxSaveFailures = 0, RuntimeInv, Restore
    PROVE  RuntimeInv'
<1>1. /\ step = "restore" /\ Applying /\ job.mutated /\ job # None /\ job \in Jobs
      /\ job.before \in Composes /\ job.candidate # None
      /\ job.restart => backup # None
      /\ ~job.restart => container.binary = version
    BY JobTyped
    DEF RuntimeInv, TypeOK, CandidateOK, WorkOK, StepOK, Restore, At, Applying
<1>2. /\ UNCHANGED <<container, job, jobFile, backup, overlapped, version, edits, raced,
                     saveFailures>>
      /\ \/ /\ compose' = job.before
            /\ step' = (IF job.restart THEN "recreate" ELSE "update")
         \/ compose' \in {job.before, compose} /\ step' = "giveUp"
    BY <1>1 DEF Restore, Attempted, To, counters
<1>3. job.candidate.edits = job.before.edits
    BY <1>1 DEF RuntimeInv, CandidateOK, Composes
<1>4. TypeOK'
    BY <1>1, <1>2 DEF RuntimeInv, TypeOK
<1>5. WorkOK' /\ StepOK'
    BY <1>1, <1>2 DEF RuntimeInv, WorkOK, StepOK, Applying, Like, Effective
<1>6. EditsOK'
    BY <1>1, <1>2, <1>3 DEF RuntimeInv, EditsOK
<1> QED BY <1>1, <1>2, <1>4, <1>5, <1>6, TaskGoesOn

\* One command of the rollback, with what it needs and what the next one needs.
LEMMA CommandKept ==
    ASSUME RuntimeParameters, MaxSaveFailures = 0, RuntimeInv,
           NEW at \in {"recreate", "copy", "start", "update"},
           NEW next \in {"copy", "start", "verify"},
           NEW effect \in [db : Connections, mem : Memory, image : {Old, New},
                           binary : {Old, New}, up : BOOLEAN],
           Command(at, effect, next),
           next = "copy" => at = "recreate",
           next = "start" => at = "copy",
           next \in {"start", "verify"} => effect.binary = version,
           at = "update" => effect.binary = container.binary
    PROVE  RuntimeInv'
<1>1. /\ step = at /\ Applying /\ job.mutated /\ job # None /\ Like(job.before)
      /\ at # "update" => backup # None /\ job.restart
      /\ ~job.restart => container.binary = version
    BY DEF RuntimeInv, WorkOK, StepOK, Command, At, Applying
<1>2. /\ UNCHANGED <<compose, job, jobFile, backup, overlapped, version, edits, raced,
                     saveFailures>>
      /\ \/ container' = effect /\ step' = next
         \/ container' \in {container, effect} /\ step' = "giveUp"
    BY DEF Command, To, files, counters
<1>3. TypeOK'
    BY <1>2 DEF RuntimeInv, TypeOK
<1>4. ~job.restart => container'.binary = version
    BY <1>1, <1>2
<1>5. WorkOK' /\ StepOK'
    BY <1>1, <1>2, <1>4 DEF RuntimeInv, WorkOK, StepOK, Applying, Like
<1>6. EditsOK'
    BY <1>1, <1>2 DEF RuntimeInv, EditsOK
<1> QED BY <1>1, <1>2, <1>3, <1>5, <1>6, TaskGoesOn

LEMMA CommandsKept ==
    ASSUME RuntimeParameters, MaxSaveFailures = 0, RuntimeInv,
           Recreate \/ Copy \/ StartContainer \/ UpdateMemory
    PROVE  RuntimeInv'
<1>1. container \in [db : Connections, mem : Memory, image : {Old, New}, binary : {Old, New},
                     up : BOOLEAN]
    BY DEF RuntimeInv, TypeOK
<1>2. CASE Recreate
  <2> DEFINE effect == Made([job.before EXCEPT !.image = job.image], FALSE)
  <2>1. job.before \in Composes /\ job.image \in {Old, New}
    BY <1>2, JobTyped DEF RuntimeInv, StepOK, Recreate, Command, At, Applying
  <2>2. effect \in [db : Connections, mem : Memory, image : {Old, New}, binary : {Old, New},
                    up : BOOLEAN]
    BY <2>1 DEF Made, Composes
  <2>3. Command("recreate", effect, "copy")
    BY <1>2 DEF Recreate
  <2> HIDE DEF effect
  <2> QED BY <2>2, <2>3, CommandKept
<1>3. CASE Copy
  <2> DEFINE effect == [container EXCEPT !.binary = backup]
  <2>1. backup = version /\ backup \in {Old, New}
    BY <1>3 DEF RuntimeInv, TypeOK, WorkOK, StepOK, Copy, Command, At
  <2>2. /\ effect \in [db : Connections, mem : Memory, image : {Old, New}, binary : {Old, New},
                       up : BOOLEAN]
        /\ effect.binary = version
    BY <1>1, <2>1
  <2>3. Command("copy", effect, "start")
    BY <1>3 DEF Copy
  <2> HIDE DEF effect
  <2> QED BY <2>2, <2>3, CommandKept
<1>4. CASE StartContainer
  <2> DEFINE effect == [container EXCEPT !.up = TRUE]
  <2>1. container.binary = version
    BY <1>4 DEF RuntimeInv, StepOK, StartContainer, Command, At
  <2>2. /\ effect \in [db : Connections, mem : Memory, image : {Old, New}, binary : {Old, New},
                       up : BOOLEAN]
        /\ effect.binary = version
    BY <1>1, <2>1
  <2>3. Command("start", effect, "verify")
    BY <1>4 DEF StartContainer
  <2> HIDE DEF effect
  <2> QED BY <2>2, <2>3, CommandKept
<1>5. CASE UpdateMemory
  <2> DEFINE effect == [container EXCEPT !.mem = job.previous.mem]
  <2>1. container.binary = version /\ job.previous.mem \in Memory
    BY <1>5, JobTyped
    DEF RuntimeInv, WorkOK, StepOK, UpdateMemory, Command, At, Applying, Values
  <2>2. /\ effect \in [db : Connections, mem : Memory, image : {Old, New}, binary : {Old, New},
                       up : BOOLEAN]
        /\ effect.binary = version /\ effect.binary = container.binary
    BY <1>1, <2>1
  <2>3. Command("update", effect, "verify")
    BY <1>5 DEF UpdateMemory
  <2> HIDE DEF effect
  <2> QED BY <2>2, <2>3, CommandKept
<1> QED BY <1>2, <1>3, <1>4, <1>5

LEMMA VerifyKept ==
    ASSUME RuntimeParameters, MaxSaveFailures = 0, RuntimeInv, Verify
    PROVE  RuntimeInv'
<1>1. /\ step = "verify" /\ Applying /\ container.binary = version
      /\ Agrees(job.before, compose) /\ compose.image = job.before.image
    BY DEF RuntimeInv, StepOK, Verify, At, Like, Agrees
<1>2. UNCHANGED <<compose, container, backup, overlapped, version, edits, raced>>
    BY DEF Verify, counters
<1>3. CASE Effective = job.previous /\ Finish("rolled_back", "giveUp")
    BY <1>1, <1>2, <1>3, FinishKept
<1>4. CASE step' = "giveUp" /\ UNCHANGED <<job, jobFile, saveFailures>>
  <2>1. TypeOK'
    BY <1>2, <1>4 DEF RuntimeInv, TypeOK
  <2>2. WorkOK' /\ StepOK' /\ EditsOK'
    BY <1>1, <1>2, <1>4 DEF RuntimeInv, WorkOK, StepOK, EditsOK, Applying, Like, Effective
  <2> QED BY <1>1, <1>2, <1>4, <2>1, <2>2, TaskGoesOn
<1> QED BY <1>3, <1>4 DEF Verify, Restored, To

LEMMA GiveUpKept ==
    ASSUME RuntimeParameters, MaxSaveFailures = 0, RuntimeInv, GiveUp
    PROVE  RuntimeInv'
<1>1. Applying /\ Finish("rollback_failed", "idle")
    BY DEF RuntimeInv, StepOK, GiveUp, At
<1>2. UNCHANGED <<compose, container, backup, overlapped, version, edits, raced>>
    BY DEF GiveUp, counters
<1> QED BY <1>1, <1>2, FinishKept

----------------------------------------------------------------------------
(* The operator, the end and the recovery of the service.                   *)

LEMMA EditKept ==
    ASSUME RuntimeParameters, MaxSaveFailures = 0, RuntimeInv, Edit
    PROVE  RuntimeInv'
<1>1. /\ UNCHANGED <<container, job, jobFile, backup, step, overlapped, version, saveFailures>>
      /\ compose' = [compose EXCEPT !.edits = edits + 1]
      /\ edits' = edits + 1 /\ edits' \in 0..MaxEdits
      /\ raced' = (raced \/ step \in {"write", "restore"}) /\ compose \in Composes
    BY DEF RuntimeParameters, RuntimeInv, TypeOK, Edit
<1>2. /\ compose' \in Composes /\ compose'.edits = edits'
      /\ compose'.db = compose.db /\ compose'.mem = compose.mem
      /\ compose'.image = compose.image /\ compose'.dumped = compose.dumped
    BY <1>1 DEF Composes
<1>3. raced' \in BOOLEAN /\ (~raced' => ~raced /\ step \notin {"write", "restore"})
    BY <1>1
<1>4. TypeOK'
    BY <1>1, <1>2, <1>3 DEF RuntimeInv, TypeOK
<1>5. SavedOK' /\ CandidateOK'
    BY <1>1 DEF RuntimeInv, SavedOK, CandidateOK
<1>6. WorkOK' /\ StepOK'
    BY <1>1, <1>2 DEF RuntimeInv, WorkOK, StepOK, Applying, Like, Effective
<1>7. ResultOK' /\ EditsOK'
    BY <1>1, <1>2, <1>3 DEF RuntimeInv, ResultOK, EditsOK, Agrees, Effective
<1> QED BY <1>4, <1>5, <1>6, <1>7 DEF RuntimeInv

LEMMA CrashKept ==
    ASSUME RuntimeParameters, MaxSaveFailures = 0, RuntimeInv, Crash
    PROVE  RuntimeInv'
<1>1. /\ UNCHANGED <<compose, container, job, jobFile, backup, overlapped, version, edits,
                     raced, saveFailures>>
      /\ step' = "down"
    BY DEF Crash, To, files
<1>2. TypeOK'
    BY <1>1 DEF RuntimeInv, TypeOK
<1>3. SavedOK' /\ CandidateOK'
    BY <1>1 DEF RuntimeInv, SavedOK, CandidateOK
<1>4. WorkOK' /\ StepOK'
    BY <1>1 DEF RuntimeInv, WorkOK, StepOK, Applying, Like, Effective
<1>5. ResultOK' /\ EditsOK'
    BY <1>1 DEF RuntimeInv, ResultOK, EditsOK, Agrees, Effective
<1> QED BY <1>2, <1>3, <1>4, <1>5 DEF RuntimeInv

\* After a restart the task of job.json is rolled back, wherever it was cut off.
LEMMA RecoverKept ==
    ASSUME RuntimeParameters, MaxSaveFailures = 0, RuntimeInv, Recover
    PROVE  RuntimeInv'
<1>1. /\ UNCHANGED <<compose, container, job, jobFile, backup, overlapped, version, edits,
                     raced, saveFailures>>
      /\ step' = IF Applying THEN "rollback" ELSE "idle"
    BY DEF RuntimeInv, SavedOK, Recover, RecoverAt, Applying, To, files, counters
<1>2. TypeOK'
    BY <1>1 DEF RuntimeInv, TypeOK
<1>3. SavedOK' /\ CandidateOK'
    BY <1>1 DEF RuntimeInv, SavedOK, CandidateOK
<1>4. WorkOK' /\ StepOK'
    BY <1>1 DEF RuntimeInv, WorkOK, StepOK, Applying, Like, Effective
<1>5. ResultOK' /\ EditsOK'
    BY <1>1 DEF RuntimeInv, ResultOK, EditsOK, Agrees, Effective
<1> QED BY <1>2, <1>3, <1>4, <1>5 DEF RuntimeInv

----------------------------------------------------------------------------
(* The theorems.                                                            *)

LEMMA RuntimeInit ==
    ASSUME RuntimeParameters, Init
    PROVE  RuntimeInv
<1>1. TypeOK
  <2>1. 0 \in 0..MaxEdits
    BY DEF RuntimeParameters
  <2>2. compose \in [db : Connections, mem : Memory, image : {Old}, dumped : {FALSE},
                     edits : {0}]
    BY DEF Init
  <2>3. compose \in Composes
    BY <2>1, <2>2 DEF Composes
  <2>4. container \in [db : Connections, mem : Memory, image : {Old, New}, binary : {Old, New},
                       up : BOOLEAN]
    BY DEF Init
  <2> QED BY <2>1, <2>3, <2>4 DEF Init, TypeOK
<1>2. SavedOK /\ CandidateOK /\ WorkOK /\ StepOK /\ ResultOK /\ EditsOK
    BY DEF Init, SavedOK, CandidateOK, WorkOK, StepOK, ResultOK, EditsOK, Applying
<1> QED BY <1>1, <1>2 DEF RuntimeInv

LEMMA RuntimeStep ==
    ASSUME RuntimeParameters, MaxSaveFailures = 0, RuntimeInv, [Next]_vars
    PROVE  RuntimeInv'
<1>1. CASE UNCHANGED vars
  <2>1. UNCHANGED <<compose, container, job, jobFile, backup, step, overlapped, version, edits,
                    raced, saveFailures>>
    BY <1>1 DEF vars, files, counters
  <2>2. TypeOK'
    BY <2>1 DEF RuntimeInv, TypeOK
  <2>3. SavedOK' /\ CandidateOK'
    BY <2>1 DEF RuntimeInv, SavedOK, CandidateOK
  <2>4. WorkOK' /\ StepOK'
    BY <2>1 DEF RuntimeInv, WorkOK, StepOK, Applying, Like, Effective
  <2>5. ResultOK' /\ EditsOK'
    BY <2>1 DEF RuntimeInv, ResultOK, EditsOK, Agrees, Effective
  <2> QED BY <2>2, <2>3, <2>4, <2>5 DEF RuntimeInv
<1>2. CASE \E target \in Values : Start(target)
    BY <1>2, StartKept
<1>3. CASE ApplyStep
    BY <1>3, PrepareKept, CheckKept, WriteKept, ApplyContainerKept, HealthKept DEF ApplyStep
<1>4. CASE RollbackStep
    BY <1>4, RollbackKept, RestoreKept, CommandsKept, VerifyKept, GiveUpKept DEF RollbackStep
<1>5. CASE Edit \/ Crash \/ Recover
    BY <1>5, EditKept, CrashKept, RecoverKept
<1> QED BY <1>1, <1>2, <1>3, <1>4, <1>5 DEF Next

LEMMA RuntimeInvariant ==
    ASSUME RuntimeParameters, MaxSaveFailures = 0
    PROVE  Spec => []RuntimeInv
<1>1. Init => RuntimeInv
    BY RuntimeInit
<1>2. RuntimeInv /\ [Next]_vars => RuntimeInv'
    BY RuntimeStep
<1> QED BY <1>1, <1>2, PTL DEF Spec

\* The files, the container and the task of the controller have their types
\* (controller.py: Controller), however many tasks, edits, failed commands and
\* crashes there are.
THEOREM RuntimeTyped ==
    ASSUME RuntimeParameters, MaxSaveFailures = 0
    PROVE  Spec => []TypeOK
<1>1. RuntimeInv => TypeOK
    BY DEF RuntimeInv
<1> QED BY <1>1, RuntimeInvariant, PTL

\* The result that the page shows is what happened (controller.py: apply,
\* rollback, recover): "succeeded" with both values in the file and in force,
\* "rolled_back" and "failed" with everything as it was, whichever step failed
\* or was cut off by a restart.
THEOREM ResultShown ==
    ASSUME RuntimeParameters, MaxSaveFailures = 0
    PROVE  Spec => []ResultIsTrue
<1>1. RuntimeInv => ResultIsTrue
    BY DEF RuntimeInv, ResultOK, ResultIsTrue
<1> QED BY <1>1, RuntimeInvariant, PTL

\* Whatever a task did to the container, at its end it runs the version that
\* ran when the task was accepted, unless its rollback failed (controller.py:
\* apply, rollback).
THEOREM VersionStays ==
    ASSUME RuntimeParameters, MaxSaveFailures = 0
    PROVE  Spec => []VersionKept
<1>1. RuntimeInv => VersionKept
    BY DEF RuntimeInv, ResultOK, VersionKept
<1> QED BY <1>1, RuntimeInvariant, PTL

\* No task loses an edit of the operator that did not come between the check of
\* the file and its replacement (controller.py: apply, rollback).
THEOREM EditsStay ==
    ASSUME RuntimeParameters, MaxSaveFailures = 0
    PROVE  Spec => []EditsKept
<1>1. RuntimeInv => EditsKept
    BY DEF RuntimeInv, EditsOK, EditsKept
<1> QED BY <1>1, RuntimeInvariant, PTL

\* All of this at once: the result that is shown is what happened, the version
\* stays and the operator's edits are kept (controller.py; docs 004).
THEOREM TasksAreHonest ==
    ASSUME RuntimeParameters, MaxSaveFailures = 0
    PROVE  Spec => []TasksHonest
<1>1. ResultIsTrue /\ VersionKept /\ EditsKept => TasksHonest
    BY DEF TasksHonest
<1> QED BY <1>1, ResultShown, VersionStays, EditsStay, PTL
=============================================================================
