----------------------------- MODULE PromptAudit -----------------------------
(***************************************************************************)
(* The writing side of the prompt audit: the capture routes, the queue of   *)
(* PromptAuditService, and the transactions of PromptAuditRepository with   *)
(* the image files of PromptMediaStore, which no transaction covers.        *)
(*                                                                          *)
(* A record's id is <<prompt, attempt>>: ids of rolled back inserts are not *)
(* used again.  A row and its images' rows are committed together.  The     *)
(* database is PostgreSQL at READ COMMITTED: a statement sees what was      *)
(* committed before it, waits for rows that another transaction has locked  *)
(* or inserted, and NOW() is the start of the transaction.                  *)
(***************************************************************************)
EXTENDS Integers, Sequences, FiniteSetsExt

CONSTANTS
    Prompts,
    Mirrored,       \* captured over HTTP: queued in memory, never sent again
    CapturedAt,     \* day of each prompt
    Images,         \* number of its images
    Bytes,          \* promptBytes
    Risky,          \* prompts that the moderation flags
    Deleters,       \* concurrent calls of deleteRecords
    Retentions,     \* pairs of normal and risk retention days to choose from
    MaxQueueSize, MaxQueueBytes, Writers,
    None,
    MaxAttempts,    \* bound on requests for one prompt of a WebSocket
    MaxDay, MaxPurges, MaxFailures, MaxCrashes  \* bounds

AuditParameters ==
    /\ Mirrored \subseteq Prompts /\ Risky \subseteq Prompts
    /\ CapturedAt \in [Prompts -> Nat] /\ Images \in [Prompts -> Nat]
    /\ Bytes \in [Prompts -> Nat]
    /\ Retentions # {} /\ Retentions \subseteq Nat \X Nat
    /\ \A r \in Retentions : 1 <= r[1] /\ r[1] <= r[2]
    /\ MaxQueueSize \in Nat /\ MaxQueueBytes \in Nat /\ Writers \in Nat \ {0}
    /\ MaxAttempts \in Nat \ {0}
    /\ MaxDay \in Nat /\ MaxPurges \in Nat /\ MaxFailures \in Nat /\ MaxCrashes \in Nat

VARIABLES
    queue, queuedBytes, activeWriters,  \* PromptAuditService
    step,           \* of each insert
    draft,          \* expiry of the row that an open transaction inserted
    rows,           \* committed rows of prompt_records
    files,          \* image files
    logged,         \* prompts with a row in content_moderation_logs
    acknowledged,   \* prompts whose storing request was answered with 201
    deleter,        \* transaction of each running deleteRecords
    retention,      \* normal and risk retention days, and whether to apply them
    purgeBefore,
    erased,         \* prompts captured before a committed purge
    deleted,        \* prompts whose row was deleted
    unlinked,       \* history: rows whose files a deletion has begun to remove
    now, purges, failures, crashes

queueVars == <<queue, queuedBytes, activeWriters>>
insertVars == <<step, draft, acknowledged>>
deleteVars == <<deleter, purgeBefore, erased, deleted, unlinked, purges>>
vars == <<queueVars, insertVars, deleteVars, rows, files, logged, retention,
          now, failures, crashes>>

Ids == Prompts \X (1..MaxAttempts)
Prompt(id) == id[1]
Statuses == {"pending", "not_required", "clear", "flagged"}
NoneIsNoRow == None \notin Nat \cup [expires : Nat, status : Statuses]

Idle == [step |-> "idle", purge |-> FALSE, before |-> 0, chosen |-> {}]

RecordsTyped ==
    /\ queue \in Seq(Mirrored) /\ activeWriters \in 0..Writers
    /\ step \in [Ids -> {"none", "begin", "files", "commit", "undo", "done", "failed"}]
    /\ draft \in [Ids -> Nat \cup {None}]
    /\ rows \in [Ids -> [expires : Nat, status : Statuses] \cup {None}]
    /\ files \subseteq Ids \X Nat /\ logged \subseteq Prompts
    /\ acknowledged \subseteq Prompts
    /\ erased \subseteq Prompts /\ deleted \subseteq Prompts /\ unlinked \subseteq Ids
    /\ deleter \in [Deleters -> [step : {"idle", "unlink", "delete"}, purge : BOOLEAN,
                                 before : 0..MaxDay, chosen : SUBSET Ids]]
    /\ retention \in [days : Retentions, apply : BOOLEAN]
    /\ purgeBefore \in 0..MaxDay /\ now \in 0..MaxDay
    /\ purges \in 0..MaxPurges /\ failures \in 0..MaxFailures /\ crashes \in 0..MaxCrashes
TypeOK == queuedBytes \in Nat /\ RecordsTyped

Init ==
    /\ queue = <<>> /\ queuedBytes = 0 /\ activeWriters = 0
    /\ step = [id \in Ids |-> "none"] /\ draft = [id \in Ids |-> None]
    /\ rows = [id \in Ids |-> None] /\ files = {} /\ logged = {}
    /\ acknowledged = {} /\ erased = {} /\ deleted = {} /\ unlinked = {}
    /\ deleter = [d \in Deleters |-> Idle]
    /\ retention \in [days : Retentions, apply : {FALSE}]
    /\ purgeBefore = 0 /\ now = 0
    /\ purges = 0 /\ failures = 0 /\ crashes = 0

Fail == failures < MaxFailures /\ failures' = failures + 1

----------------------------------------------------------------------------
(* The queue.                                                               *)

\* The bytes of the prompts of q: <<i, k>> is the k-th of the i-th prompt.
TotalBytes(q) == Cardinality(UNION {{i} \X (1..Bytes[q[i]]) : i \in DOMAIN q})
MinOf(a, b) == IF a < b THEN a ELSE b

Taken(q, active) == MinOf(Len(q), Writers - active)

\* drain: writers take prompts from the front of q as long as some are free.
Drain(q, active) ==
    LET n == Taken(q, active)
    IN  /\ queue' = SubSeq(q, n + 1, Len(q))
        /\ activeWriters' = active + n

Started(q, active) ==
    {<<q[i], 1>> : i \in 1..Taken(q, active)}

\* shift subtracts the bytes of each prompt a writer takes.
BytesLeft(q, active) ==
    TotalBytes(SubSeq(q, Taken(q, active) + 1, Len(q)))

New(p) == CapturedAt[p] <= now /\ \A k \in 1..MaxAttempts : step[<<p, k>>] = "none"

Enqueue(p) ==
    /\ p \in Mirrored /\ New(p)
    /\ \A i \in DOMAIN queue : queue[i] # p
    /\ Len(queue) < MaxQueueSize /\ queuedBytes + Bytes[p] <= MaxQueueBytes
    /\ LET q == Append(queue, p)
       IN  /\ Drain(q, activeWriters)
           /\ queuedBytes' = BytesLeft(q, activeWriters)
           /\ step' = [id \in Ids |-> IF id \in Started(q, activeWriters) THEN "begin" ELSE step[id]]
    /\ UNCHANGED <<draft, acknowledged, deleteVars, rows, files, logged,
                   retention, now, failures, crashes>>

Answered(result) == result = "done"

\* An insert ends: its writer is free for the next prompt, or the request of
\* a WebSocket's message is answered.
End(id, result) ==
    LET p == Prompt(id)
        active == IF p \in Mirrored THEN activeWriters - 1 ELSE activeWriters
        next == IF p \in Mirrored THEN Started(queue, active) ELSE {}
    IN  /\ step' = [i \in Ids |-> IF i = id THEN result
                                  ELSE IF i \in next THEN "begin" ELSE step[i]]
        /\ draft' = [draft EXCEPT ![id] = None]
        /\ IF p \in Mirrored
           THEN /\ Drain(queue, active) /\ queuedBytes' = BytesLeft(queue, active)
                /\ UNCHANGED acknowledged
           ELSE /\ UNCHANGED queueVars
                /\ acknowledged' = IF Answered(result) THEN acknowledged \cup {p} ELSE acknowledged

\* POST /internal/prompts/capture/ws: the outbox sends a message until one
\* request is answered; an earlier one may still be at work.
Store(p) ==
    /\ p \notin Mirrored /\ p \notin acknowledged /\ CapturedAt[p] <= now
    /\ \E k \in 1..MaxAttempts :
          /\ step[<<p, k>>] = "none"
          /\ \A i \in 1..(k - 1) : step[<<p, i>>] # "none"
          /\ step' = [step EXCEPT ![<<p, k>>] = "begin"]
    /\ UNCHANGED <<queueVars, draft, acknowledged, deleteVars, rows, files,
                   logged, retention, now, failures, crashes>>

----------------------------------------------------------------------------
(* One insert.                                                              *)

\* Transactions that inserted the request id are waited for, then the
\* conflict decides.
Open(p) == \E k \in 1..MaxAttempts : draft[<<p, k>>] # None
Exists(p) == \E k \in 1..MaxAttempts : rows[<<p, k>>] # None

InsertRow(id) ==
    /\ step[id] = "begin" /\ ~Open(Prompt(id))
    /\ \/ /\ Exists(Prompt(id))
          /\ step' = [step EXCEPT ![id] = "commit"]
          /\ UNCHANGED draft
       \/ /\ ~Exists(Prompt(id))
          /\ draft' = [draft EXCEPT ![id] = CapturedAt[Prompt(id)] + retention.days[1]]
          /\ step' = [step EXCEPT ![id] = IF Images[Prompt(id)] = 0 THEN "commit" ELSE "files"]
    /\ UNCHANGED <<queueVars, acknowledged, deleteVars, rows, files, logged,
                   retention, now, failures, crashes>>

FailInsert(id) ==
    /\ step[id] = "begin" /\ End(id, "failed") /\ Fail
    /\ UNCHANGED <<deleteVars, rows, files, logged, retention, now, crashes>>

FilesOf(id) == {f \in files : f[1] = id}

WriteImage(id) ==
    /\ step[id] = "files"
    /\ LET n == Cardinality(FilesOf(id)) + 1
       IN  /\ files' = files \cup {<<id, n>>}
           /\ step' = IF n = Images[Prompt(id)] THEN [step EXCEPT ![id] = "commit"] ELSE step
    /\ UNCHANGED <<queueVars, draft, acknowledged, deleteVars, rows, logged,
                   retention, now, failures, crashes>>

\* The catch of persist: the images stored so far.
StoredSoFar(id) == FilesOf(id)

FailImage(id) ==
    /\ step[id] = "files"
    /\ files' = files \ StoredSoFar(id)
    /\ End(id, "failed") /\ Fail
    /\ UNCHANGED <<deleteVars, rows, logged, retention, now, crashes>>

Row(p, expires) ==
    [expires |-> expires, status |-> IF p \in Risky THEN "pending" ELSE "not_required"]

Commit(id) ==
    /\ step[id] = "commit"
    /\ rows' = IF draft[id] = None THEN rows
               ELSE [rows EXCEPT ![id] = Row(Prompt(id), draft[id])]
    /\ End(id, "done")
    /\ UNCHANGED <<deleteVars, files, logged, retention, now, failures, crashes>>

\* The rows of the images or the commit fail; the rows may be committed
\* although the answer was lost.
FailCommit(id) ==
    /\ step[id] = "commit"
    /\ \/ UNCHANGED rows
       \/ draft[id] # None /\ rows' = [rows EXCEPT ![id] = Row(Prompt(id), draft[id])]
    /\ step' = [step EXCEPT ![id] = "undo"] /\ draft' = [draft EXCEPT ![id] = None]
    /\ Fail
    /\ UNCHANGED <<queueVars, acknowledged, deleteVars, files, logged,
                   retention, now, crashes>>

\* The catch of insert removes the files, if it can.
Undo(id) ==
    /\ step[id] = "undo"
    /\ End(id, "failed")
    /\ \/ files' = files \ FilesOf(id) /\ UNCHANGED failures
       \/ FilesOf(id) # {} /\ UNCHANGED files /\ Fail
    /\ UNCHANGED <<deleteVars, rows, logged, retention, now, crashes>>

----------------------------------------------------------------------------
(* deleteRecords: cleanup and purge.                                        *)

Days(status) == IF status = "flagged" THEN retention.days[2] ELSE retention.days[1]

Meets(id, t) ==
    /\ rows[id] # None
    /\ IF t.purge THEN CapturedAt[Prompt(id)] < t.before ELSE rows[id].expires < t.before

Matching(t) == {id \in Ids : Meets(id, t)}

Chosen(ds) == UNION {deleter[d].chosen : d \in ds}

\* Mutant: a SELECT that locks nothing.
NoneLocked(ds) == {}

\* Rows that the SELECT ... FOR UPDATE of these calls has locked.
Locked(ds) == Chosen(ds)

Select(d, t) ==
    /\ deleter[d].step = "idle"
    /\ LET chosen == {id \in Matching(t) : Images[Prompt(id)] > 0}
       IN  /\ chosen \cap Locked(Deleters) = {}
           /\ deleter' = [deleter EXCEPT ![d] =
                            [t EXCEPT !.step = "unlink", !.chosen = chosen]]
    /\ UNCHANGED <<queueVars, insertVars, purgeBefore, erased, deleted, unlinked, rows,
                   files, logged, retention, now, failures, crashes>>

Cleanup(d) ==
    /\ Select(d, [Idle EXCEPT !.before = now])
    /\ UNCHANGED purges

Purge(d, before) ==
    /\ before <= now /\ purges < MaxPurges /\ purges' = purges + 1
    /\ Select(d, [Idle EXCEPT !.purge = TRUE, !.before = before])

FilesOfRows(ids) == {f \in files : f[1] \in ids}

\* remove ignores ENOENT.
Removable(ids) == TRUE

Unlink(d) ==
    /\ deleter[d].step = "unlink"
    /\ unlinked' = unlinked \cup deleter[d].chosen
    /\ LET chosen == deleter[d].chosen
       IN  \/ /\ Removable(chosen)
              /\ files' = files \ FilesOfRows(chosen)
              /\ deleter' = [deleter EXCEPT ![d].step = "delete"]
              /\ UNCHANGED failures
           \/ /\ ~Removable(chosen) /\ UNCHANGED <<files, failures>>
              /\ deleter' = [deleter EXCEPT ![d] = Idle]
           \/ /\ Fail
              /\ \E gone \in SUBSET FilesOfRows(chosen) : files' = files \ gone
              /\ deleter' = [deleter EXCEPT ![d] = Idle]
    /\ UNCHANGED <<queueVars, insertVars, purgeBefore, erased, deleted, purges, rows,
                   logged, retention, now, crashes>>

\* Mutant: the boundary of the last purge wins.
LastBoundary(t) == IF t.purge THEN t.before ELSE purgeBefore

Boundary(t) == IF t.purge /\ t.before > purgeBefore THEN t.before ELSE purgeBefore

\* The DELETE of the rows that match now, and the commit.
CommitDelete(d) ==
    /\ deleter[d].step = "delete"
    /\ LET t == deleter[d]
       IN  /\ Matching(t) \cap Locked(Deleters \ {d}) = {}
           /\ rows' = [id \in Ids |-> IF id \in Matching(t) THEN None ELSE rows[id]]
           /\ deleted' = deleted \cup {Prompt(id) : id \in Matching(t)}
           /\ unlinked' = unlinked \ Matching(t)
           /\ purgeBefore' = Boundary(t)
           /\ erased' = IF t.purge THEN erased \cup {p \in Prompts : CapturedAt[p] < t.before}
                        ELSE erased
    /\ deleter' = [deleter EXCEPT ![d] = Idle]
    /\ UNCHANGED <<queueVars, insertVars, purges, files, logged, retention,
                   now, failures, crashes>>

\* A failed statement or commit, or a wait past statement_timeout.
FailDelete(d) ==
    /\ deleter[d].step = "delete"
    /\ Fail
    /\ deleter' = [deleter EXCEPT ![d] = Idle]
    /\ UNCHANGED <<queueVars, insertVars, purgeBefore, erased, deleted, unlinked, purges,
                   rows, files, logged, retention, now, crashes>>

----------------------------------------------------------------------------
(* Single statements on the rows.                                           *)

\* Writing a locked row waits for the transaction that locked it.
Unlocked(ids) == ids \cap Locked(Deleters) = {}

\* PUT /config sets the days first, then applies them.
ConfigureRetention(days) ==
    /\ ~retention.apply /\ days # retention.days
    /\ retention' = [days |-> days, apply |-> TRUE]
    /\ UNCHANGED <<queueVars, insertVars, deleteVars, rows, files, logged, now,
                   failures, crashes>>

Expiry(id) == CapturedAt[Prompt(id)] + Days(rows[id].status)
Outdated == {id \in Ids : rows[id] # None /\ rows[id].expires # Expiry(id)}

ApplyConfiguredRetention ==
    /\ retention.apply
    /\ Unlocked(Outdated)
    /\ rows' = [id \in Ids |-> IF id \in Outdated THEN [rows[id] EXCEPT !.expires = Expiry(id)]
                               ELSE rows[id]]
    /\ retention' = [retention EXCEPT !.apply = FALSE]
    /\ UNCHANGED <<queueVars, insertVars, deleteVars, files, logged, now,
                   failures, crashes>>

Visible(id) ==
    /\ rows[id] # None /\ rows[id].expires > now
    /\ CapturedAt[Prompt(id)] >= purgeBefore

\* The moderation of the gateway writes its log at its own time.
Moderate(p) ==
    /\ p \in Risky \ logged /\ CapturedAt[p] <= now
    /\ logged' = logged \cup {p}
    /\ UNCHANGED <<queueVars, insertVars, deleteVars, rows, files, retention,
                   now, failures, crashes>>

Enrich ==
    LET matched == {id \in Ids : Visible(id) /\ rows[id].status = "pending" /\ Prompt(id) \in logged}
    IN  /\ matched # {} /\ Unlocked(matched)
        /\ rows' = [id \in Ids |->
                      IF id \in matched
                      THEN [status |-> "flagged", expires |-> CapturedAt[Prompt(id)] + Days("flagged")]
                      ELSE rows[id]]
        /\ UNCHANGED <<queueVars, insertVars, deleteVars, files, logged,
                       retention, now, failures, crashes>>

Tick ==
    /\ now < MaxDay /\ now' = now + 1
    /\ UNCHANGED <<queueVars, insertVars, deleteVars, rows, files, logged,
                   retention, failures, crashes>>

\* Open transactions are rolled back and the queue is lost; a start applies
\* the retention before anything else.
Crash ==
    /\ crashes < MaxCrashes /\ crashes' = crashes + 1
    /\ queue' = <<>> /\ queuedBytes' = 0 /\ activeWriters' = 0
    /\ step' = [id \in Ids |-> IF step[id] \in {"none", "done"} THEN step[id] ELSE "failed"]
    /\ draft' = [id \in Ids |-> None]
    /\ deleter' = [d \in Deleters |-> Idle]
    /\ retention' = [retention EXCEPT !.apply = TRUE]
    /\ UNCHANGED <<acknowledged, purgeBefore, erased, deleted, unlinked, purges, rows,
                   files, logged, now, failures>>

InsertStep(id) ==
    \/ InsertRow(id) \/ FailInsert(id) \/ WriteImage(id) \/ FailImage(id)
    \/ Commit(id) \/ FailCommit(id) \/ Undo(id)

DeleteStep(d) == Cleanup(d) \/ Unlink(d) \/ CommitDelete(d) \/ FailDelete(d)

Next ==
    \/ \E p \in Prompts : Enqueue(p) \/ Store(p) \/ Moderate(p)
    \/ \E id \in Ids : InsertStep(id)
    \/ \E d \in Deleters : DeleteStep(d) \/ \E before \in 0..MaxDay : Purge(d, before)
    \/ \E days \in Retentions : ConfigureRetention(days)
    \/ ApplyConfiguredRetention \/ Enrich \/ Tick \/ Crash

Spec == Init /\ [][Next]_vars

\* Inserts go on, a cleanup starts again and again and goes on, retention is
\* applied, days pass.
FairSpec ==
    /\ Spec
    /\ \A id \in Ids : WF_vars(InsertStep(id))
    /\ \A d \in Deleters : WF_vars(DeleteStep(d))
    /\ WF_vars(ApplyConfiguredRetention) /\ WF_vars(Tick)

----------------------------------------------------------------------------
(* Properties.                                                              *)

Running == {"begin", "files", "commit", "undo"}
AtWork == {id \in Ids : Prompt(id) \in Mirrored /\ step[id] \in Running}

\* The queue's counters are those of the prompts in it and of the running
\* inserts, so the limits neither leak nor starve (service.ts:45-73).
BytesCounted == queuedBytes = TotalBytes(queue) /\ queuedBytes <= MaxQueueBytes
WritersCounted ==
    /\ activeWriters = Cardinality(AtWork)
    /\ activeWriters < Writers => queue = <<>>
    /\ Len(queue) <= MaxQueueSize
QueueCounted == BytesCounted /\ WritersCounted

\* The 201 that lets the outbox remove a message means that its row was
\* committed, by this request or an earlier one; only a deletion takes it.
AcknowledgedIsRecorded == \A p \in acknowledged : Exists(p) \/ p \in deleted

\* A prompt is never recorded twice, however often the outbox sends it and
\* however late an earlier request goes on.
RecordedOnce ==
    \A i, j \in Ids : Prompt(i) = Prompt(j) /\ rows[i] # None /\ rows[j] # None => i = j

\* An insert that failed leaves no image behind, whichever image, statement
\* or commit failed.
FailedInsertLeavesNoFile ==
    \A id \in Ids : step[id] = "failed" => FilesOf(id) = {}

\* A listed record has all its images until a deletion begins to remove them,
\* whatever other inserts and deletions fail.  The row of an insert that failed
\* is left out: when only the answer to its commit was lost, the catch removes
\* the files of the row that is there.
ImagesKept ==
    \A id \in Ids : Visible(id) /\ step[id] = "done" /\ id \notin unlinked =>
        Cardinality(FilesOf(id)) = Images[Prompt(id)]

\* While nothing fails, a listed record has all its images, unless it is just
\* being deleted.
ImagesReadable ==
    \A id \in Ids : Visible(id) /\ id \notin Chosen(Deleters) =>
        Cardinality(FilesOf(id)) = Images[Prompt(id)]

\* What a purge covered is never listed again, also when the outbox delivers
\* it later or purges overtake each other.
PurgedStaysHidden == \A id \in Ids : Visible(id) => Prompt(id) \notin erased

Expired(id) == rows[id] # None /\ rows[id].expires < now

\* No record stays expired: it is deleted in the end, also after a deletion
\* that failed with some of its files gone.
ExpiredIsDeleted == \A id \in Ids : []<>~Expired(id)
=============================================================================
