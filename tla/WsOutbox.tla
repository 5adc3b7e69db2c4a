------------------------------ MODULE WsOutbox ------------------------------
(***************************************************************************)
(* The audit outbox of the WebSocket relay and its delivery to the capture  *)
(* endpoint (ws-relay/outbox.ts).  A message is one file of the outbox      *)
(* directory.  Writes and removals pass through one queue of operations;    *)
(* one drain at a time posts the stored files and removes the acknowledged  *)
(* ones.  The process may end at any step and start again, alone or with    *)
(* its host; the host forgets changes of the directory that no sync wrote.  *)
(*                                                                          *)
(* Left out: temporary files (no operation looks at them) and the length of *)
(* the retry delay.  A stop is a process that ends.  The order of capture   *)
(* in which a drain takes its files is left open.                           *)
(***************************************************************************)
EXTENDS Integers, Sequences, FiniteSetsExt

CONSTANTS
    Messages,       \* ids of captured messages
    Skipped,        \* those the endpoint acknowledges without a record
    Size,           \* bytes of each message's file
    MaximumBytes,   \* WS_AUDIT_OUTBOX_MAX_BYTES
    SyncFails,      \* may the sync of the directory fail
    None,
    MaxFailures,    \* bound on failed calls
    MaxCrashes      \* bound on ends of the process

ASSUME CaptureParameters ==
    /\ Skipped \subseteq Messages /\ None \notin Messages
    /\ Size \in [Messages -> Nat \ {0}]
    /\ MaximumBytes \in Nat /\ SyncFails \in BOOLEAN
    /\ MaxFailures \in Nat /\ MaxCrashes \in Nat

VARIABLES
    files,          \* capture files in the directory
    disk,           \* capture files that a crash of the host leaves
    bytes,          \* WsAuditOutbox.bytes
    operations,     \* queued and running calls of serialized
    renamed,        \* has the running persist renamed its file
    promise,        \* what each call of persist came to
    timer,          \* WsAuditDelivery.timer
    draining,       \* step of the running drain
    wakeRequested,
    batch,          \* entries that the running drain has still to deliver
    posted,         \* message of the request in flight
    answer,         \* its answer
    late,           \* requests given up by the client, still at the endpoint
    recorded,       \* rows of each message
    failures, crashes

outboxVars == <<files, disk, bytes, operations, renamed, promise>>
deliveryVars == <<timer, draining, wakeRequested, batch, posted, answer>>
endpointVars == <<late, recorded>>
wsVars == <<outboxVars, deliveryVars, endpointVars, failures, crashes>>

Operation == [kind : {"persist", "remove"}, message : Messages]

OutboxTypeOK ==
    /\ files \subseteq Messages /\ disk \subseteq Messages
    /\ bytes \in Nat
    /\ operations \in Seq(Operation)
    /\ renamed \in BOOLEAN
    /\ promise \in [Messages -> {"none", "waiting", "stored", "refused"}]
    /\ timer \in {"none", "wake", "retry"}
    /\ draining \in {"idle", "list", "deliver", "posted", "remove"}
    /\ wakeRequested \in BOOLEAN
    /\ batch \subseteq Messages /\ late \subseteq Messages
    /\ posted \in Messages \cup {None}
    /\ answer \in {"none", "ok", "no"}
    /\ recorded \in [Messages -> Nat]
    /\ failures \in 0..MaxFailures /\ crashes \in 0..MaxCrashes

OutboxInit ==
    /\ files = {} /\ disk = {} /\ bytes = 0
    /\ operations = <<>> /\ renamed = FALSE
    /\ promise = [m \in Messages |-> "none"]
    /\ timer = "wake" /\ draining = "idle" /\ wakeRequested = FALSE
    /\ batch = {} /\ posted = None /\ answer = "none"
    /\ late = {} /\ recorded = [m \in Messages |-> 0]
    /\ failures = 0 /\ crashes = 0

\* The bytes of files: <<m, k>> is the k-th of message m.
SizeOf(ms) == Cardinality(UNION {{m} \X (1..Size[m]) : m \in ms})

\* One more call fails.
Fail == failures < MaxFailures /\ failures' = failures + 1

----------------------------------------------------------------------------
(* The queue of operations.                                                 *)

Running(kind) == operations # <<>> /\ Head(operations).kind = kind

Persist(m) ==
    /\ operations' = Append(operations, [kind |-> "persist", message |-> m])
    /\ promise' = [promise EXCEPT ![m] = "waiting"]

Settle(m, result) ==
    /\ operations' = Tail(operations)
    /\ renamed' = FALSE
    /\ promise' = [promise EXCEPT ![m] = result]

\* The file is written, synced and renamed into place.
RenameCapture ==
    /\ Running("persist") /\ ~renamed
    /\ LET m == Head(operations).message
       IN  /\ bytes + Size[m] <= MaximumBytes
           /\ files' = files \cup {m}
    /\ renamed' = TRUE
    /\ UNCHANGED <<disk, bytes, operations, promise, deliveryVars, endpointVars,
                   failures, crashes>>

\* The limit is reached, or writing the file fails.
RefuseCapture ==
    /\ Running("persist") /\ ~renamed
    /\ LET m == Head(operations).message
       IN  /\ Settle(m, "refused")
           /\ \/ bytes + Size[m] > MaximumBytes /\ UNCHANGED failures
              \/ bytes + Size[m] <= MaximumBytes /\ Fail
    /\ UNCHANGED <<files, disk, bytes, deliveryVars, endpointVars, crashes>>

\* Mutant: rename without the sync of the directory.
RenameOnly == UNCHANGED disk

SyncDirectory == disk' = files

SyncCapture ==
    /\ Running("persist") /\ renamed
    /\ LET m == Head(operations).message
       IN  Settle(m, "stored") /\ bytes' = bytes + Size[m]
    /\ SyncDirectory
    /\ UNCHANGED <<files, deliveryVars, endpointVars, failures, crashes>>

\* The directory cannot be synced: the caller is refused, the file stays.
FailSync ==
    /\ SyncFails
    /\ Running("persist") /\ renamed
    /\ Settle(Head(operations).message, "refused")
    /\ Fail
    /\ UNCHANGED <<files, disk, bytes, deliveryVars, endpointVars, crashes>>

----------------------------------------------------------------------------
(* Delivery.                                                                *)

\* Mutant: a wake during a drain is dropped.
WakeWhenIdle ==
    /\ timer' = IF draining = "idle" THEN "wake" ELSE timer
    /\ UNCHANGED wakeRequested

Wake ==
    IF draining = "idle"
    THEN timer' = "wake" /\ UNCHANGED wakeRequested
    ELSE wakeRequested' = TRUE /\ UNCHANGED timer

\* The drain ends, with a retry after a failure; a wake meanwhile comes first.
EndDrain(failed) ==
    /\ draining' = "idle" /\ wakeRequested' = FALSE
    /\ timer' = IF wakeRequested THEN "wake"
                ELSE IF failed THEN "retry" ELSE "none"
    /\ batch' = {} /\ posted' = None /\ answer' = "none"

RetryTimer ==
    /\ timer = "retry"
    /\ Wake
    /\ UNCHANGED <<outboxVars, draining, batch, posted, answer, endpointVars,
                   failures, crashes>>

StartDrain ==
    /\ timer = "wake"
    /\ timer' = "none" /\ draining' = "list"
    /\ UNCHANGED <<outboxVars, wakeRequested, batch, posted, answer,
                   endpointVars, failures, crashes>>

Entries ==
    /\ draining = "list"
    /\ batch' = files /\ draining' = "deliver"
    /\ UNCHANGED <<outboxVars, timer, wakeRequested, posted, answer,
                   endpointVars, failures, crashes>>

FailEntries ==
    /\ draining = "list"
    /\ EndDrain(TRUE) /\ Fail
    /\ UNCHANGED <<outboxVars, endpointVars, crashes>>

FinishDrain ==
    /\ draining = "deliver" /\ batch = {}
    /\ EndDrain(FALSE)
    /\ UNCHANGED <<outboxVars, endpointVars, failures, crashes>>

Deliver(m) ==
    /\ draining = "deliver" /\ m \in batch
    /\ draining' = "posted" /\ posted' = m /\ answer' = "none"
    /\ batch' = batch \ {m}
    /\ UNCHANGED <<outboxVars, timer, wakeRequested, endpointVars,
                   failures, crashes>>

\* A negative answer ends the drain.  So does a request that gets none in
\* time; the endpoint may still work on it.
Undelivered ==
    /\ draining = "posted" /\ answer # "ok"
    /\ late' = IF answer = "none" THEN late \cup {posted} ELSE late
    /\ IF answer = "none" THEN Fail ELSE UNCHANGED failures
    /\ EndDrain(TRUE)
    /\ UNCHANGED <<outboxVars, recorded, crashes>>

\* A positive answer is lost on its way.
LoseAnswer ==
    /\ draining = "posted" /\ answer = "ok"
    /\ EndDrain(TRUE) /\ Fail
    /\ UNCHANGED <<outboxVars, endpointVars, crashes>>

\* Mutant: any answer acknowledges the message.
AnyAnswer == draining = "posted" /\ answer # "none"

PositiveAnswer == draining = "posted" /\ answer = "ok"

Acknowledged ==
    /\ PositiveAnswer
    /\ operations' = Append(operations, [kind |-> "remove", message |-> posted])
    /\ draining' = "remove"
    /\ UNCHANGED <<files, disk, bytes, renamed, promise, timer, wakeRequested,
                   batch, posted, answer, endpointVars, failures, crashes>>

\* Mutants: below zero for a file that was never counted; never freed.
Subtracted(freed) == bytes - freed

BytesLeft(freed) == IF bytes < freed THEN 0 ELSE bytes - freed

RemoveCapture ==
    /\ Running("remove")
    /\ LET m == Head(operations).message
           freed == IF m \in files THEN Size[m] ELSE 0
       IN  /\ files' = files \ {m}
           /\ bytes' = BytesLeft(freed)
    /\ operations' = Tail(operations)
    /\ draining' = "deliver" /\ posted' = None /\ answer' = "none"
    /\ UNCHANGED <<disk, renamed, promise, timer, wakeRequested, batch,
                   endpointVars, failures, crashes>>

FailRemove ==
    /\ Running("remove")
    /\ operations' = Tail(operations)
    /\ EndDrain(TRUE) /\ Fail
    /\ UNCHANGED <<files, disk, bytes, renamed, promise, endpointVars, crashes>>

----------------------------------------------------------------------------
(* The capture endpoint.                                                    *)

\* Mutant: a plain INSERT.
InsertAgain(m) ==
    recorded' = IF m \in Skipped THEN recorded ELSE [recorded EXCEPT ![m] = @ + 1]

\* INSERT ... ON CONFLICT (request_id) DO NOTHING.
Insert(m) ==
    recorded' = IF m \in Skipped \/ recorded[m] > 0 THEN recorded
                ELSE [recorded EXCEPT ![m] = @ + 1]

StoreCapture ==
    /\ draining = "posted" /\ answer = "none"
    /\ \/ Insert(posted) /\ answer' = "ok" /\ UNCHANGED failures
       \/ UNCHANGED recorded /\ answer' = "no" /\ Fail
    /\ UNCHANGED <<outboxVars, timer, draining, wakeRequested, batch, posted,
                   late, crashes>>

StoreLate(m) ==
    /\ m \in late
    /\ late' = late \ {m}
    /\ Insert(m)
    /\ UNCHANGED <<outboxVars, deliveryVars, failures, crashes>>

----------------------------------------------------------------------------
\* The process ends and starts again: initialize counts the files it finds,
\* start wakes the delivery.  When the host goes down with it, each change of
\* the directory since the last sync may be lost.
OutboxCrash ==
    /\ crashes < MaxCrashes /\ crashes' = crashes + 1
    /\ \/ UNCHANGED <<files, disk>>
       \/ \E survivors \in SUBSET (files \cup disk) :
              /\ files \cap disk \subseteq survivors
              /\ files' = survivors /\ disk' = survivors
    /\ bytes' = SizeOf(files')
    /\ operations' = <<>> /\ renamed' = FALSE
    /\ promise' = [m \in Messages |->
                     IF promise[m] = "waiting" THEN "refused" ELSE promise[m]]
    /\ timer' = "wake" /\ draining' = "idle" /\ wakeRequested' = FALSE
    /\ batch' = {} /\ posted' = None /\ answer' = "none"
    /\ late' = IF posted # None /\ answer = "none" THEN late \cup {posted} ELSE late
    /\ UNCHANGED <<recorded, failures>>

OutboxStep ==
    RenameCapture \/ RefuseCapture \/ SyncCapture \/ FailSync \/ RemoveCapture \/ FailRemove

DeliveryStep ==
    \/ RetryTimer \/ StartDrain \/ Entries \/ FailEntries \/ FinishDrain
    \/ \E m \in Messages : Deliver(m)
    \/ Undelivered \/ LoseAnswer \/ Acknowledged

EndpointStep == StoreCapture \/ \E m \in Messages : StoreLate(m)
=============================================================================
