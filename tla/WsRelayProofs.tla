---------------------------- MODULE WsRelayProofs ----------------------------
(***************************************************************************)
(* Proofs about the audit relay, for every number of connections, messages, *)
(* failures and crashes: what was forwarded stays stored, in the client's   *)
(* order, is recorded once, every step is one that AuditTrail allows, and   *)
(* the counters of connections, messages and bytes are exact and bounded.   *)
(***************************************************************************)
EXTENDS WsRelay, SequenceTheorems, FiniteSetTheorems, TLAPS

----------------------------------------------------------------------------
(* The inductive invariant.                                                 *)

\* The types of what the arguments about the messages are about.
OutboxTyped ==
    /\ files \subseteq Messages /\ disk \subseteq Messages
    /\ operations \in Seq(Operation)
    /\ promise \in [Messages -> {"none", "waiting", "stored", "refused"}]
    /\ batch \subseteq Messages /\ late \subseteq Messages
    /\ posted \in Messages \cup {None}
    /\ recorded \in [Messages -> Nat]

Payloads == 1..MaxSequence

TurnTyped ==
    /\ closed \in [Connections -> BOOLEAN]
    /\ client \in [Connections -> {"none", "open", "closing", "closed"}]
    /\ upstream \in [Connections -> {"none", "open", "closing", "closed"}]
    /\ received \in [Connections -> 0..MaxSequence]
    /\ chain \in [Connections -> Seq(Payloads)]
    /\ stage \in [Connections -> {"queued", "policy", "persist", "send"}]
    /\ sequence \in [Connections -> 0..MaxSequence]
    /\ content \in [Messages -> 0..MaxSequence]
    /\ forwarded \in [Connections -> Seq(Payloads)]

\* The endpoint has a row for the message, or needs none.
IsRecorded(m) == m \in Skipped \/ recorded[m] > 0

IsKept(m) == m \in disk \/ IsRecorded(m)

RemovalsAreTrue ==
    \A i \in 1..Len(operations) :
        operations[i].kind = "remove" => IsRecorded(operations[i].message)

\* A file is removed only for a message that the endpoint acknowledged.
AnswerIsTrue ==
    /\ draining = "posted" => posted # None
    /\ answer = "ok" => posted # None /\ IsRecorded(posted)
    /\ RemovalsAreTrue

\* A file that a crash of the host would leave is in the directory, or was
\* acknowledged; what persist has confirmed is kept.
StoredIsKept ==
    /\ renamed => /\ operations # <<>>
                  /\ Head(operations).kind = "persist"
                  /\ Head(operations).message \in files
    /\ \A m \in disk : m \in files \/ IsRecorded(m)
    /\ \A m \in Messages : promise[m] = "stored" => IsKept(m)

OutboxOK == AnswerIsTrue /\ StoredIsKept /\ RecordedOnce

\* The payload that the first message of the chain should have.
Due(c) == IF stage[c] \in {"persist", "send"} THEN sequence[c] ELSE sequence[c] + 1

\* An open connection takes its messages one after the other; one that is
\* closed ends the turn it has begun, and skips the messages that wait.
ChainInOrder(c) ==
    /\ stage[c] # "queued" => chain[c] # <<>>
    /\ stage[c] # "queued" \/ ~closed[c] =>
          \A i \in 1..Len(chain[c]) : chain[c][i] = Due(c) + i - 1
    /\ ~closed[c] =>
          /\ received[c] = Due(c) + Len(chain[c]) - 1
          /\ Len(forwarded[c]) = IF stage[c] = "persist" THEN sequence[c] - 1
                                 ELSE sequence[c]
    /\ client[c] = "none" =>
          /\ upstream[c] = "none" /\ ~closed[c]
          /\ stage[c] = "queued" /\ chain[c] = <<>>
          /\ received[c] = 0 /\ sequence[c] = 0 /\ forwarded[c] = <<>>

ChainsInOrder == \A c \in Connections : ChainInOrder(c)

RelayTyped == OutboxTyped /\ TurnTyped

RelayOK == OutboxOK /\ ChainsInOrder /\ ForwardedInOrder /\ ForwardedIsStored

----------------------------------------------------------------------------
(* Sequences.                                                               *)

LEMMA AppendedSeq ==
    ASSUME NEW S, NEW s \in Seq(S), NEW e \in S
    PROVE  /\ Append(s, e) \in Seq(S)
           /\ Append(s, e) # <<>>
           /\ Len(Append(s, e)) = Len(s) + 1
           /\ \A i \in 1..Len(s) : Append(s, e)[i] = s[i]
           /\ Append(s, e)[Len(s) + 1] = e
BY AppendProperties

LEMMA ShortenedSeq ==
    ASSUME NEW S, NEW s \in Seq(S), s # <<>>
    PROVE  /\ Head(s) \in S /\ Head(s) = s[1]
           /\ Tail(s) \in Seq(S)
           /\ Len(s) \in Nat /\ Len(s) > 0
           /\ Len(Tail(s)) = Len(s) - 1
           /\ \A i \in 1..Len(s) - 1 : Tail(s)[i] = s[i + 1]
BY HeadTailProperties

----------------------------------------------------------------------------
(* The outbox, its delivery and the endpoint.                               *)

LEMMA RunningTyped ==
    ASSUME OutboxTyped, NEW kind, Running(kind)
    PROVE  /\ operations # <<>>
           /\ Head(operations).message \in Messages
           /\ Tail(operations) \in Seq(Operation)
<1>1. operations # <<>> /\ operations \in Seq(Operation)
    BY DEF Running, OutboxTyped
<1>2. Head(operations) \in Operation /\ Tail(operations) \in Seq(Operation)
    BY <1>1, ShortenedSeq
<1> QED BY <1>1, <1>2 DEF Operation

\* An insertion adds a row where there was none, and only there.
LEMMA Inserted ==
    ASSUME OutboxTyped, NEW m \in Messages, Insert(m)
    PROVE  /\ recorded' \in [Messages -> Nat]
           /\ m \in Skipped \/ recorded'[m] > 0
           /\ \A n \in Messages : recorded[n] > 0 => recorded'[n] = recorded[n]
           /\ \A n \in Messages : recorded[n] <= 1 => recorded'[n] <= 1
BY DEF Insert, OutboxTyped

LEMMA TypedByOutbox ==
    ASSUME OutboxTyped, OutboxOK, OutboxStep
    PROVE  OutboxTyped'
<1>1. CASE RenameCapture
  <2>1. Head(operations).message \in Messages
    BY <1>1, RunningTyped DEF RenameCapture
  <2> QED BY <1>1, <2>1 DEF RenameCapture, OutboxTyped, deliveryVars, endpointVars
<1>2. ASSUME NEW m \in Messages, NEW result \in {"stored", "refused"},
             Settle(m, result), Running("persist"),
             UNCHANGED <<files, deliveryVars, endpointVars>>,
             disk' \in {disk, files}
      PROVE  OutboxTyped'
  <2>1. Tail(operations) \in Seq(Operation)
    BY <1>2, RunningTyped
  <2> QED BY <1>2, <2>1 DEF Settle, OutboxTyped, deliveryVars, endpointVars
<1>3. CASE RefuseCapture \/ FailSync
  <2>1. Head(operations).message \in Messages
    BY <1>3, RunningTyped DEF RefuseCapture, FailSync
  <2> QED BY <1>2, <1>3, <2>1 DEF RefuseCapture, FailSync
<1>4. CASE SyncCapture
  <2>1. Head(operations).message \in Messages
    BY <1>4, RunningTyped DEF SyncCapture
  <2> QED BY <1>2, <1>4, <2>1 DEF SyncCapture, SyncDirectory
<1>5. CASE RemoveCapture \/ FailRemove
  <2>1. Tail(operations) \in Seq(Operation)
    BY <1>5, RunningTyped DEF RemoveCapture, FailRemove
  <2> QED BY <1>5, <2>1 DEF RemoveCapture, FailRemove, EndDrain, OutboxTyped,
          endpointVars
<1> QED BY <1>1, <1>3, <1>4, <1>5 DEF OutboxStep

LEMMA TypedByDelivery ==
    ASSUME OutboxTyped, OutboxOK, DeliveryStep
    PROVE  OutboxTyped'
<1> USE DEF OutboxTyped, outboxVars, endpointVars
<1>1. CASE RetryTimer \/ StartDrain \/ Entries \/ FailEntries \/ FinishDrain
    BY <1>1 DEF RetryTimer, StartDrain, Entries, FailEntries, FinishDrain, EndDrain
<1>2. ASSUME NEW m \in Messages, Deliver(m)
      PROVE  OutboxTyped'
    BY <1>2 DEF Deliver
<1>3. CASE Undelivered
    BY <1>3 DEF Undelivered, EndDrain, OutboxOK, AnswerIsTrue
<1>4. CASE LoseAnswer
    BY <1>4 DEF LoseAnswer, EndDrain
<1>5. CASE Acknowledged
  <2>1. posted \in Messages
    BY <1>5 DEF Acknowledged, PositiveAnswer, OutboxOK, AnswerIsTrue
  <2>2. [kind |-> "remove", message |-> posted] \in Operation
    BY <2>1 DEF Operation
  <2>3. operations' \in Seq(Operation)
    BY <1>5, <2>2, AppendedSeq DEF Acknowledged
  <2> QED BY <1>5, <2>3 DEF Acknowledged
<1> QED BY <1>1, <1>2, <1>3, <1>4, <1>5 DEF DeliveryStep

LEMMA TypedByEndpoint ==
    ASSUME OutboxTyped, OutboxOK, EndpointStep
    PROVE  OutboxTyped'
<1>1. CASE StoreCapture
  <2>1. posted \in Messages
    BY <1>1 DEF StoreCapture, OutboxTyped, OutboxOK, AnswerIsTrue
  <2>2. recorded' \in [Messages -> Nat]
    BY <1>1, <2>1, Inserted DEF StoreCapture, OutboxTyped
  <2> QED BY <1>1, <2>2 DEF StoreCapture, OutboxTyped, outboxVars
<1>2. ASSUME NEW m \in Messages, StoreLate(m)
      PROVE  OutboxTyped'
    BY <1>2, Inserted DEF StoreLate, OutboxTyped, outboxVars, deliveryVars
<1> QED BY <1>1, <1>2 DEF EndpointStep

\* No row is ever deleted.
RowsStay == \A m \in Messages : IsRecorded(m) => IsRecorded(m)'

\* The removals that wait are true when the queue loses its head, or gains one.
LEMMA RemovalsByTail ==
    ASSUME OutboxTyped, RemovalsAreTrue, RowsStay, operations # <<>>,
           operations' = Tail(operations)
    PROVE  RemovalsAreTrue'
<1>1. operations \in Seq(Operation) /\ operations' \in Seq(Operation)
    BY ShortenedSeq DEF OutboxTyped
<1> SUFFICES ASSUME NEW i \in 1..Len(operations'), operations'[i].kind = "remove",
                    NEW m, m = operations'[i].message
             PROVE  IsRecorded(m)'
    BY DEF RemovalsAreTrue
<1>2. i + 1 \in 1..Len(operations) /\ operations'[i] = operations[i + 1]
    BY <1>1, ShortenedSeq
<1>3. operations[i + 1] \in Operation
    BY <1>1, <1>2, ElementOfSeq
<1> QED BY <1>2, <1>3 DEF RemovalsAreTrue, RowsStay, Operation

LEMMA RemovalsByAppend ==
    ASSUME OutboxTyped, RemovalsAreTrue, RowsStay, NEW op \in Operation,
           operations' = Append(operations, op),
           op.kind = "remove" => IsRecorded(op.message)
    PROVE  RemovalsAreTrue'
<1>1. /\ operations \in Seq(Operation) /\ operations' \in Seq(Operation)
      /\ Len(operations) \in Nat /\ Len(operations') = Len(operations) + 1
    BY AppendedSeq, LenProperties DEF OutboxTyped
<1> SUFFICES ASSUME NEW i \in 1..Len(operations'), operations'[i].kind = "remove",
                    NEW m, m = operations'[i].message
             PROVE  IsRecorded(m)'
    BY DEF RemovalsAreTrue
<1>2. CASE i \in 1..Len(operations)
  <2>1. operations'[i] = operations[i] /\ operations[i] \in Operation
    BY <1>1, <1>2, AppendedSeq, ElementOfSeq
  <2> QED BY <1>2, <2>1 DEF RemovalsAreTrue, RowsStay, Operation
<1>3. CASE i = Len(operations) + 1
  <2>1. operations'[i] = op
    BY <1>1, <1>3, AppendedSeq
  <2> QED BY <2>1 DEF RowsStay, Operation
<1> QED BY <1>1, <1>2, <1>3

\* A call of persist that settles: what it confirms is in the directory.
LEMMA OkBySettle ==
    ASSUME OutboxTyped, OutboxOK, NEW m \in Messages,
           NEW result \in {"stored", "refused"}, Running("persist"),
           m = Head(operations).message, Settle(m, result),
           UNCHANGED <<files, deliveryVars, recorded>>,
           \/ result = "refused" /\ disk' = disk
           \/ renamed /\ disk' = files
    PROVE  OutboxOK'
<1>1. RowsStay /\ operations # <<>> /\ operations' = Tail(operations)
    BY DEF RowsStay, IsRecorded, Running, Settle
<1>2. AnswerIsTrue'
    BY <1>1, RemovalsByTail DEF OutboxOK, AnswerIsTrue, IsRecorded, deliveryVars
<1>3. StoredIsKept'
  <2>1. ~renamed' /\ \A n \in disk' : n \in files' \/ IsRecorded(n)'
    BY DEF Settle, OutboxOK, StoredIsKept, IsRecorded
  <2>2. renamed => m \in files
    BY DEF OutboxOK, StoredIsKept
  <2>3. ASSUME NEW n \in Messages, promise'[n] = "stored"
        PROVE  IsKept(n)'
    <3>1. CASE n = m
        BY <2>2, <2>3, <3>1 DEF Settle, OutboxTyped, IsKept
    <3>2. CASE n # m
        BY <2>3, <3>2 DEF Settle, OutboxTyped, OutboxOK, StoredIsKept, IsKept, IsRecorded
    <3> QED BY <3>1, <3>2
  <2> QED BY <2>1, <2>3 DEF StoredIsKept
<1> QED BY <1>2, <1>3 DEF OutboxOK, RecordedOnce

LEMMA OkByOutboxStep ==
    ASSUME OutboxTyped, OutboxOK, OutboxStep
    PROVE  OutboxOK'
<1>1. CASE RenameCapture
    BY <1>1 DEF RenameCapture, Running, deliveryVars, endpointVars, OutboxOK,
       AnswerIsTrue, RemovalsAreTrue, StoredIsKept, RecordedOnce, IsKept, IsRecorded
<1>2. CASE RefuseCapture \/ FailSync
  <2>1. Head(operations).message \in Messages
    BY <1>2, RunningTyped DEF RefuseCapture, FailSync
  <2> QED BY <1>2, <2>1, OkBySettle DEF RefuseCapture, FailSync, endpointVars
<1>3. CASE SyncCapture
  <2>1. Head(operations).message \in Messages
    BY <1>3, RunningTyped DEF SyncCapture
  <2> QED BY <1>3, <2>1, OkBySettle DEF SyncCapture, SyncDirectory, endpointVars
<1>4. CASE RemoveCapture
  <2> DEFINE m == Head(operations).message
  <2>1. /\ Running("remove") /\ operations' = Tail(operations) /\ files' = files \ {m}
        /\ UNCHANGED <<disk, renamed, promise, recorded>>
        /\ draining' = "deliver" /\ answer' = "none"
    BY <1>4 DEF RemoveCapture, endpointVars
  <2>2. RowsStay /\ operations # <<>>
    BY <2>1 DEF RowsStay, IsRecorded, Running
  <2>3. AnswerIsTrue'
    BY <2>1, <2>2, RemovalsByTail DEF OutboxOK, AnswerIsTrue
  <2>4. IsRecorded(m)
    <3>1. operations[1] = Head(operations) /\ 1 \in 1..Len(operations)
        BY <2>2, ShortenedSeq DEF OutboxTyped
    <3> QED BY <2>1, <3>1 DEF Running, OutboxOK, AnswerIsTrue, RemovalsAreTrue
  <2>5. ~renamed
    BY <2>1 DEF Running, OutboxOK, StoredIsKept
  <2>6. StoredIsKept'
    BY <2>1, <2>4, <2>5 DEF OutboxOK, StoredIsKept, IsKept, IsRecorded
  <2> QED BY <2>1, <2>3, <2>6 DEF OutboxOK, RecordedOnce
<1>5. CASE FailRemove
  <2>1. /\ Running("remove") /\ operations' = Tail(operations)
        /\ UNCHANGED <<files, disk, renamed, promise, recorded>>
        /\ draining' = "idle" /\ answer' = "none"
    BY <1>5 DEF FailRemove, EndDrain, endpointVars
  <2>2. RowsStay /\ operations # <<>>
    BY <2>1 DEF RowsStay, IsRecorded, Running
  <2>3. AnswerIsTrue'
    BY <2>1, <2>2, RemovalsByTail DEF OutboxOK, AnswerIsTrue
  <2>4. ~renamed
    BY <2>1 DEF Running, OutboxOK, StoredIsKept
  <2>5. StoredIsKept'
    BY <2>1, <2>4 DEF OutboxOK, StoredIsKept, IsKept, IsRecorded
  <2> QED BY <2>1, <2>3, <2>5 DEF OutboxOK, RecordedOnce
<1> QED BY <1>1, <1>2, <1>3, <1>4, <1>5 DEF OutboxStep

LEMMA OkByDelivery ==
    ASSUME OutboxTyped, OutboxOK, DeliveryStep
    PROVE  OutboxOK'
<1>1. /\ UNCHANGED <<files, disk, renamed, promise, recorded>>
      /\ RowsStay
    BY DEF DeliveryStep, RetryTimer, StartDrain, Entries, FailEntries, FinishDrain,
           Deliver, Undelivered, LoseAnswer, Acknowledged, outboxVars, endpointVars,
           RowsStay, IsRecorded
<1>2. CASE operations' = operations
  <2>1. StoredIsKept' /\ RecordedOnce'
    BY <1>1, <1>2 DEF OutboxOK, StoredIsKept, RecordedOnce, IsKept, IsRecorded
  <2>2. \/ answer' = "none" /\ (draining' = "posted" => posted' # None)
        \/ UNCHANGED <<answer, posted>> /\ draining' # "posted"
        \/ UNCHANGED <<answer, posted, draining>>
    BY <1>2, CaptureParameters
    DEF DeliveryStep, RetryTimer, StartDrain, Entries, FailEntries, FinishDrain,
        Deliver, Undelivered, LoseAnswer, Acknowledged, EndDrain
  <2>3. AnswerIsTrue'
    BY <1>1, <1>2, <2>2 DEF OutboxOK, AnswerIsTrue, RemovalsAreTrue, IsRecorded
  <2> QED BY <2>1, <2>3 DEF OutboxOK
<1>3. CASE Acknowledged
  <2> DEFINE op == [kind |-> "remove", message |-> posted]
  <2>1. /\ operations' = Append(operations, op) /\ answer = "ok"
        /\ UNCHANGED <<answer, posted>> /\ draining' = "remove"
    BY <1>3 DEF Acknowledged, PositiveAnswer
  <2>2. posted \in Messages /\ IsRecorded(posted)
    BY <2>1 DEF OutboxOK, OutboxTyped, AnswerIsTrue
  <2>3. op \in Operation
    BY <2>2 DEF Operation
  <2>4. AnswerIsTrue'
    BY <1>1, <2>1, <2>2, <2>3, RemovalsByAppend DEF OutboxOK, AnswerIsTrue, IsRecorded
  <2>5. Head(operations') = Head(operations) \/ operations = <<>>
    BY <2>1, <2>3, HeadTailAppend DEF OutboxTyped
  <2>6. operations' # <<>>
    BY <2>1, <2>3, AppendedSeq DEF OutboxTyped
  <2>7. StoredIsKept' /\ RecordedOnce'
    BY <1>1, <2>5, <2>6 DEF OutboxOK, StoredIsKept, RecordedOnce, IsKept, IsRecorded
  <2> QED BY <2>4, <2>7 DEF OutboxOK
<1>4. Acknowledged \/ operations' = operations
    BY DEF DeliveryStep, RetryTimer, StartDrain, Entries, FailEntries, FinishDrain,
           Deliver, Undelivered, LoseAnswer, outboxVars
<1> QED BY <1>2, <1>3, <1>4

LEMMA OkByEndpoint ==
    ASSUME OutboxTyped, OutboxOK, EndpointStep
    PROVE  OutboxOK'
<1>1. ASSUME NEW m \in Messages, Insert(m), UNCHANGED outboxVars,
             UNCHANGED <<posted, draining>>,
             answer' = answer \/ (answer' = "ok" /\ posted = m)
      PROVE  OutboxOK'
  <2>1. RowsStay /\ IsRecorded(m)'
    BY <1>1, Inserted DEF RowsStay, IsRecorded
  <2>2. posted # None => posted \in Messages
    BY DEF OutboxTyped
  <2>3. ASSUME NEW i \in 1..Len(operations)
        PROVE  operations[i].message \in Messages
    <3>1. operations[i] \in Operation
        BY ElementOfSeq DEF OutboxTyped
    <3> QED BY <3>1 DEF Operation
  <2>4. m # None
    BY CaptureParameters
  <2>5. AnswerIsTrue'
    BY <1>1, <2>1, <2>2, <2>3, <2>4 DEF OutboxOK, AnswerIsTrue, RemovalsAreTrue, RowsStay, outboxVars
  <2>6. StoredIsKept'
    BY <1>1, <2>1 DEF OutboxOK, StoredIsKept, IsKept, RowsStay, outboxVars, OutboxTyped
  <2>7. RecordedOnce'
    BY <1>1, Inserted DEF OutboxOK, RecordedOnce
  <2> QED BY <2>5, <2>6, <2>7 DEF OutboxOK
<1>2. CASE StoreCapture
  <2>1. posted \in Messages
    BY <1>2 DEF StoreCapture, OutboxTyped, OutboxOK, AnswerIsTrue
  <2>2. CASE Insert(posted)
    <3>1. answer' \in {"ok", "no"}
        BY <1>2 DEF StoreCapture
    <3>2. CASE answer' = "ok"
        BY <1>1, <1>2, <2>1, <2>2, <3>2 DEF StoreCapture
    <3>3. CASE answer' = "no"
        BY <1>2, <3>3 DEF StoreCapture, OutboxOK, AnswerIsTrue, RemovalsAreTrue, StoredIsKept,
           RecordedOnce, IsKept, IsRecorded, outboxVars
    <3> QED BY <3>1, <3>2, <3>3
  <2>3. CASE UNCHANGED recorded /\ answer' = "no"
    BY <1>2, <2>3 DEF StoreCapture, OutboxOK, AnswerIsTrue, RemovalsAreTrue, StoredIsKept,
       RecordedOnce, IsKept, IsRecorded, outboxVars
  <2> QED BY <1>2, <2>2, <2>3 DEF StoreCapture
<1>3. ASSUME NEW m \in Messages, StoreLate(m)
      PROVE  OutboxOK'
    BY <1>1, <1>3 DEF StoreLate, deliveryVars
<1> QED BY <1>2, <1>3 DEF EndpointStep

LEMMA OutboxByCrash ==
    ASSUME OutboxTyped, OutboxOK, OutboxCrash
    PROVE  OutboxTyped' /\ OutboxOK'
<1>1. /\ operations' = <<>> /\ ~renamed' /\ batch' = {} /\ posted' = None
      /\ draining' = "idle" /\ answer' = "none" /\ recorded' = recorded
      /\ promise' = [m \in Messages |->
                       IF promise[m] = "waiting" THEN "refused" ELSE promise[m]]
      /\ late' = late \/ (posted # None /\ late' = late \cup {posted})
    BY DEF OutboxCrash
<1>2. /\ files' \subseteq Messages /\ disk' \subseteq Messages
      /\ \A m \in disk' : m \in files' \/ IsRecorded(m)
      /\ \A m \in disk : m \in disk' \/ IsRecorded(m)
  <2>1. CASE UNCHANGED <<files, disk>>
    BY <2>1 DEF OutboxTyped, OutboxOK, StoredIsKept
  <2>2. ASSUME NEW survivors \in SUBSET (files \cup disk),
               files \cap disk \subseteq survivors,
               files' = survivors /\ disk' = survivors
        PROVE  /\ files' \subseteq Messages /\ disk' \subseteq Messages
               /\ \A m \in disk' : m \in files' \/ IsRecorded(m)
               /\ \A m \in disk : m \in disk' \/ IsRecorded(m)
    BY <2>2 DEF OutboxTyped, OutboxOK, StoredIsKept
  <2> QED BY <2>1, <2>2 DEF OutboxCrash, OutboxTyped, OutboxOK, StoredIsKept
<1>3. OutboxTyped'
  <2>1. operations' \in Seq(Operation)
    BY <1>1, EmptySeq
  <2> QED BY <1>1, <1>2, <2>1 DEF OutboxTyped
<1>4. AnswerIsTrue'
    BY <1>1, EmptySeq DEF AnswerIsTrue, RemovalsAreTrue
<1>5. StoredIsKept'
    BY <1>1, <1>2 DEF OutboxTyped, OutboxOK, StoredIsKept, IsKept, IsRecorded
<1> QED BY <1>1, <1>3, <1>4, <1>5 DEF OutboxOK, RecordedOnce

\* What is kept stays kept: nothing but an acknowledged file leaves the disk.
KeptStay == \A m \in Messages : IsKept(m) => IsKept(m)'

LEMMA KeptByOutbox ==
    ASSUME OutboxTyped, OutboxOK,
           OutboxStep \/ DeliveryStep \/ EndpointStep \/ OutboxCrash
    PROVE  KeptStay
<1>1. CASE OutboxStep
  <2>1. recorded' = recorded /\ disk' \in {disk, files}
    BY <1>1 DEF OutboxStep, RenameCapture, RefuseCapture, SyncCapture, FailSync,
       RemoveCapture, FailRemove, SyncDirectory, endpointVars
  <2> QED BY <2>1 DEF OutboxOK, StoredIsKept, KeptStay, IsKept, IsRecorded
<1>2. CASE DeliveryStep
  <2>1. UNCHANGED <<disk, recorded>>
    BY <1>2 DEF DeliveryStep, RetryTimer, StartDrain, Entries, FailEntries,
       FinishDrain, Deliver, Undelivered, LoseAnswer, Acknowledged, outboxVars,
       endpointVars
  <2> QED BY <2>1 DEF KeptStay, IsKept, IsRecorded
<1>3. CASE EndpointStep
  <2>1. disk' = disk
    BY <1>3 DEF EndpointStep, StoreCapture, StoreLate, outboxVars
  <2>2. recorded' = recorded \/ \E m \in Messages : Insert(m)
    BY <1>3 DEF EndpointStep, StoreCapture, StoreLate, OutboxTyped, OutboxOK,
       AnswerIsTrue
  <2> QED BY <2>1, <2>2, Inserted DEF KeptStay, IsKept, IsRecorded
<1>4. CASE OutboxCrash
  <2>1. recorded' = recorded
    BY <1>4 DEF OutboxCrash
  <2>2. \A m \in disk : m \in disk' \/ IsRecorded(m)
    BY <1>4 DEF OutboxCrash, OutboxOK, StoredIsKept
  <2> QED BY <2>1, <2>2 DEF KeptStay, IsKept, IsRecorded
<1> QED BY <1>1, <1>2, <1>3, <1>4

----------------------------------------------------------------------------
(* The relay.  What a step of it does to the outbox: nothing, a new call of *)
(* persist, or a wake of the delivery.                                      *)

LEMMA OutboxKept ==
    ASSUME OutboxTyped, OutboxOK, UNCHANGED <<outboxVars, endpointVars>>,
           UNCHANGED <<draining, batch, posted, answer>>
    PROVE  OutboxTyped' /\ OutboxOK' /\ KeptStay
<1> USE DEF outboxVars, endpointVars
<1>1. OutboxTyped'
    BY DEF OutboxTyped
<1>2. AnswerIsTrue' /\ StoredIsKept' /\ RecordedOnce'
    BY DEF OutboxOK, AnswerIsTrue, RemovalsAreTrue, StoredIsKept, RecordedOnce, IsKept,
       IsRecorded
<1>3. KeptStay
    BY DEF KeptStay, IsKept, IsRecorded
<1> QED BY <1>1, <1>2, <1>3 DEF OutboxOK

LEMMA OutboxByPersist ==
    ASSUME OutboxTyped, OutboxOK, NEW m \in Messages, Persist(m),
           UNCHANGED <<files, disk, renamed, deliveryVars, endpointVars>>
    PROVE  OutboxTyped' /\ OutboxOK' /\ KeptStay
<1> DEFINE op == [kind |-> "persist", message |-> m]
<1>1. /\ op \in Operation /\ operations' = Append(operations, op)
      /\ operations' \in Seq(Operation) /\ operations' # <<>>
      /\ Head(operations') = Head(operations) \/ operations = <<>>
  <2>1. op \in Operation /\ operations' = Append(operations, op)
    BY DEF Persist, Operation
  <2> HIDE DEF op
  <2>2. operations \in Seq(Operation)
    BY DEF OutboxTyped
  <2>3. Append(operations, op) \in Seq(Operation) /\ Append(operations, op) # <<>>
    BY <2>1, <2>2, AppendedSeq
  <2>4. operations # <<>> => Head(Append(operations, op)) = Head(operations)
    BY <2>1, <2>2, HeadTailAppend
  <2> QED BY <2>1, <2>3, <2>4
<1>2. OutboxTyped'
    BY <1>1 DEF Persist, OutboxTyped, deliveryVars, endpointVars
<1>3. RowsStay /\ KeptStay
    BY DEF RowsStay, KeptStay, IsKept, IsRecorded, endpointVars
<1>4. RemovalsAreTrue'
    BY <1>1, <1>3, RemovalsByAppend DEF OutboxOK, AnswerIsTrue
<1>5. AnswerIsTrue'
    BY <1>4 DEF OutboxOK, AnswerIsTrue, IsRecorded, deliveryVars, endpointVars
<1>6. StoredIsKept'
  <2>1. \A n \in Messages : promise'[n] = "stored" => promise[n] = "stored"
    BY DEF Persist, OutboxTyped
  <2> QED BY <1>1, <2>1 DEF OutboxOK, StoredIsKept, IsKept, IsRecorded, endpointVars
<1>7. RecordedOnce'
    BY DEF OutboxOK, RecordedOnce, endpointVars
<1> QED BY <1>2, <1>3, <1>5, <1>6, <1>7 DEF OutboxOK

----------------------------------------------------------------------------
(* The turns of a connection.                                               *)

\* A step of one connection leaves the others alone.
OnlyOf(c) ==
    \A d \in Connections \ {c} :
        /\ client'[d] = client[d] /\ upstream'[d] = upstream[d]
        /\ closed'[d] = closed[d]
        /\ received'[d] = received[d] /\ chain'[d] = chain[d]
        /\ stage'[d] = stage[d] /\ sequence'[d] = sequence[d]
        /\ forwarded'[d] = forwarded[d]

LEMMA OtherChains ==
    ASSUME ChainsInOrder, NEW c \in Connections, OnlyOf(c), ChainInOrder(c)'
    PROVE  ChainsInOrder'
<1> SUFFICES ASSUME NEW d \in Connections \ {c} PROVE ChainInOrder(d)'
    BY DEF ChainsInOrder
<1>1. ChainInOrder(d)
    BY DEF ChainsInOrder
<1>2. Due(d)' = Due(d)
    BY DEF OnlyOf, Due
<1> QED BY <1>1, <1>2 DEF ChainInOrder, OnlyOf

\* The ends of a connection may close whatever its turns are doing.
LEMMA ChainByEnds ==
    ASSUME ChainsInOrder, NEW c \in Connections,
           UNCHANGED <<received, chain, stage, sequence, forwarded>>,
           client'[c] # "none",
           closed[c] => closed'[c]
    PROVE  ChainInOrder(c)'
BY DEF ChainsInOrder, ChainInOrder, Due

\* A message that is being worked on is one of a connection that was opened.
LEMMA TurnOpened ==
    ASSUME TurnTyped, ChainsInOrder, NEW c \in Connections, NEW s, Turn(c, s)
    PROVE  /\ client[c] # "none"
           /\ chain[c] \in Seq(Payloads) /\ chain[c] # <<>>
           /\ Head(chain[c]) \in Payloads
           /\ Head(chain[c]) = chain[c][1]
           /\ Tail(chain[c]) \in Seq(Payloads)
           /\ s # "queued" => Head(chain[c]) = Due(c)
<1>1. client[c] # "none" /\ chain[c] # <<>> /\ stage[c] = s
    BY DEF ChainsInOrder, ChainInOrder, Turn
<1>2. chain[c] \in Seq(Payloads)
    BY DEF TurnTyped
<1>3. /\ Head(chain[c]) \in Payloads /\ Head(chain[c]) = chain[c][1]
      /\ Tail(chain[c]) \in Seq(Payloads) /\ 1 \in 1..Len(chain[c])
    BY <1>1, <1>2, ShortenedSeq
<1>4. Due(c) \in Int
    BY RelayParameters DEF Due, TurnTyped
<1>5. s # "queued" => chain[c][1] = Due(c)
    BY <1>1, <1>3, <1>4 DEF ChainsInOrder, ChainInOrder
<1> QED BY <1>1, <1>2, <1>3, <1>5

TurnOK == TurnTyped /\ ChainsInOrder

\* What the turns have handed on stays stored, and in order, while they hand
\* on nothing.
LEMMA StillStored ==
    ASSUME ForwardedIsStored, KeptStay, TurnTyped, UNCHANGED forwarded
    PROVE  ForwardedIsStored'
<1>1. ASSUME NEW c \in Connections, NEW i \in DOMAIN forwarded[c]
      PROVE  <<c, forwarded[c][i]>> \in Messages
  <2>1. forwarded[c] \in Seq(Payloads)
    BY DEF TurnTyped
  <2>2. forwarded[c][i] \in Payloads
    BY <1>1, <2>1, ElementOfSeq, LenProperties
  <2> QED BY <2>2, RelayParameters DEF Payloads
<1> QED BY <1>1 DEF ForwardedIsStored, KeptStay, IsKept, IsRecorded

LEMMA OrderKept ==
    ASSUME ForwardedInOrder, ForwardedIsStored, KeptStay, TurnTyped,
           UNCHANGED <<content, forwarded>>
    PROVE  ForwardedInOrder' /\ ForwardedIsStored'
BY StillStored DEF ForwardedInOrder

LEMMA TurnByEnds ==
    ASSUME TurnOK, NEW c \in Connections, Bridge(c) \/ Ends(c)
    PROVE  TurnOK' /\ UNCHANGED <<wsVars, content, forwarded>>
<1> USE DEF TurnOK
<1>1. UNCHANGED <<wsVars, chainVars>>
    BY DEF Bridge, Ends, ClientClosed, UpstreamClosed, HeartbeatTimeout,
           DownstreamBackpressure
<1>2. UNCHANGED <<received, chain, stage, sequence, content, forwarded>>
    BY <1>1 DEF chainVars
<1>3. client[c] = "none" => upstream[c] = "none"
    BY DEF ChainsInOrder, ChainInOrder
<1>4. /\ TurnTyped' /\ OnlyOf(c) /\ client'[c] # "none"
      /\ closed[c] => closed'[c]
  <2> USE DEF TurnTyped, OnlyOf, Finish, CloseBoth, ClosePeer
  <2>1. CASE Bridge(c)
    BY <1>2, <2>1 DEF Bridge
  <2>2. CASE ClientClosed(c)
    BY <1>2, <2>2 DEF ClientClosed
  <2>3. CASE UpstreamClosed(c)
    BY <1>2, <1>3, <2>3 DEF UpstreamClosed
  <2>4. CASE HeartbeatTimeout(c) \/ DownstreamBackpressure(c)
    BY <1>2, <2>4 DEF HeartbeatTimeout, DownstreamBackpressure
  <2> QED BY <2>1, <2>2, <2>3, <2>4 DEF Ends
<1>5. ChainsInOrder'
    BY <1>2, <1>4, ChainByEnds, OtherChains
<1> QED BY <1>1, <1>2, <1>4, <1>5

LEMMA TurnByMessage ==
    ASSUME TurnOK, NEW c \in Connections, ClientMessage(c)
    PROVE  TurnOK' /\ UNCHANGED <<wsVars, content, forwarded>>
<1> USE DEF TurnOK
<1> DEFINE payload == received[c] + 1
<1>1. /\ client[c] = "open" /\ ~closed[c] /\ received[c] < MaxSequence
      /\ received' = [received EXCEPT ![c] = payload]
      /\ UNCHANGED <<wsVars, stage, sequence, content, forwarded>>
    BY DEF ClientMessage
<1>2. payload \in Payloads /\ received[c] \in Nat /\ MaxSequence \in Nat
    BY <1>1, RelayParameters DEF TurnTyped, Payloads
<1>3. CASE Finish(c) /\ CloseBoth(c) /\ UNCHANGED chain
  <2>1. TurnTyped' /\ OnlyOf(c) /\ closed'[c] /\ client'[c] # "none"
    BY <1>1, <1>2, <1>3 DEF TurnTyped, OnlyOf, Finish, CloseBoth, ClosePeer
  <2>2. ChainInOrder(c)'
    BY <1>1, <1>3, <2>1 DEF ChainsInOrder, ChainInOrder, Due
  <2> QED BY <1>1, <2>1, <2>2, OtherChains
<1>4. CASE chain' = [chain EXCEPT ![c] = Append(@, payload)] /\ UNCHANGED linkVars
  <2> HIDE DEF payload
  <2>1. chain[c] \in Seq(Payloads) /\ chain'[c] = Append(chain[c], payload)
    BY <1>4 DEF TurnTyped
  <2>2. /\ Len(chain[c]) \in Nat /\ Append(chain[c], payload) \in Seq(Payloads)
        /\ Len(chain'[c]) = Len(chain[c]) + 1 /\ chain'[c] # <<>>
        /\ \A i \in 1..Len(chain[c]) : chain'[c][i] = chain[c][i]
        /\ chain'[c][Len(chain[c]) + 1] = payload
    BY <1>2, <2>1, AppendedSeq, LenProperties
  <2>3. TurnTyped' /\ OnlyOf(c)
    <3>1. payload \in 0..MaxSequence
        BY <1>2 DEF Payloads
    <3>2. Append(chain[c], payload) \in Seq(Payloads)
        BY <2>2
    <3> QED BY <1>1, <1>4, <3>1, <3>2 DEF TurnTyped, OnlyOf, linkVars
  <2>4. Due(c) \in Int /\ Due(c)' = Due(c)
    BY <1>1, RelayParameters DEF TurnTyped, Due
  <2>5. payload = Due(c) + Len(chain[c])
    BY <1>1, <1>2, <2>2, <2>4 DEF ChainsInOrder, ChainInOrder, payload
  <2>6. ASSUME NEW i \in 1..Len(chain'[c])
        PROVE  chain'[c][i] = Due(c) + i - 1
    <3>1. CASE i \in 1..Len(chain[c])
        BY <1>1, <2>2, <3>1 DEF ChainsInOrder, ChainInOrder
    <3>2. CASE i = Len(chain[c]) + 1
        BY <2>2, <2>4, <2>5, <3>2
    <3> QED BY <2>2, <3>1, <3>2
  <2>7. received'[c] = Due(c) + Len(chain'[c]) - 1
    <3>1. received'[c] = payload
        BY <1>1, <1>2 DEF TurnTyped
    <3> QED BY <2>2, <2>4, <2>5, <3>1
  <2>8. ChainInOrder(c)'
    BY <1>1, <1>4, <2>2, <2>4, <2>6, <2>7 DEF ChainsInOrder, ChainInOrder, linkVars
  <2> QED BY <1>1, <2>3, <2>8, OtherChains
<1> QED BY <1>3, <1>4 DEF ClientMessage

\* A turn that ends in an error closes the connection.
LEMMA TurnByBreakOff ==
    ASSUME TurnOK, NEW c \in Connections, NEW s, Turn(c, s), BreakOff(c),
           UNCHANGED <<received, sequence, content, forwarded>>
    PROVE  TurnOK'
<1> USE DEF TurnOK
<1>1. /\ closed' = [closed EXCEPT ![c] = TRUE]
      /\ client' = [client EXCEPT ![c] = ClosePeer(@)]
      /\ upstream' = [upstream EXCEPT ![c] = ClosePeer(@)]
      /\ chain' = [chain EXCEPT ![c] = Tail(@)]
      /\ stage' = [stage EXCEPT ![c] = "queued"]
    BY DEF BreakOff, Finish, CloseBoth, Settled
<1>2. client[c] # "none" /\ Tail(chain[c]) \in Seq(Payloads)
    BY TurnOpened
<1>3. TurnTyped' /\ OnlyOf(c)
    BY <1>1, <1>2 DEF TurnTyped, OnlyOf, ClosePeer
<1>4. closed'[c] /\ stage'[c] = "queued" /\ client'[c] # "none"
    BY <1>1, <1>2 DEF TurnTyped, ClosePeer
<1>5. ChainInOrder(c)'
    BY <1>4 DEF ChainInOrder
<1> QED BY <1>3, <1>5, OtherChains

LEMMA TurnByStart ==
    ASSUME TurnOK, NEW c \in Connections, StartTurn(c)
    PROVE  TurnOK' /\ UNCHANGED <<wsVars, content, forwarded>>
<1> USE DEF TurnOK
<1>1. /\ Turn(c, "queued") /\ stage[c] = "queued" /\ chain[c] # <<>>
      /\ UNCHANGED <<wsVars, client, upstream, closed, received, sequence, content,
                     forwarded>>
    BY DEF StartTurn, linkVars, Turn
<1>2. client[c] # "none" /\ Tail(chain[c]) \in Seq(Payloads)
    BY <1>1, TurnOpened
<1>3. CASE closed[c]
  <2>1. /\ chain' = [chain EXCEPT ![c] = Tail(@)]
        /\ stage' = [stage EXCEPT ![c] = "queued"]
    BY <1>3 DEF StartTurn, Settled
  <2>2. TurnTyped' /\ OnlyOf(c) /\ stage'[c] = "queued"
    BY <1>1, <1>2, <2>1 DEF TurnTyped, OnlyOf
  <2>3. ChainInOrder(c)'
    BY <1>1, <1>2, <1>3, <2>2 DEF ChainInOrder
  <2> QED BY <1>1, <2>2, <2>3, OtherChains
<1>4. CASE ~closed[c]
  <2>1. stage' = [stage EXCEPT ![c] = "policy"] /\ chain' = chain
    BY <1>4 DEF StartTurn
  <2>2. TurnTyped' /\ OnlyOf(c) /\ stage'[c] = "policy"
    BY <1>1, <2>1 DEF TurnTyped, OnlyOf
  <2>3. ChainInOrder(c)'
    BY <1>1, <1>2, <1>4, <2>1, <2>2 DEF ChainsInOrder, ChainInOrder, Due
  <2> QED BY <1>1, <2>2, <2>3, OtherChains
<1> QED BY <1>3, <1>4

LEMMA TurnByPersist ==
    ASSUME TurnOK, OutboxTyped, OutboxOK, ForwardedInOrder, ForwardedIsStored,
           NEW c \in Connections, PersistTurn(c)
    PROVE  /\ TurnOK' /\ OutboxTyped' /\ OutboxOK' /\ KeptStay
           /\ ForwardedInOrder' /\ ForwardedIsStored'
<1> USE DEF TurnOK
<1> DEFINE next == sequence[c] + 1
<1>1. /\ Turn(c, "policy") /\ stage[c] = "policy"
      /\ sequence' = [sequence EXCEPT ![c] = next]
      /\ Persist(<<c, next>>)
      /\ content' = [content EXCEPT ![<<c, next>>] = Head(chain[c])]
      /\ stage' = [stage EXCEPT ![c] = "persist"]
      /\ UNCHANGED <<files, disk, renamed, deliveryVars, endpointVars, client, upstream,
                     closed, received, chain, forwarded>>
    BY DEF PersistTurn, NextNumber, Turn, linkVars
<1>2. /\ client[c] # "none" /\ Head(chain[c]) \in Payloads
      /\ Head(chain[c]) = Due(c) /\ chain[c] # <<>>
    BY <1>1, TurnOpened
<1>3. Due(c) = next /\ next \in Payloads /\ <<c, next>> \in Messages
    BY <1>1, <1>2, RelayParameters DEF Due, Payloads
<1>4. OutboxTyped' /\ OutboxOK' /\ KeptStay
    BY <1>1, <1>3, OutboxByPersist
<1>5. sequence'[c] = next /\ stage'[c] = "persist"
    BY <1>1 DEF TurnTyped
<1>6. TurnTyped'
  <2>1. next \in 0..MaxSequence
    BY <1>3 DEF Payloads
  <2> QED BY <1>1, <1>2, <1>3, <2>1 DEF TurnTyped
<1>7. OnlyOf(c)
    BY <1>1 DEF OnlyOf, TurnTyped
<1>8. ChainInOrder(c)'
  <2>1. Due(c)' = next
    BY <1>5 DEF Due
  <2>2. sequence[c] \in Int
    BY RelayParameters DEF TurnTyped
  <2>3. \A i \in 1..Len(chain'[c]) : chain'[c][i] = Due(c)' + i - 1
    BY <1>1, <1>3, <2>1 DEF ChainsInOrder, ChainInOrder
  <2>4. ~closed'[c] => /\ received'[c] = Due(c)' + Len(chain'[c]) - 1
                       /\ Len(forwarded'[c]) = sequence'[c] - 1
    BY <1>1, <1>3, <1>5, <2>1, <2>2 DEF ChainsInOrder, ChainInOrder
  <2> QED BY <1>1, <1>2, <1>5, <2>3, <2>4 DEF ChainInOrder
<1>9. ForwardedInOrder'
  <2>1. ASSUME NEW d \in Connections, NEW n \in 1..MaxSequence
        PROVE  content'[<<d, n>>] \in {0, n}
    <3>1. <<d, n>> \in Messages /\ content[<<d, n>>] \in {0, n}
        BY RelayParameters DEF ForwardedInOrder
    <3>2. CASE d = c /\ n = next
        BY <1>1, <1>2, <1>3, <3>1, <3>2 DEF TurnTyped
    <3>3. CASE ~(d = c /\ n = next)
        BY <1>1, <3>1, <3>3 DEF TurnTyped
    <3> QED BY <3>2, <3>3
  <2> QED BY <1>1, <2>1 DEF ForwardedInOrder
<1>10. ForwardedIsStored'
    BY <1>1, <1>4, StillStored
<1> QED BY <1>4, <1>6, <1>7, <1>8, <1>9, <1>10, OtherChains

\* The message that is stored is the next one that the upstream has to get.
LEMMA TurnByForward ==
    ASSUME TurnOK, OutboxTyped, OutboxOK, ForwardedInOrder, ForwardedIsStored,
           NEW c \in Connections, Turn(c, "persist"),
           promise[<<c, sequence[c]>>] = "stored", Forwardable(c),
           forwarded' = [forwarded EXCEPT ![c] = Append(@, Head(chain[c]))],
           stage' = [stage EXCEPT ![c] = "send"],
           UNCHANGED <<disk, recorded, client, upstream, closed, received, chain,
                       sequence, content>>
    PROVE  /\ TurnOK' /\ ForwardedInOrder' /\ ForwardedIsStored'
           /\ <<c, sequence[c]>> \in Messages /\ IsKept(<<c, sequence[c]>>)
           /\ Head(chain[c]) = sequence[c]
           /\ forwarded[c] \in Seq(Payloads) /\ Len(forwarded[c]) = sequence[c] - 1
<1> USE DEF TurnOK
<1>1. /\ client[c] # "none" /\ Head(chain[c]) \in Payloads
      /\ Head(chain[c]) = sequence[c] /\ chain[c] # <<>>
    BY TurnOpened DEF Due, Turn
<1>2. <<c, sequence[c]>> \in Messages /\ IsKept(<<c, sequence[c]>>)
    BY <1>1, RelayParameters DEF Payloads, OutboxOK, StoredIsKept
<1>3. forwarded[c] \in Seq(Payloads) /\ Len(forwarded[c]) = sequence[c] - 1
    BY DEF TurnTyped, ChainsInOrder, ChainInOrder, Forwardable, Turn
<1>4. /\ forwarded'[c] = Append(forwarded[c], sequence[c])
      /\ forwarded'[c] \in Seq(Payloads)
      /\ Len(forwarded'[c]) = sequence[c]
      /\ \A i \in 1..Len(forwarded[c]) : forwarded'[c][i] = forwarded[c][i]
      /\ forwarded'[c][sequence[c]] = sequence[c]
  <2>1. forwarded'[c] = Append(forwarded[c], sequence[c])
    BY <1>1 DEF TurnTyped
  <2>2. sequence[c] \in Int /\ sequence[c] \in Payloads
    BY <1>1, RelayParameters DEF TurnTyped
  <2> QED BY <1>3, <2>1, <2>2, AppendedSeq
<1>5. TurnTyped' /\ OnlyOf(c)
    BY <1>4 DEF TurnTyped, OnlyOf
<1>6. ChainInOrder(c)'
  <2>1. stage'[c] = "send" /\ stage[c] = "persist" /\ Due(c)' = Due(c)
    BY DEF TurnTyped, Turn, Due
  <2> QED BY <1>1, <1>4, <2>1 DEF ChainsInOrder, ChainInOrder
<1>7. ASSUME NEW d \in Connections, NEW i \in DOMAIN forwarded'[d]
      PROVE  \/ i \in DOMAIN forwarded[d] /\ forwarded'[d][i] = forwarded[d][i]
             \/ d = c /\ i = sequence[c] /\ forwarded'[d][i] = sequence[c]
  <2>1. CASE d = c
    <3>1. i \in 1..Len(forwarded'[c]) /\ DOMAIN forwarded[c] = 1..Len(forwarded[c])
        BY <1>3, <1>4, <1>7, <2>1, LenProperties
    <3>2. i \in 1..Len(forwarded[c]) \/ i = sequence[c]
        BY <1>1, <1>3, <1>4, <3>1 DEF Payloads
    <3> QED BY <1>4, <2>1, <3>1, <3>2
  <2>2. CASE d # c
    BY <1>7, <2>2 DEF TurnTyped
  <2> QED BY <2>1, <2>2
<1>8. ForwardedInOrder'
  <2>1. ASSUME NEW d \in Connections, NEW i \in DOMAIN forwarded'[d]
        PROVE  forwarded'[d][i] = i
    BY <1>7, <2>1 DEF ForwardedInOrder
  <2> QED BY <2>1 DEF ForwardedInOrder
<1>9. ForwardedIsStored'
  <2>1. ASSUME NEW d \in Connections, NEW i \in DOMAIN forwarded'[d]
        PROVE  LET m == <<d, forwarded'[d][i]>>
               IN  m \in Skipped \/ m \in disk \/ recorded[m] > 0
    BY <1>2, <1>7, <2>1 DEF ForwardedIsStored, IsKept, IsRecorded
  <2> QED BY <2>1 DEF ForwardedIsStored
<1> QED BY <1>1, <1>2, <1>3, <1>5, <1>6, <1>8, <1>9, OtherChains

LEMMA TurnBySent ==
    ASSUME TurnOK, NEW c \in Connections, SentTurn(c)
    PROVE  TurnOK'
<1> USE DEF TurnOK
<1>1. Turn(c, "send") /\ UNCHANGED <<received, sequence, content, forwarded>>
    BY DEF SentTurn
<1>2. CASE BreakOff(c)
    BY <1>1, <1>2, TurnByBreakOff
<1>3. CASE Settled(c) /\ UNCHANGED linkVars
  <2>1. /\ chain' = [chain EXCEPT ![c] = Tail(@)]
        /\ stage' = [stage EXCEPT ![c] = "queued"]
        /\ UNCHANGED <<client, upstream, closed>>
    BY <1>3 DEF Settled, linkVars
  <2>2. /\ client[c] # "none" /\ chain[c] # <<>> /\ chain[c] \in Seq(Payloads)
        /\ Tail(chain[c]) \in Seq(Payloads) /\ stage[c] = "send"
    BY <1>1, TurnOpened DEF Turn
  <2>3. TurnTyped' /\ OnlyOf(c)
    BY <1>1, <2>1, <2>2 DEF TurnTyped, OnlyOf
  <2>4. /\ Due(c) = sequence[c] /\ Due(c)' = sequence[c] + 1 /\ sequence[c] \in Int
        /\ stage'[c] = "queued" /\ chain'[c] = Tail(chain[c])
    BY <1>1, <2>1, <2>2, RelayParameters DEF Due, TurnTyped
  <2>5. /\ Len(chain[c]) \in Nat /\ Len(Tail(chain[c])) = Len(chain[c]) - 1
        /\ \A i \in 1..Len(chain[c]) - 1 : Tail(chain[c])[i] = chain[c][i + 1]
    BY <2>2, ShortenedSeq
  <2>6. ASSUME NEW i \in 1..Len(chain'[c])
        PROVE  chain'[c][i] = Due(c)' + i - 1
    <3>1. i \in Int /\ i + 1 \in 1..Len(chain[c]) /\ chain'[c][i] = chain[c][i + 1]
        BY <2>4, <2>5
    <3>2. chain[c][i + 1] = sequence[c] + (i + 1) - 1
        BY <2>2, <2>4, <3>1 DEF ChainsInOrder, ChainInOrder
    <3>3. sequence[c] + (i + 1) - 1 = (sequence[c] + 1) + i - 1
        BY <2>4, <3>1
    <3> QED BY <2>4, <3>1, <3>2, <3>3
  <2>7. ~closed[c] => received[c] = Due(c)' + Len(chain'[c]) - 1
    <3>1. ~closed[c] => received[c] = Due(c) + Len(chain[c]) - 1
        BY DEF ChainsInOrder, ChainInOrder
    <3>2. Due(c) + Len(chain[c]) - 1 = Due(c)' + Len(chain'[c]) - 1
        BY <2>4, <2>5
    <3> QED BY <3>1, <3>2
  <2>8. ~closed[c] => Len(forwarded[c]) = sequence[c]
    BY <2>2 DEF ChainsInOrder, ChainInOrder
  <2>9. ChainInOrder(c)'
    BY <1>1, <2>1, <2>2, <2>4, <2>6, <2>7, <2>8 DEF ChainInOrder
  <2> QED BY <2>3, <2>9, OtherChains
<1> QED BY <1>2, <1>3 DEF SentTurn

LEMMA TurnByCrash ==
    ASSUME TurnOK, Crash
    PROVE  TurnOK' /\ UNCHANGED <<content, forwarded>>
<1> USE DEF TurnOK
<1> DEFINE opened == {c \in Connections : client[c] # "none"}
           down(state) == [c \in Connections |-> IF c \in opened THEN "closed" ELSE state[c]]
<1>1. /\ client' = down(client) /\ upstream' = down(upstream)
      /\ closed' = [c \in Connections |-> c \in opened]
      /\ chain' = [c \in Connections |-> <<>>]
      /\ stage' = [c \in Connections |-> "queued"]
      /\ UNCHANGED <<received, sequence, content, forwarded>>
    BY DEF Crash
<1>2. TurnTyped'
  <2>1. <<>> \in Seq(Payloads)
    BY EmptySeq
  <2> QED BY <1>1, <2>1 DEF TurnTyped
<1>3. ASSUME NEW c \in Connections
      PROVE  ChainInOrder(c)'
  <2>1. /\ chain'[c] = <<>> /\ stage'[c] = "queued" /\ Len(chain'[c]) = 0
        /\ closed'[c] <=> client[c] # "none"
        /\ client'[c] = "none" => client[c] = "none" /\ upstream'[c] = upstream[c]
    BY <1>1, EmptySeq
  <2>2. client[c] = "none" => Len(forwarded[c]) = 0
    BY EmptySeq DEF ChainsInOrder, ChainInOrder
  <2> QED BY <1>1, <2>1, <2>2 DEF ChainsInOrder, ChainInOrder, Due
<1> QED BY <1>1, <1>2, <1>3 DEF ChainsInOrder

----------------------------------------------------------------------------
(* The steps together.                                                      *)

RelayInv == RelayTyped /\ RelayOK

\* What a step does for AuditTrail: more is kept, one row is added, or the
\* next message is passed on.
KeepsMore == KeptStay /\ UNCHANGED <<recorded, forwarded>>

AddsRow == UNCHANGED <<disk, forwarded>> /\ \E m \in Messages : Insert(m)

PassesNext(c) ==
    /\ UNCHANGED <<disk, recorded>>
    /\ forwarded' = [forwarded EXCEPT ![c] = Append(@, sequence[c])]
    /\ forwarded[c] \in Seq(Payloads) /\ Len(forwarded[c]) = sequence[c] - 1
    /\ <<c, sequence[c]>> \in Messages /\ IsKept(<<c, sequence[c]>>)

StepAllowed == KeepsMore \/ AddsRow \/ \E c \in Connections : PassesNext(c)

LEMMA RelayInit ==
    Init => RelayInv
<1> SUFFICES ASSUME Init PROVE RelayInv
    OBVIOUS
<1> USE DEF Init, OutboxInit
<1>1. OutboxTyped
  <2>1. <<>> \in Seq(Operation)
    BY EmptySeq
  <2> QED BY <2>1 DEF OutboxTyped
<1>2. TurnTyped
  <2>1. <<>> \in Seq(Payloads)
    BY EmptySeq
  <2> QED BY <2>1, RelayParameters DEF TurnTyped
<1>3. OutboxOK
  <2>1. Len(operations) = 0
    BY EmptySeq
  <2> QED BY <2>1 DEF OutboxOK, AnswerIsTrue, RemovalsAreTrue, StoredIsKept, RecordedOnce
<1>4. ChainsInOrder
  <2> SUFFICES ASSUME NEW c \in Connections PROVE ChainInOrder(c)
    BY DEF ChainsInOrder
  <2>1. Len(chain[c]) = 0 /\ Len(forwarded[c]) = 0 /\ Due(c) = 1
    BY EmptySeq DEF Due
  <2> QED BY <2>1 DEF ChainInOrder
<1>5. ForwardedInOrder /\ ForwardedIsStored
  <2>1. \A c \in Connections : DOMAIN forwarded[c] = {}
    BY EmptySeq
  <2> QED BY <2>1, RelayParameters DEF ForwardedInOrder, ForwardedIsStored
<1> QED BY <1>1, <1>2, <1>3, <1>4, <1>5 DEF RelayInv, RelayTyped, RelayOK

\* The turns and what they forwarded, while the relay's state stays.
LEMMA TurnStays ==
    ASSUME TurnOK, UNCHANGED relayVars
    PROVE  TurnOK' /\ UNCHANGED <<content, forwarded>>
<1>1. UNCHANGED <<client, upstream, closed, received, chain, stage, sequence,
                  content, forwarded>>
    BY DEF relayVars, linkVars, chainVars
<1>2. TurnTyped'
    BY <1>1 DEF TurnOK, TurnTyped
<1>3. ASSUME NEW c \in Connections PROVE ChainInOrder(c)'
    BY <1>1 DEF TurnOK, ChainsInOrder, ChainInOrder, Due
<1> QED BY <1>1, <1>2, <1>3 DEF TurnOK, ChainsInOrder

\* Put together from the outbox's part and the turns' part of a step.
LEMMA StepPut ==
    ASSUME RelayInv, OutboxTyped', OutboxOK', KeptStay, TurnOK',
           UNCHANGED <<content, forwarded>>
    PROVE  RelayInv'
BY OrderKept DEF RelayInv, RelayTyped, RelayOK, TurnOK

LEMMA StepOfOutbox ==
    ASSUME RelayInv, OutboxStep \/ DeliveryStep \/ EndpointStep, UNCHANGED relayVars
    PROVE  RelayInv' /\ StepAllowed
<1> USE DEF RelayInv, RelayTyped, RelayOK
<1>1. OutboxTyped' /\ OutboxOK'
    BY TypedByOutbox, TypedByDelivery, TypedByEndpoint, OkByOutboxStep, OkByDelivery,
       OkByEndpoint
<1>2. KeptStay
    BY KeptByOutbox
<1>3. TurnOK' /\ UNCHANGED <<content, forwarded>>
    BY TurnStays DEF TurnOK
<1>4. StepAllowed
  <2>1. CASE OutboxStep \/ DeliveryStep
    <3>1. recorded' = recorded
        BY <2>1 DEF OutboxStep, RenameCapture, RefuseCapture, SyncCapture, FailSync,
           RemoveCapture, FailRemove, DeliveryStep, RetryTimer, StartDrain, Entries,
           FailEntries, FinishDrain, Deliver, Undelivered, LoseAnswer, Acknowledged,
           endpointVars
    <3> QED BY <1>2, <1>3, <3>1 DEF StepAllowed, KeepsMore
  <2>2. CASE EndpointStep
    <3>1. disk' = disk
        BY <2>2 DEF EndpointStep, StoreCapture, StoreLate, outboxVars
    <3>2. recorded' = recorded \/ \E m \in Messages : Insert(m)
        BY <2>2 DEF EndpointStep, StoreCapture, StoreLate, OutboxTyped, OutboxOK,
           AnswerIsTrue
    <3> QED BY <1>2, <1>3, <3>1, <3>2 DEF StepAllowed, KeepsMore, AddsRow
  <2> QED BY <2>1, <2>2
<1> QED BY <1>1, <1>2, <1>3, <1>4, StepPut

\* A step of the relay that does nothing to the outbox but wake its delivery,
\* and forwards nothing.
LEMMA StepOfTurn ==
    ASSUME RelayInv, TurnOK', UNCHANGED <<content, forwarded>>,
           UNCHANGED <<outboxVars, endpointVars, draining, batch, posted, answer>>
    PROVE  RelayInv' /\ StepAllowed
<1>1. OutboxTyped' /\ OutboxOK' /\ KeptStay
    BY OutboxKept DEF RelayInv, RelayTyped, RelayOK
<1>2. recorded' = recorded
    BY DEF endpointVars
<1> QED BY <1>1, <1>2, StepPut DEF StepAllowed, KeepsMore

LEMMA StepOfConnection ==
    ASSUME RelayInv, NEW c \in Connections,
           Bridge(c) \/ Ends(c) \/ ChangePolicy(c) \/ ClientMessage(c) \/ TurnStep(c)
    PROVE  RelayInv' /\ StepAllowed
<1>1. TurnOK /\ OutboxTyped /\ OutboxOK /\ ForwardedInOrder /\ ForwardedIsStored
    BY DEF RelayInv, RelayTyped, RelayOK, TurnOK
<1>2. ASSUME UNCHANGED wsVars
      PROVE  UNCHANGED <<outboxVars, endpointVars, draining, batch, posted, answer>>
    BY <1>2 DEF wsVars, deliveryVars
<1>3. CASE Bridge(c) \/ Ends(c)
    BY <1>1, <1>2, <1>3, TurnByEnds, StepOfTurn
<1>4. CASE ChangePolicy(c)
  <2>1. UNCHANGED <<wsVars, linkVars, chainVars>>
    BY <1>4 DEF ChangePolicy
  <2>2. UNCHANGED <<client, upstream, closed, received, chain, stage, sequence,
                    content, forwarded>>
    BY <2>1 DEF linkVars, chainVars
  <2>3. TurnTyped'
    BY <1>1, <2>2 DEF TurnOK, TurnTyped
  <2>4. ASSUME NEW d \in Connections PROVE ChainInOrder(d)'
    BY <1>1, <2>2 DEF TurnOK, ChainsInOrder, ChainInOrder, Due
  <2> QED BY <1>2, <2>1, <2>2, <2>3, <2>4, StepOfTurn DEF TurnOK, ChainsInOrder
<1>5. CASE ClientMessage(c)
    BY <1>1, <1>2, <1>5, TurnByMessage, StepOfTurn
<1>6. CASE StartTurn(c)
    BY <1>1, <1>2, <1>6, TurnByStart, StepOfTurn
<1>7. CASE RejectTurn(c)
  <2>1. /\ Turn(c, "policy") /\ BreakOff(c)
        /\ UNCHANGED <<received, sequence, content, forwarded>>
        /\ UNCHANGED <<outboxVars, endpointVars, draining, batch, posted, answer>>
    BY <1>7 DEF RejectTurn, deliveryVars
  <2> QED BY <1>1, <2>1, TurnByBreakOff, StepOfTurn
<1>8. CASE PersistTurn(c)
  <2>1. /\ TurnOK' /\ OutboxTyped' /\ OutboxOK' /\ KeptStay
        /\ ForwardedInOrder' /\ ForwardedIsStored'
    BY <1>1, <1>8, TurnByPersist
  <2>2. UNCHANGED <<recorded, forwarded>>
    BY <1>8 DEF PersistTurn, endpointVars
  <2> QED BY <2>1, <2>2 DEF RelayInv, RelayTyped, RelayOK, TurnOK, StepAllowed, KeepsMore
<1>9. CASE RefusedTurn(c)
  <2>1. /\ Turn(c, "persist") /\ BreakOff(c) /\ UNCHANGED wsVars
        /\ UNCHANGED <<received, sequence, content, forwarded>>
    BY <1>9 DEF RefusedTurn
  <2> QED BY <1>1, <1>2, <2>1, TurnByBreakOff, StepOfTurn
<1>10. CASE StoredTurn(c)
  <2>1. /\ Turn(c, "persist") /\ promise[<<c, sequence[c]>>] = "stored"
        /\ UNCHANGED <<outboxVars, endpointVars, draining, batch, posted, answer>>
        /\ UNCHANGED <<received, sequence, content>>
    BY <1>10 DEF StoredTurn
  <2>2. CASE BreakOff(c) /\ UNCHANGED forwarded
    BY <1>1, <2>1, <2>2, TurnByBreakOff, StepOfTurn
  <2>3. CASE /\ Forwardable(c)
             /\ forwarded' = [forwarded EXCEPT ![c] = Append(@, Head(chain[c]))]
             /\ stage' = [stage EXCEPT ![c] = "send"]
             /\ UNCHANGED <<chain, linkVars>>
    <3>1. UNCHANGED <<disk, recorded, client, upstream, closed>>
        BY <2>1, <2>3 DEF outboxVars, endpointVars, linkVars
    <3>2. /\ TurnOK' /\ ForwardedInOrder' /\ ForwardedIsStored'
          /\ <<c, sequence[c]>> \in Messages /\ IsKept(<<c, sequence[c]>>)
          /\ Head(chain[c]) = sequence[c]
          /\ forwarded[c] \in Seq(Payloads) /\ Len(forwarded[c]) = sequence[c] - 1
        BY <1>1, <2>1, <2>3, <3>1, TurnByForward
    <3>3. OutboxTyped' /\ OutboxOK'
        BY <1>1, <2>1, OutboxKept
    <3>4. PassesNext(c)
        BY <2>3, <3>1, <3>2 DEF PassesNext
    <3> QED BY <3>2, <3>3, <3>4 DEF RelayInv, RelayTyped, RelayOK, TurnOK, StepAllowed
  <2> QED BY <1>10, <2>2, <2>3 DEF StoredTurn
<1>11. CASE SentTurn(c)
  <2>1. UNCHANGED <<wsVars, content, forwarded>>
    BY <1>11 DEF SentTurn
  <2> QED BY <1>1, <1>2, <1>11, <2>1, TurnBySent, StepOfTurn
<1> QED BY <1>3, <1>4, <1>5, <1>6, <1>7, <1>8, <1>9, <1>10, <1>11 DEF TurnStep

LEMMA StepOfCrash ==
    ASSUME RelayInv, Crash
    PROVE  RelayInv' /\ StepAllowed
<1>1. OutboxCrash /\ recorded' = recorded
    BY DEF Crash, OutboxCrash
<1>2. OutboxTyped' /\ OutboxOK' /\ KeptStay
    BY <1>1, OutboxByCrash, KeptByOutbox DEF RelayInv, RelayTyped, RelayOK
<1>3. TurnOK' /\ UNCHANGED <<content, forwarded>>
    BY TurnByCrash DEF RelayInv, RelayTyped, RelayOK, TurnOK
<1> QED BY <1>1, <1>2, <1>3, StepPut DEF StepAllowed, KeepsMore

LEMMA RelayStep ==
    ASSUME RelayInv, Next
    PROVE  RelayInv' /\ StepAllowed
BY StepOfOutbox, StepOfConnection, StepOfCrash DEF Next

LEMMA RelayStutters ==
    ASSUME RelayInv, UNCHANGED vars
    PROVE  RelayInv'
<1>1. /\ UNCHANGED <<outboxVars, endpointVars, draining, batch, posted, answer>>
      /\ UNCHANGED relayVars
    BY DEF vars, wsVars, deliveryVars
<1>2. TurnOK' /\ UNCHANGED <<content, forwarded>>
    BY <1>1, TurnStays DEF RelayInv, RelayTyped, RelayOK, TurnOK
<1> QED BY <1>1, <1>2, StepOfTurn

LEMMA SpecRelay ==
    Spec => []RelayInv
<1>1. RelayInv /\ [Next]_vars => RelayInv'
    BY RelayStep, RelayStutters
<1> QED BY RelayInit, <1>1, PTL DEF Spec

----------------------------------------------------------------------------
(* The results.                                                             *)

\* ws-relay/server.ts hands a message to the upstream only when the outbox has
\* it: it is on disk where a crash of the host does not take it, or it is
\* recorded, and stays so whatever calls fail and however often the process
\* ends.
THEOREM ForwardedStays ==
    Spec => []ForwardedIsStored
BY SpecRelay, PTL DEF RelayInv, RelayOK

\* The upstream gets the messages of a connection in the client's order and
\* without a gap, and a stored message has the payload of its number, though
\* turns fail, messages are skipped after the end and the outbox refuses some.
THEOREM ForwardedOrdered ==
    Spec => []ForwardedInOrder
BY SpecRelay, PTL DEF RelayInv, RelayOK

\* The capture endpoint has one row of a message at most, however often
\* ws-relay/outbox.ts delivers it: again after a lost answer, after a removal
\* that failed or a crash, or while an earlier request is still at work.
THEOREM OneRow ==
    Spec => []RecordedOnce
BY SpecRelay, PTL DEF RelayInv, RelayOK, OutboxOK

----------------------------------------------------------------------------
(* The relay implements AuditTrail, but for the trail's fairness.           *)

Captured == Messages \ Skipped

KeptMessages == {m \in Captured : m \in disk \/ recorded[m] > 0}

PassedMessages ==
    {m \in Captured : \E i \in DOMAIN forwarded[m[1]] : forwarded[m[1]][i] = m[2]}

Rows == [m \in Captured |-> recorded[m]]

LEMMA TrailState ==
    /\ Trail!trailVars = <<KeptMessages, PassedMessages, Rows>>
    /\ Trail!trailVars' = <<KeptMessages', PassedMessages', Rows'>>
BY DEF Trail!trailVars, KeptMessages, PassedMessages, Rows, Captured

LEMMA TrailInit ==
    Init => Trail!Init
<1> SUFFICES ASSUME Init PROVE Trail!Init
    OBVIOUS
<1>1. KeptMessages = {}
    BY DEF Init, OutboxInit, KeptMessages, Captured
<1>2. PassedMessages = {}
  <2>1. \A m \in Captured : m[1] \in Connections
    BY RelayParameters DEF Captured
  <2>2. \A c \in Connections : DOMAIN forwarded[c] = {}
    BY EmptySeq DEF Init
  <2> QED BY <2>1, <2>2 DEF PassedMessages
<1>3. Rows = [m \in Captured |-> 0]
    BY DEF Init, OutboxInit, Rows, Captured
<1> QED BY <1>1, <1>2, <1>3 DEF Trail!Init, KeptMessages, PassedMessages, Rows, Captured

LEMMA TrailKeep ==
    ASSUME RelayInv, KeepsMore
    PROVE  Trail!Keep
<1>1. KeptMessages \subseteq KeptMessages'
    BY DEF KeepsMore, KeptStay, IsKept, IsRecorded, KeptMessages, Captured
<1>2. KeptMessages' \subseteq Captured
    BY DEF KeptMessages
<1>3. PassedMessages' = PassedMessages /\ Rows' = Rows
    BY DEF KeepsMore, PassedMessages, Rows
<1>4. \E ms \in SUBSET Captured : KeptMessages' = KeptMessages \cup ms
    BY <1>1, <1>2
<1> QED BY <1>3, <1>4 DEF Trail!Keep, KeptMessages, PassedMessages, Rows, Captured

\* An insertion that adds nothing leaves the trail as it is.
LEMMA TrailRecord ==
    ASSUME RelayInv, AddsRow
    PROVE  \/ \E m \in Captured : Trail!Record(m)
           \/ UNCHANGED Trail!trailVars
<1>1. PICK m \in Messages : Insert(m)
    BY DEF AddsRow
<1>2. recorded \in [Messages -> Nat] /\ UNCHANGED <<disk, forwarded>>
    BY DEF RelayInv, RelayTyped, OutboxTyped, AddsRow
<1>3. PassedMessages' = PassedMessages
    BY <1>2 DEF PassedMessages
<1>4. CASE m \in Skipped \/ recorded[m] > 0
  <2>1. recorded' = recorded
    BY <1>1, <1>4 DEF Insert
  <2>2. KeptMessages' = KeptMessages /\ Rows' = Rows
    BY <1>2, <2>1 DEF KeptMessages, Rows
  <2> QED BY <1>3, <2>2, TrailState
<1>5. CASE m \notin Skipped /\ ~(recorded[m] > 0)
  <2>1. m \in Captured /\ recorded[m] = 0 /\ recorded' = [recorded EXCEPT ![m] = 1]
    <3>1. recorded[m] \in Nat
        BY <1>2
    <3>2. recorded[m] = 0
        BY <1>5, <3>1
    <3>3. recorded' = [recorded EXCEPT ![m] = recorded[m] + 1]
        BY <1>1, <1>5 DEF Insert
    <3> QED BY <1>5, <3>2, <3>3 DEF Captured
  <2>2. Rows[m] = 0 /\ Rows' = [Rows EXCEPT ![m] = 1]
    BY <1>2, <2>1 DEF Rows, Captured
  <2>3. KeptMessages' = KeptMessages \cup {m}
    BY <1>2, <2>1 DEF KeptMessages, Captured
  <2>4. Trail!Record(m)
    BY <1>3, <2>2, <2>3 DEF Trail!Record, KeptMessages, PassedMessages, Rows, Captured
  <2> QED BY <2>1, <2>4
<1> QED BY <1>4, <1>5

\* The message that is forwarded was not passed on before: the upstream has
\* exactly those with a smaller number.
LEMMA TrailPass ==
    ASSUME RelayInv, NEW c \in Connections, PassesNext(c)
    PROVE  \/ \E m \in Captured : Trail!Pass(m)
           \/ UNCHANGED Trail!trailVars
<1> DEFINE next == <<c, sequence[c]>>
<1>1. /\ UNCHANGED <<disk, recorded>> /\ next \in Messages /\ IsKept(next)
      /\ forwarded[c] \in Seq(Payloads) /\ Len(forwarded[c]) = sequence[c] - 1
    BY DEF PassesNext
<1>2. sequence[c] \in Payloads /\ sequence[c] \in Int
    BY <1>1, RelayParameters DEF Payloads
<1>3. /\ forwarded'[c] = Append(forwarded[c], sequence[c])
      /\ \A d \in Connections \ {c} : forwarded'[d] = forwarded[d]
    BY DEF PassesNext, RelayInv, RelayTyped, TurnTyped
<1>4. /\ DOMAIN forwarded[c] = 1..(sequence[c] - 1)
      /\ DOMAIN forwarded'[c] = 1..sequence[c]
      /\ \A i \in 1..(sequence[c] - 1) : forwarded'[c][i] = forwarded[c][i]
      /\ forwarded'[c][sequence[c]] = sequence[c]
  <2>1. /\ forwarded'[c] \in Seq(Payloads)
        /\ Len(forwarded'[c]) = Len(forwarded[c]) + 1
        /\ \A i \in 1..Len(forwarded[c]) : forwarded'[c][i] = forwarded[c][i]
        /\ forwarded'[c][Len(forwarded[c]) + 1] = sequence[c]
    BY <1>1, <1>2, <1>3, AppendedSeq
  <2>2. /\ DOMAIN forwarded[c] = 1..Len(forwarded[c])
        /\ DOMAIN forwarded'[c] = 1..Len(forwarded'[c])
    BY <1>1, <2>1, LenProperties
  <2>3. Len(forwarded[c]) + 1 = sequence[c]
    BY <1>1, <1>2
  <2> QED BY <1>1, <2>1, <2>2, <2>3
<1>5. KeptMessages' = KeptMessages /\ Rows' = Rows
    BY <1>1 DEF KeptMessages, Rows
<1>6. \A m \in Captured : m = <<m[1], m[2]>> /\ m[1] \in Connections
    BY RelayParameters DEF Captured
<1>7. ASSUME NEW m \in Captured
      PROVE  m \in PassedMessages' <=> m \in PassedMessages \/ m = next
  <2>1. CASE m[1] = c
    <3>1. m = next <=> m[2] = sequence[c]
        BY <1>6, <2>1
    <3>2. (\E i \in 1..sequence[c] : forwarded'[c][i] = m[2])
          <=> \/ \E i \in 1..(sequence[c] - 1) : forwarded[c][i] = m[2]
              \/ m[2] = sequence[c]
      <4>1. 1..sequence[c] = (1..(sequence[c] - 1)) \cup {sequence[c]}
        BY <1>2 DEF Payloads
      <4> QED BY <1>4, <4>1
    <3> QED BY <1>4, <2>1, <3>1, <3>2 DEF PassedMessages
  <2>2. CASE m[1] # c
    BY <1>3, <1>6, <2>2 DEF PassedMessages
  <2> QED BY <2>1, <2>2
<1>8. next \notin PassedMessages
  <2>1. \A i \in DOMAIN forwarded[c] : forwarded[c][i] = i /\ i < sequence[c]
    BY <1>2, <1>4 DEF RelayInv, RelayOK, ForwardedInOrder
  <2> QED BY <1>2, <2>1 DEF PassedMessages
<1>9. CASE next \in Skipped
  <2>1. PassedMessages' = PassedMessages
    BY <1>7, <1>9 DEF PassedMessages, Captured
  <2> QED BY <1>5, <2>1, TrailState
<1>10. CASE next \notin Skipped
  <2>1. next \in Captured /\ next \in KeptMessages \ PassedMessages
    BY <1>1, <1>8, <1>10 DEF Captured, KeptMessages, IsKept, IsRecorded
  <2>2. PassedMessages' = PassedMessages \cup {next}
    BY <1>7, <2>1 DEF PassedMessages
  <2>3. PICK m \in Captured : m = next
    BY <2>1
  <2>4. Trail!Pass(m)
    BY <1>5, <2>1, <2>2, <2>3 DEF Trail!Pass, KeptMessages, PassedMessages, Rows, Captured
  <2> QED BY <2>4
<1> QED BY <1>9, <1>10

LEMMA TrailStep ==
    ASSUME RelayInv, [Next]_vars
    PROVE  [Trail!Next]_(Trail!trailVars)
<1>1. CASE Next
  <2>1. StepAllowed
    BY <1>1, RelayStep
  <2>2. \/ Trail!Keep \/ UNCHANGED Trail!trailVars
        \/ \E m \in Captured : Trail!Pass(m) \/ Trail!Record(m)
    BY <2>1, TrailKeep, TrailRecord, TrailPass DEF StepAllowed
  <2> QED BY <2>2 DEF Trail!Next, Captured
<1>2. CASE UNCHANGED vars
  <2>1. UNCHANGED <<disk, recorded, forwarded>>
    BY <1>2 DEF vars, wsVars, outboxVars, endpointVars, relayVars, chainVars
  <2>2. KeptMessages' = KeptMessages /\ PassedMessages' = PassedMessages /\ Rows' = Rows
    BY <2>1 DEF KeptMessages, PassedMessages, Rows
  <2> QED BY <2>2, TrailState
<1> QED BY <1>1, <1>2

\* The promise of AuditTrail in every behaviour of the relay, the outbox and the
\* endpoint: what is passed on was kept before, what is kept is never lost, and
\* rows are added one by one.  (That every kept message is recorded in the end
\* needs the fairness of FairSpec and is checked as TrailKept.)
THEOREM TrailFollowed ==
    Spec => Trail!Init /\ [][Trail!Next]_(Trail!trailVars)
BY TrailInit, TrailStep, SpecRelay, PTL DEF Spec

----------------------------------------------------------------------------
(* The bytes of messages.                                                   *)

FileBytes(ms) == UNION {{m} \X (1..Size[m]) : m \in ms}

LEMMA OneSize ==
    ASSUME NEW m \in Messages
    PROVE  /\ IsFiniteSet({m} \X (1..Size[m]))
           /\ Cardinality({m} \X (1..Size[m])) = Size[m]
           /\ Size[m] \in Nat /\ Size[m] > 0
<1>1. Size[m] \in Nat /\ Size[m] > 0
    BY CaptureParameters
<1>2. PICK n \in Nat : n = Size[m]
    BY <1>1
<1>3. IsFiniteSet({m}) /\ Cardinality({m}) = 1
    BY FS_Singleton
<1>4. /\ IsFiniteSet(1..n)
      /\ Cardinality(1..n) = IF 1 > n THEN 0 ELSE n - 1 + 1
  <2>1. 1 \in Int /\ n \in Int
    OBVIOUS
  <2> QED BY ONLY <2>1, FS_Interval
<1>5. Cardinality(1..n) = n
    BY <1>1, <1>2, <1>4
<1>6. IsFiniteSet({m} \X (1..n))
    BY <1>3, <1>4, FS_Product
<1>7. Cardinality({m} \X (1..n)) = 1 * n
    BY <1>3, <1>4, <1>5, FS_Product
<1> QED BY <1>1, <1>2, <1>6, <1>7

LEMMA SizeTyped ==
    ASSUME NEW S \in SUBSET Messages, IsFiniteSet(S)
    PROVE  IsFiniteSet(FileBytes(S)) /\ SizeOf(S) \in Nat
<1> DEFINE T == {{m} \X (1..Size[m]) : m \in S}
           f == [m \in S |-> {m} \X (1..Size[m])]
<1>1. f \in Surjection(S, T)
    BY DEF Surjection
<1>2. IsFiniteSet(T)
    BY <1>1, FS_Surjection
<1>3. \A t \in T : IsFiniteSet(t)
    BY OneSize
<1> HIDE DEF T, f
<1>4. IsFiniteSet(UNION T)
    BY <1>2, <1>3, FS_UNION
<1> QED BY <1>4, FS_CardinalityType DEF SizeOf, FileBytes, T

LEMMA SizeAdd ==
    ASSUME NEW S \in SUBSET Messages, IsFiniteSet(S), NEW m \in Messages, m \notin S
    PROVE  SizeOf(S \cup {m}) = SizeOf(S) + Size[m]
<1> DEFINE B == FileBytes(S)
           M == {m} \X (1..Size[m])
<1>1. IsFiniteSet(B) /\ IsFiniteSet(M) /\ Cardinality(M) = Size[m] /\ Size[m] \in Nat
    BY SizeTyped, OneSize
<1>2. FileBytes(S \cup {m}) = B \cup M
    BY DEF FileBytes
<1>3. B \cap M = {}
    BY DEF FileBytes
<1> HIDE DEF B, M
<1>4. Cardinality(B \cup M) = Cardinality(B) + Cardinality(M) - Cardinality(B \cap M)
    BY <1>1, FS_Union
<1>5. Cardinality(B) \in Nat /\ Cardinality(B \cap M) = 0
    BY <1>1, <1>3, FS_CardinalityType, FS_EmptySet
<1>6. Cardinality(B \cup M) = Cardinality(B) + Size[m]
    BY <1>1, <1>4, <1>5
<1> QED BY <1>2, <1>6 DEF SizeOf, FileBytes, B

LEMMA SizeRemove ==
    ASSUME NEW S \in SUBSET Messages, IsFiniteSet(S), NEW m \in S
    PROVE  /\ SizeOf(S \ {m}) = SizeOf(S) - Size[m]
           /\ SizeOf(S \ {m}) \in Nat /\ SizeOf(S) \in Nat
<1>1. S \ {m} \in SUBSET Messages /\ m \in Messages /\ m \notin S \ {m}
    OBVIOUS
<1>2. IsFiniteSet(S \ {m})
    BY FS_RemoveElement
<1>3. SizeOf((S \ {m}) \cup {m}) = SizeOf(S \ {m}) + Size[m]
    BY <1>1, <1>2, SizeAdd
<1>4. (S \ {m}) \cup {m} = S
    OBVIOUS
<1>5. SizeOf(S \ {m}) \in Nat /\ SizeOf(S) \in Nat /\ Size[m] \in Nat
    BY <1>1, <1>2, SizeTyped, OneSize
<1> QED BY <1>3, <1>4, <1>5

LEMMA SizeEmpty == SizeOf({}) = 0
<1>1. FileBytes({}) = {}
    BY DEF FileBytes
<1> QED BY <1>1, FS_EmptySet DEF SizeOf, FileBytes

LEMMA FiniteMessages ==
    /\ IsFiniteSet(Messages)
    /\ \A S \in SUBSET Messages : IsFiniteSet(S)
<1>1. IsFiniteSet(1..MaxSequence)
    BY RelayParameters, FS_Interval
<1>2. IsFiniteSet(Messages)
    BY <1>1, RelayParameters, FS_Product
<1> QED BY <1>2, FS_Subset

----------------------------------------------------------------------------
(* The usage of the outbox.                                                 *)

\* A capture that waits to be written is not in the directory, and waits once.
CapturesAreNew ==
    \A i \in 1..Len(operations) : operations[i].kind = "persist" =>
        /\ operations[i].message \notin files \/ (i = 1 /\ renamed)
        /\ \A j \in 1..Len(operations) :
              operations[j].kind = "persist" /\ operations[j].message = operations[i].message
              => i = j

\* Every capture has a number that its connection has given.
Numbered(m) == m[2] <= sequence[m[1]]

CapturesAreNumbered ==
    /\ \A m \in files \cup disk : Numbered(m)
    /\ \A i \in 1..Len(operations) :
          operations[i].kind = "persist" => Numbered(operations[i].message)

\* The usage counts no file that is gone, and has room for the one renamed.
UsageCounted ==
    /\ bytes \in Nat
    /\ IF renamed THEN bytes + Size[Head(operations).message] <= SizeOf(files)
                  ELSE bytes <= SizeOf(files)

UsageInv == CapturesAreNew /\ CapturesAreNumbered /\ UsageCounted

\* The running capture settles.
LEMMA UsageBySettle ==
    ASSUME RelayInv, UsageInv, Running("persist") \/ Running("remove"),
           operations' = Tail(operations), renamed' = FALSE,
           files' \subseteq files, disk' \subseteq files \cup disk,
           UNCHANGED sequence,
           bytes' \in Nat, bytes' <= SizeOf(files')
    PROVE  UsageInv'
<1> DEFINE n == Len(operations)
<1>1. /\ operations \in Seq(Operation) /\ operations # <<>>
      /\ operations' \in Seq(Operation) /\ n \in Nat /\ n > 0
      /\ Len(operations') = n - 1
      /\ \A i \in 1..n - 1 : operations'[i] = operations[i + 1]
    BY ShortenedSeq DEF Running, RelayInv, RelayTyped, OutboxTyped
<1> HIDE DEF n
<1>2. \A i \in 1..n - 1 : i + 1 \in 1..n /\ i + 1 # 1
    BY <1>1
<1>3. \A i, j \in 1..n - 1 : i + 1 = j + 1 => i = j
    BY <1>1
<1>4. CapturesAreNew'
  <2>1. SUFFICES ASSUME NEW i \in 1..n - 1, operations'[i].kind = "persist"
                 PROVE  /\ operations'[i].message \notin files'
                        /\ \A j \in 1..n - 1 :
                              operations'[j].kind = "persist"
                              /\ operations'[j].message = operations'[i].message => i = j
    BY <1>1 DEF CapturesAreNew
  <2>2. /\ operations[i + 1].kind = "persist"
        /\ operations[i + 1].message \notin files
        /\ \A j \in 1..n : operations[j].kind = "persist"
                           /\ operations[j].message = operations[i + 1].message => i + 1 = j
    BY <1>1, <1>2, <2>1 DEF UsageInv, CapturesAreNew, n
  <2> QED BY <1>1, <1>2, <1>3, <2>1, <2>2
<1>5. CapturesAreNumbered'
  <2>1. \A m \in files' \cup disk' : Numbered(m)'
    BY DEF UsageInv, CapturesAreNumbered, Numbered
  <2>2. ASSUME NEW i \in 1..n - 1, operations'[i].kind = "persist", NEW m,
               m = operations'[i].message
        PROVE  Numbered(m)'
    <3>1. i + 1 \in 1..n /\ operations[i + 1] = operations'[i]
        BY <1>1, <1>2
    <3> QED BY <2>2, <3>1 DEF UsageInv, CapturesAreNumbered, Numbered, n
  <2> QED BY <1>1, <2>1, <2>2 DEF CapturesAreNumbered, Numbered
<1>6. UsageCounted'
    BY DEF UsageCounted
<1> QED BY <1>4, <1>5, <1>6 DEF UsageInv

LEMMA UsageByRename ==
    ASSUME RelayInv, UsageInv, RenameCapture, UNCHANGED relayVars
    PROVE  UsageInv'
<1> DEFINE m == Head(operations).message
           n == Len(operations)
<1>1. /\ Running("persist") /\ ~renamed /\ files' = files \cup {m} /\ renamed' = TRUE
      /\ UNCHANGED <<disk, bytes, operations, sequence>>
    BY DEF RenameCapture, relayVars, chainVars
<1>2. /\ m \in Messages /\ operations # <<>> /\ operations \in Seq(Operation)
    BY <1>1, RunningTyped DEF RelayInv, RelayTyped, OutboxTyped
<1>3. /\ n \in Nat /\ n > 0 /\ Head(operations) = operations[1]
      /\ operations[1].kind = "persist" /\ operations[1].message = m
    BY <1>1, <1>2, ShortenedSeq DEF Running
<1>4. 1 \in 1..n
    BY <1>3
<1>5. m \notin files
    BY <1>1, <1>3, <1>4 DEF UsageInv, CapturesAreNew
<1>6. /\ files \in SUBSET Messages /\ IsFiniteSet(files)
    BY FiniteMessages DEF RelayInv, RelayTyped, OutboxTyped
<1>7. SizeOf(files') = SizeOf(files) + Size[m] /\ SizeOf(files) \in Nat /\ Size[m] \in Nat
    BY <1>1, <1>2, <1>5, <1>6, SizeAdd, SizeTyped, OneSize
<1>8. CapturesAreNew'
  <2>1. ASSUME NEW i \in 1..n, operations[i].kind = "persist", i # 1
        PROVE  operations[i].message \notin files \cup {m}
    BY <1>1, <1>3, <1>4, <2>1 DEF UsageInv, CapturesAreNew
  <2> QED BY <1>1, <2>1 DEF UsageInv, CapturesAreNew
<1>9. CapturesAreNumbered'
  <2>1. Numbered(m)
    BY <1>3, <1>4 DEF UsageInv, CapturesAreNumbered
  <2> QED BY <1>1, <2>1 DEF UsageInv, CapturesAreNumbered, Numbered
<1>10. bytes \in Nat /\ bytes <= SizeOf(files)
    BY <1>1 DEF UsageInv, UsageCounted
<1> HIDE DEF m
<1>11. bytes + Size[m] <= SizeOf(files')
    BY <1>7, <1>10
<1>12. UsageCounted'
    BY <1>1, <1>10, <1>11 DEF UsageCounted, m
<1> QED BY <1>8, <1>9, <1>12 DEF UsageInv

LEMMA UsageByOutbox ==
    ASSUME RelayInv, UsageInv, OutboxStep, UNCHANGED relayVars
    PROVE  UsageInv'
<1> DEFINE m == Head(operations).message
<1>1. /\ files \in SUBSET Messages /\ IsFiniteSet(files) /\ SizeOf(files) \in Nat
      /\ UNCHANGED sequence /\ bytes \in Nat
      /\ renamed => Head(operations).kind = "persist"
      /\ ~renamed => bytes <= SizeOf(files)
    BY FiniteMessages, SizeTyped
    DEF RelayInv, RelayTyped, OutboxTyped, relayVars, chainVars, UsageInv, UsageCounted,
        RelayOK, OutboxOK, StoredIsKept
<1>2. ASSUME renamed
      PROVE  bytes + Size[m] \in Nat /\ bytes + Size[m] <= SizeOf(files) /\ bytes <= SizeOf(files)
  <2>1. bytes + Size[m] <= SizeOf(files) /\ m \in Messages
    BY <1>1, <1>2 DEF UsageInv, UsageCounted, RelayInv, RelayTyped, OutboxTyped, RelayOK,
                      OutboxOK, StoredIsKept
  <2>2. Size[m] \in Nat
    BY <2>1, OneSize
  <2> HIDE DEF m
  <2> QED BY <1>1, <2>1, <2>2
<1>3. CASE RenameCapture
    BY <1>3, UsageByRename
<1>4. CASE RefuseCapture
  <2>1. /\ Running("persist") /\ ~renamed /\ operations' = Tail(operations)
        /\ renamed' = FALSE /\ UNCHANGED <<files, disk, bytes>>
    BY <1>4 DEF RefuseCapture, Settle
  <2> QED BY <1>1, <2>1, UsageBySettle
<1>5. CASE SyncCapture
  <2>1. /\ Running("persist") /\ renamed /\ operations' = Tail(operations)
        /\ renamed' = FALSE /\ files' = files /\ disk' = files /\ bytes' = bytes + Size[m]
    BY <1>5 DEF SyncCapture, Settle, SyncDirectory
  <2> HIDE DEF m
  <2> QED BY <1>1, <1>2, <2>1, UsageBySettle
<1>6. CASE FailSync
  <2>1. /\ Running("persist") /\ renamed /\ operations' = Tail(operations)
        /\ renamed' = FALSE /\ UNCHANGED <<files, disk, bytes>>
    BY <1>6 DEF FailSync, Settle
  <2> QED BY <1>1, <1>2, <2>1, UsageBySettle
<1>7. CASE FailRemove
  <2>1. /\ Running("remove") /\ operations' = Tail(operations)
        /\ UNCHANGED <<files, disk, bytes, renamed>>
    BY <1>7 DEF FailRemove
  <2>2. ~renamed
    BY <1>1, <2>1 DEF Running
  <2>3. renamed = FALSE
    BY <2>2 DEF RelayInv, RelayTyped, OutboxTyped
  <2> QED BY <1>1, <2>1, <2>2, <2>3, UsageBySettle
<1>8. CASE RemoveCapture
  <2> DEFINE freed == IF m \in files THEN Size[m] ELSE 0
  <2>1. /\ Running("remove") /\ operations' = Tail(operations)
        /\ files' = files \ {m} /\ bytes' = BytesLeft(freed)
        /\ UNCHANGED <<disk, renamed>>
    BY <1>8 DEF RemoveCapture
  <2>2. ~renamed
    BY <1>1, <2>1 DEF Running
  <2>3. renamed = FALSE
    BY <2>2 DEF RelayInv, RelayTyped, OutboxTyped
  <2>4. SizeOf(files') = SizeOf(files) - freed /\ freed \in Nat /\ SizeOf(files') \in Nat
    <3>1. CASE m \in files
        <4>1. Size[m] \in Nat
            BY <1>1, <3>1, OneSize
        <4>2. SizeOf(files') = SizeOf(files) - Size[m] /\ SizeOf(files') \in Nat
            BY <1>1, <2>1, <3>1, SizeRemove
        <4> QED BY <3>1, <4>1, <4>2
    <3>2. CASE m \notin files
        <4>1. files' = files /\ freed = 0
            BY <2>1, <3>2
        <4> QED BY <1>1, <4>1
    <3> QED BY <3>1, <3>2
  <2> HIDE DEF freed
  <2>5. bytes' \in Nat /\ bytes' <= SizeOf(files')
    BY <1>1, <2>1, <2>2, <2>4 DEF BytesLeft
  <2> QED BY <1>1, <2>1, <2>3, <2>5, UsageBySettle
<1> QED BY <1>3, <1>4, <1>5, <1>6, <1>7, <1>8 DEF OutboxStep

\* A call joins the queue: a removal, or a capture with a number of its own.
LEMMA UsageByAppend ==
    ASSUME RelayInv, UsageInv, NEW op \in Operation, operations' = Append(operations, op),
           UNCHANGED <<files, disk, bytes, renamed>>,
           \A m \in Messages : Numbered(m) => Numbered(m)',
           op.kind = "persist" => ~Numbered(op.message) /\ Numbered(op.message)'
    PROVE  UsageInv'
<1> DEFINE n == Len(operations)
<1>1. /\ operations \in Seq(Operation) /\ n \in Nat /\ Len(operations') = n + 1
      /\ \A i \in 1..n : operations'[i] = operations[i]
      /\ operations'[n + 1] = op
    BY AppendedSeq, LenProperties DEF RelayInv, RelayTyped, OutboxTyped
<1>2. \A i \in 1..n : operations[i].message \in Messages
  <2>1. \A i \in 1..n : operations[i] \in Operation
    BY <1>1, ElementOfSeq
  <2> QED BY <2>1 DEF Operation
<1>3. files \subseteq Messages /\ disk \subseteq Messages
    BY DEF RelayInv, RelayTyped, OutboxTyped
<1> HIDE DEF n
<1>4. \A i \in 1..(n + 1) : i \in 1..n \/ i = n + 1
    BY <1>1
<1>5. \A i \in 1..n : operations[i].kind = "persist" => Numbered(operations[i].message)
    BY DEF UsageInv, CapturesAreNumbered, n
<1>6. CapturesAreNew'
  <2>1. SUFFICES ASSUME NEW i \in 1..(n + 1), operations'[i].kind = "persist"
                 PROVE  /\ operations'[i].message \notin files \/ (i = 1 /\ renamed)
                        /\ \A j \in 1..(n + 1) :
                              operations'[j].kind = "persist"
                              /\ operations'[j].message = operations'[i].message => i = j
    BY <1>1 DEF CapturesAreNew
  <2>2. CASE i = n + 1
    <3>1. op.kind = "persist" /\ op.message \notin files
        BY <1>1, <2>1, <2>2 DEF UsageInv, CapturesAreNumbered
    <3>2. \A j \in 1..n : operations[j].kind = "persist" => operations[j].message # op.message
        BY <1>5, <3>1
    <3> QED BY <1>1, <1>4, <2>2, <3>1, <3>2
  <2>3. CASE i \in 1..n
    <3>1. /\ operations'[i] = operations[i]
          /\ operations[i].message \notin files \/ (i = 1 /\ renamed)
          /\ \A j \in 1..n : operations[j].kind = "persist"
                             /\ operations[j].message = operations[i].message => i = j
        BY <1>1, <2>1, <2>3 DEF UsageInv, CapturesAreNew, n
    <3>2. op.kind = "persist" => op.message # operations[i].message
        BY <1>5, <2>1, <2>3, <3>1
    <3> QED BY <1>1, <1>4, <3>1, <3>2
  <2> QED BY <1>4, <2>2, <2>3
<1>7. CapturesAreNumbered'
  <2>1. \A m \in files' \cup disk' : Numbered(m)'
    BY <1>3 DEF UsageInv, CapturesAreNumbered
  <2>2. ASSUME NEW i \in 1..(n + 1), operations'[i].kind = "persist", NEW m,
               m = operations'[i].message
        PROVE  Numbered(m)'
    BY <1>1, <1>2, <1>4, <1>5, <2>2
  <2> QED BY <1>1, <2>1, <2>2 DEF CapturesAreNumbered, Numbered
<1>8. UsageCounted'
  <2>1. renamed => Head(operations') = Head(operations)
    BY <1>1, HeadTailAppend DEF RelayInv, RelayOK, OutboxOK, StoredIsKept
  <2> QED BY <2>1 DEF UsageInv, UsageCounted
<1> QED BY <1>6, <1>7, <1>8 DEF UsageInv

LEMMA UsageStays ==
    ASSUME UsageInv, UNCHANGED <<files, disk, bytes, operations, renamed, sequence>>
    PROVE  UsageInv'
<1>1. CapturesAreNew'
    BY DEF UsageInv, CapturesAreNew
<1>2. CapturesAreNumbered'
    BY DEF UsageInv, CapturesAreNumbered, Numbered
<1>3. UsageCounted'
    BY DEF UsageInv, UsageCounted
<1> QED BY <1>1, <1>2, <1>3 DEF UsageInv

LEMMA UsageByPersist ==
    ASSUME RelayInv, UsageInv, NEW c \in Connections, PersistTurn(c)
    PROVE  UsageInv'
<1>1. /\ Turn(c, "policy") /\ stage[c] = "policy"
      /\ sequence' = [sequence EXCEPT ![c] = sequence[c] + 1]
      /\ operations' = Append(operations, [kind |-> "persist",
                                         message |-> <<c, sequence[c] + 1>>])
      /\ UNCHANGED <<files, disk, bytes, renamed>>
    BY DEF PersistTurn, NextNumber, Turn, Persist
<1>2. /\ sequence \in [Connections -> 0..MaxSequence] /\ sequence[c] \in Nat
    BY RelayParameters DEF RelayInv, RelayTyped, TurnTyped
<1>3. PICK next \in Payloads : next = sequence[c] + 1
  <2>1. Head(chain[c]) \in Payloads /\ Head(chain[c]) = Due(c)
    BY <1>1, TurnOpened DEF RelayInv, RelayTyped, RelayOK
  <2> QED BY <1>1, <2>1 DEF Due
<1>4. PICK op \in Operation : op = [kind |-> "persist", message |-> <<c, next>>]
  <2>1. <<c, next>> \in Messages
    BY RelayParameters DEF Payloads
  <2> QED BY <2>1 DEF Operation
<1>5. ~Numbered(op.message) /\ Numbered(op.message)'
  <2>1. op.message[1] = c /\ op.message[2] = next
    BY <1>4
  <2>2. sequence'[c] = next /\ ~(next <= sequence[c]) /\ next <= next
    BY <1>1, <1>2, <1>3
  <2> QED BY <2>1, <2>2 DEF Numbered
<1>6. ASSUME NEW m \in Messages, Numbered(m) PROVE Numbered(m)'
  <2>1. m[1] \in Connections /\ m[2] \in Nat /\ m[2] <= sequence[m[1]]
    BY <1>6, RelayParameters DEF Numbered
  <2>2. CASE m[1] = c
    BY <1>1, <1>2, <2>1, <2>2 DEF Numbered
  <2>3. CASE m[1] # c
    BY <1>1, <1>2, <2>1, <2>3 DEF Numbered
  <2> QED BY <2>2, <2>3
<1>7. operations' = Append(operations, op)
    BY <1>1, <1>3, <1>4
<1> QED BY <1>1, <1>5, <1>6, <1>7, UsageByAppend

LEMMA UsageByCrash ==
    ASSUME RelayInv, UsageInv, Crash
    PROVE  UsageInv'
<1>1. /\ operations' = <<>> /\ renamed' = FALSE /\ bytes' = SizeOf(files')
      /\ files' \cup disk' \subseteq files \cup disk /\ sequence' = sequence
    BY DEF Crash, OutboxCrash
<1>2. files \subseteq Messages /\ disk \subseteq Messages
    BY DEF RelayInv, RelayTyped, OutboxTyped
<1>3. files' \in SUBSET Messages
    BY <1>1, <1>2
<1>4. SizeOf(files') \in Nat
    BY <1>3, FiniteMessages, SizeTyped
<1>5. UsageCounted'
    BY <1>1, <1>4 DEF UsageCounted
<1>6. CapturesAreNew' /\ CapturesAreNumbered'
  <2>1. Len(operations') = 0
    BY <1>1, EmptySeq
  <2> QED BY <1>1, <2>1 DEF CapturesAreNew, UsageInv, CapturesAreNumbered, Numbered
<1> QED BY <1>5, <1>6 DEF UsageInv

LEMMA UsageStep ==
    ASSUME RelayInv, UsageInv, [Next]_vars
    PROVE  UsageInv'
<1>1. CASE OutboxStep /\ UNCHANGED relayVars
    BY <1>1, UsageByOutbox
<1>2. CASE DeliveryStep /\ UNCHANGED relayVars
  <2>1. sequence' = sequence
    BY <1>2 DEF relayVars, chainVars
  <2>2. CASE Acknowledged
    <3>1. posted \in Messages
        BY <2>2, TypedByDelivery, <1>2 DEF Acknowledged, PositiveAnswer, RelayInv, RelayTyped,
            OutboxTyped, RelayOK, OutboxOK, AnswerIsTrue
    <3>2. PICK op \in Operation :
             op.kind # "persist" /\ operations' = Append(operations, op)
        BY <2>2, <3>1 DEF Acknowledged, Operation
    <3>3. UNCHANGED <<files, disk, bytes, renamed>>
        BY <2>2 DEF Acknowledged
    <3> QED BY <2>1, <3>2, <3>3, UsageByAppend DEF Numbered
  <2>3. CASE ~Acknowledged
    <3>1. UNCHANGED outboxVars
        BY <1>2, <2>3 DEF DeliveryStep, RetryTimer, StartDrain, Entries, FailEntries,
           FinishDrain, Deliver, Undelivered, LoseAnswer
    <3> QED BY <2>1, <3>1, UsageStays DEF outboxVars
  <2> QED BY <2>2, <2>3
<1>3. CASE EndpointStep /\ UNCHANGED relayVars
  <2>1. UNCHANGED outboxVars /\ sequence' = sequence
    BY <1>3 DEF EndpointStep, StoreCapture, StoreLate, relayVars, chainVars
  <2> QED BY <2>1, UsageStays DEF outboxVars
<1>4. ASSUME NEW c \in Connections,
             Bridge(c) \/ Ends(c) \/ ChangePolicy(c) \/ ClientMessage(c)
      PROVE  UsageInv'
  <2>1. UNCHANGED outboxVars /\ sequence' = sequence
    BY <1>4 DEF Bridge, Ends, ClientClosed, UpstreamClosed, HeartbeatTimeout,
       DownstreamBackpressure, ChangePolicy, ClientMessage, wsVars, chainVars
  <2> QED BY <2>1, UsageStays DEF outboxVars
<1>5. ASSUME NEW c \in Connections, TurnStep(c)
      PROVE  UsageInv'
  <2>1. CASE PersistTurn(c)
    BY <2>1, UsageByPersist
  <2>2. CASE ~PersistTurn(c)
    <3>1. UNCHANGED outboxVars /\ sequence' = sequence
        BY <1>5, <2>2 DEF TurnStep, StartTurn, RejectTurn, RefusedTurn, StoredTurn, SentTurn,
           wsVars
    <3> QED BY <3>1, UsageStays DEF outboxVars
  <2> QED BY <2>1, <2>2
<1>6. CASE Crash
    BY <1>6, UsageByCrash
<1>7. CASE UNCHANGED vars
  <2>1. UNCHANGED outboxVars /\ sequence' = sequence
    BY <1>7 DEF vars, wsVars, relayVars, chainVars
  <2> QED BY <2>1, UsageStays DEF outboxVars
<1> QED BY <1>1, <1>2, <1>3, <1>4, <1>5, <1>6, <1>7 DEF Next

----------------------------------------------------------------------------
(* The bytes of the messages that wait.                                     *)

\* The messages that wait differ, and the last one received is the largest.
ChainsDistinct ==
    \A c \in Connections :
        /\ \A i \in 1..Len(chain[c]) : chain[c][i] <= received[c]
        /\ \A i, j \in 1..Len(chain[c]) : chain[c][i] = chain[c][j] => i = j

WithinLimits ==
    /\ \A c \in Connections : connectionPendingBytes[c] <= MaxBytes
    /\ pendingSmallBytes <= MaxPendingBytes

WaitingCounted ==
    /\ connectionPendingBytes \in [Connections -> Nat]
    /\ \A c \in Connections : connectionPendingBytes[c] = SizeOf(Waiting({c}))
    /\ pendingBytes = SizeOf(Waiting(Connections))
    /\ pendingSmallBytes = SizeOf(Waiting(Connections \ Large))

WaitingInv == ChainsDistinct /\ WithinLimits /\ WaitingCounted

LEMMA WaitingFinite ==
    ASSUME NEW C
    PROVE  /\ Waiting(C) \in SUBSET Messages /\ IsFiniteSet(Waiting(C))
           /\ SizeOf(Waiting(C)) \in Nat
<1>1. Waiting(C) \in SUBSET Messages
    BY DEF Waiting
<1> QED BY <1>1, FiniteMessages, SizeTyped

\* The chains of a set of connections depend on those connections only.
LEMMA WaitingSame ==
    ASSUME NEW C \in SUBSET Connections, \A d \in C : chain'[d] = chain[d]
    PROVE  Waiting(C)' = Waiting(C)
<1>1. ASSUME NEW m \in Messages
      PROVE  m \in Waiting(C)' <=> m \in Waiting(C)
    BY DEF Waiting
<1>2. Waiting(C) \subseteq Messages /\ Waiting(C)' \subseteq Messages
    BY DEF Waiting
<1> QED BY <1>1, <1>2

LEMMA WaitingGrows ==
    ASSUME TurnTyped, ChainsDistinct, NEW c \in Connections, NEW p \in Payloads,
           p > received[c], chain' = [chain EXCEPT ![c] = Append(@, p)],
           NEW C \in SUBSET Connections
    PROVE  /\ Waiting(C)' = IF c \in C THEN Waiting(C) \cup {<<c, p>>} ELSE Waiting(C)
           /\ <<c, p>> \in Messages /\ <<c, p>> \notin Waiting(C)
<1> DEFINE n == Len(chain[c])
<1>1. /\ chain[c] \in Seq(Payloads) /\ n \in Nat /\ DOMAIN chain[c] = 1..n
      /\ chain'[c] \in Seq(Payloads) /\ Len(chain'[c]) = n + 1
      /\ \A i \in 1..n : chain'[c][i] = chain[c][i]
      /\ chain'[c][n + 1] = p
      /\ \A d \in Connections : d # c => chain'[d] = chain[d]
  <2>1. chain[c] \in Seq(Payloads) /\ chain'[c] = Append(chain[c], p)
    BY DEF TurnTyped
  <2>2. \A d \in Connections : d # c => chain'[d] = chain[d]
    BY DEF TurnTyped
  <2> QED BY <2>1, <2>2, AppendedSeq, LenProperties
<1>2. DOMAIN chain'[c] = 1..(n + 1)
    BY <1>1, LenProperties
<1>3. \A i \in 1..n : chain[c][i] # p
  <2>1. TAKE i \in 1..n
  <2>2. chain[c][i] <= received[c] /\ chain[c][i] \in Payloads
    BY <1>1, ElementOfSeq DEF ChainsDistinct
  <2>3. received[c] \in Nat
    BY RelayParameters DEF TurnTyped
  <2> QED BY <2>2, <2>3 DEF Payloads
<1>4. <<c, p>> \in Messages
    BY RelayParameters DEF Payloads
<1> HIDE DEF n
<1>5. <<c, p>> \notin Waiting(C)
    BY <1>1, <1>3 DEF Waiting
<1>6. CASE c \notin C
    BY <1>1, <1>4, <1>5, <1>6, WaitingSame
<1>7. CASE c \in C
  <2>1. ASSUME NEW m \in Messages
        PROVE  m \in Waiting(C)' <=> m \in Waiting(C) \/ m = <<c, p>>
    <3>1. m[1] \in Connections /\ m[2] \in Payloads /\ m = <<m[1], m[2]>>
        BY RelayParameters DEF Payloads
    <3>2. CASE m[1] = c
        <4>1. (\E i \in 1..(n + 1) : chain'[c][i] = m[2])
              <=> (\E i \in 1..n : chain[c][i] = m[2]) \/ m[2] = p
            <5>1. \A i \in 1..(n + 1) : i \in 1..n \/ i = n + 1
                BY <1>1
            <5>2. 1..n \subseteq 1..(n + 1) /\ n + 1 \in 1..(n + 1)
                BY <1>1
            <5> QED BY <1>1, <5>1, <5>2
        <4> QED BY <1>1, <1>2, <1>7, <3>1, <3>2, <4>1 DEF Waiting
    <3>3. CASE m[1] # c
        BY <1>1, <3>1, <3>3 DEF Waiting
    <3> QED BY <3>2, <3>3
  <2>2. Waiting(C) \subseteq Messages /\ Waiting(C)' \subseteq Messages
    BY DEF Waiting
  <2> QED BY <1>4, <1>5, <1>7, <2>1, <2>2
<1> QED BY <1>6, <1>7

LEMMA WaitingShrinks ==
    ASSUME TurnTyped, ChainsDistinct, NEW c \in Connections, chain[c] # <<>>,
           chain' = [chain EXCEPT ![c] = Tail(@)], NEW C \in SUBSET Connections,
           NEW p \in Payloads, p = Head(chain[c])
    PROVE  /\ c \in C => <<c, p>> \in Waiting(C) /\ Waiting(C)' = Waiting(C) \ {<<c, p>>}
           /\ c \notin C => Waiting(C)' = Waiting(C)
<1> DEFINE n == Len(chain[c])
<1>1. /\ chain[c] \in Seq(Payloads) /\ n \in Nat /\ n > 0 /\ DOMAIN chain[c] = 1..n
      /\ p \in Payloads /\ p = chain[c][1]
      /\ chain'[c] \in Seq(Payloads) /\ Len(chain'[c]) = n - 1
      /\ \A i \in 1..n - 1 : chain'[c][i] = chain[c][i + 1]
      /\ \A d \in Connections : d # c => chain'[d] = chain[d]
  <2>1. chain[c] \in Seq(Payloads) /\ chain'[c] = Tail(chain[c])
    BY DEF TurnTyped
  <2>2. \A d \in Connections : d # c => chain'[d] = chain[d]
    BY DEF TurnTyped
  <2>3. /\ p \in Payloads /\ p = chain[c][1] /\ n \in Nat /\ n > 0
        /\ Tail(chain[c]) \in Seq(Payloads) /\ Len(Tail(chain[c])) = n - 1
        /\ \A i \in 1..n - 1 : Tail(chain[c])[i] = chain[c][i + 1]
    BY <2>1, ShortenedSeq
  <2>4. DOMAIN chain[c] = 1..n
    BY <2>1, LenProperties
  <2> QED BY <2>1, <2>2, <2>3, <2>4
<1>2. DOMAIN chain'[c] = 1..(n - 1)
    BY <1>1, LenProperties
<1> HIDE DEF n
<1>3. CASE c \notin C
    BY <1>1, <1>3, WaitingSame
<1>4. CASE c \in C
  <2>1. 1 \in 1..n /\ <<c, p>> \in Messages
    BY <1>1, RelayParameters DEF Payloads
  <2>2. <<c, p>> \in Waiting(C)
    BY <1>1, <1>4, <2>1 DEF Waiting
  <2>3. ASSUME NEW m \in Messages
        PROVE  m \in Waiting(C)' <=> m \in Waiting(C) /\ m # <<c, p>>
    <3>1. m[1] \in Connections /\ m[2] \in Payloads /\ m = <<m[1], m[2]>>
        BY RelayParameters DEF Payloads
    <3>2. CASE m[1] = c
        <4>1. ASSUME NEW i \in 1..n - 1, chain'[c][i] = m[2]
              PROVE  (\E j \in 1..n : chain[c][j] = m[2]) /\ m[2] # p
            <5>1. i + 1 \in 1..n /\ i + 1 # 1 /\ chain[c][i + 1] = m[2]
                BY <1>1, <4>1
            <5> QED BY <1>1, <2>1, <5>1 DEF ChainsDistinct, n
        <4>2. ASSUME NEW j \in 1..n, chain[c][j] = m[2], m[2] # p
              PROVE  \E i \in 1..n - 1 : chain'[c][i] = m[2]
            <5>1. j - 1 \in 1..n - 1 /\ (j - 1) + 1 = j
                BY <1>1, <4>2
            <5>2. chain'[c][j - 1] = chain[c][(j - 1) + 1]
                BY <1>1, <5>1
            <5> QED BY <4>2, <5>1, <5>2
        <4>3. (\E i \in 1..n - 1 : chain'[c][i] = m[2])
              <=> (\E j \in 1..n : chain[c][j] = m[2]) /\ m[2] # p
            BY <4>1, <4>2
        <4> QED BY <1>1, <1>2, <1>4, <3>1, <3>2, <4>3 DEF Waiting
    <3>3. CASE m[1] # c
        BY <1>1, <3>1, <3>3 DEF Waiting
    <3> QED BY <3>2, <3>3
  <2>4. Waiting(C) \subseteq Messages /\ Waiting(C)' \subseteq Messages
    BY DEF Waiting
  <2> QED BY <1>4, <2>2, <2>3, <2>4
<1> QED BY <1>3, <1>4

\* Messages wait and leave while the limits and the counters stay true.
LEMMA WaitingStays ==
    ASSUME TurnTyped, WaitingInv, UNCHANGED <<chain, counterVars>>,
           \A c \in Connections : received'[c] \in Nat /\ received[c] <= received'[c]
    PROVE  WaitingInv'
<1>1. /\ chain' = chain /\ pendingBytes' = pendingBytes
      /\ connectionPendingBytes' = connectionPendingBytes
      /\ pendingSmallBytes' = pendingSmallBytes
    BY DEF counterVars
<1>2. ChainsDistinct'
  <2>1. ASSUME NEW c \in Connections, NEW i \in 1..Len(chain[c])
        PROVE  chain[c][i] <= received'[c]
    <3>1. chain[c] \in Seq(Payloads) /\ received[c] \in Nat
        BY RelayParameters DEF TurnTyped
    <3>2. chain[c][i] \in Nat /\ chain[c][i] <= received[c]
        <4>1. chain[c][i] \in Payloads
            BY <3>1, ElementOfSeq
        <4>2. chain[c][i] <= received[c]
            BY DEF WaitingInv, ChainsDistinct
        <4> QED BY <4>1, <4>2 DEF Payloads
    <3> QED BY <3>1, <3>2
  <2> QED BY <1>1, <2>1 DEF WaitingInv, ChainsDistinct
<1>3. \A C \in SUBSET Connections : Waiting(C)' = Waiting(C)
    BY <1>1, WaitingSame
<1>4. WithinLimits'
    BY <1>1 DEF WaitingInv, WithinLimits
<1>5. WaitingCounted'
  <2>1. /\ \A c \in Connections : Waiting({c})' = Waiting({c})
        /\ Waiting(Connections)' = Waiting(Connections)
        /\ Waiting(Connections \ Large)' = Waiting(Connections \ Large)
    BY <1>3
  <2> QED BY <1>1, <2>1 DEF WaitingInv, WaitingCounted
<1> QED BY <1>2, <1>4, <1>5 DEF WaitingInv

LEMMA WaitingByMessage ==
    ASSUME TurnTyped, WaitingInv, NEW c \in Connections, ClientMessage(c)
    PROVE  WaitingInv'
<1>1. PICK p \in Payloads : p = received[c] + 1
    BY RelayParameters DEF ClientMessage, TurnTyped, Payloads
<1>2. /\ received' = [received EXCEPT ![c] = p]
      /\ received \in [Connections -> 0..MaxSequence]
    BY <1>1 DEF ClientMessage, TurnTyped
<1>3. \A d \in Connections : received'[d] \in Nat /\ received[d] <= received'[d]
    BY <1>1, <1>2, RelayParameters DEF Payloads
<1>4. CASE UNCHANGED <<chain, counterVars>>
    BY <1>3, <1>4, WaitingStays
<1>5. CASE ~UNCHANGED <<chain, counterVars>>
  <2>1. PICK size \in Nat : size = Size[<<c, p>>]
    BY CaptureParameters, RelayParameters DEF Payloads
  <2>2. /\ ~OverLimit(c, size)
        /\ chain' = [chain EXCEPT ![c] = Append(@, p)]
        /\ pendingBytes' = pendingBytes + size
        /\ connectionPendingBytes' = [connectionPendingBytes EXCEPT ![c] = @ + size]
        /\ pendingSmallBytes' = pendingSmallBytes + (IF c \in Large THEN 0 ELSE size)
    BY <1>1, <1>5, <2>1 DEF ClientMessage, Bytes
  <2>3. p > received[c]
    BY <1>1, <1>2
  <2>4. ASSUME NEW C \in SUBSET Connections
        PROVE  SizeOf(Waiting(C)') = SizeOf(Waiting(C)) + (IF c \in C THEN size ELSE 0)
    <3>1. /\ Waiting(C)' = IF c \in C THEN Waiting(C) \cup {<<c, p>>} ELSE Waiting(C)
          /\ <<c, p>> \in Messages /\ <<c, p>> \notin Waiting(C)
        BY <2>2, <2>3, WaitingGrows DEF WaitingInv
    <3>2. /\ Waiting(C) \in SUBSET Messages /\ IsFiniteSet(Waiting(C))
          /\ SizeOf(Waiting(C)) \in Nat
        BY WaitingFinite
    <3>3. SizeOf(Waiting(C) \cup {<<c, p>>}) = SizeOf(Waiting(C)) + size
        BY <2>1, <3>1, <3>2, SizeAdd
    <3> QED BY <3>1, <3>2, <3>3
  <2>5. ChainsDistinct'
    <3>1. ASSUME NEW d \in Connections
          PROVE  /\ \A i \in 1..Len(chain'[d]) : chain'[d][i] <= received'[d]
                 /\ \A i, j \in 1..Len(chain'[d]) : chain'[d][i] = chain'[d][j] => i = j
        <4>1. CASE d # c
            <5>1. chain'[d] = chain[d] /\ received'[d] = received[d]
                BY <1>2, <2>2, <4>1 DEF TurnTyped
            <5> QED BY <5>1 DEF WaitingInv, ChainsDistinct
        <4>2. CASE d = c
            <5> DEFINE n == Len(chain[c])
            <5>1. /\ chain[c] \in Seq(Payloads) /\ chain'[c] = Append(chain[c], p)
                  /\ received'[c] = p /\ received[c] \in Nat
                BY <1>2, <2>2, RelayParameters DEF TurnTyped
            <5>2. /\ n \in Nat /\ Len(chain'[c]) = n + 1 /\ chain'[c][n + 1] = p
                  /\ \A i \in 1..n : chain'[c][i] = chain[c][i]
                BY <5>1, AppendedSeq, LenProperties
            <5>3. ASSUME NEW i \in 1..n
                  PROVE  chain[c][i] \in Nat /\ chain[c][i] < p
                <6>1. chain[c][i] \in Nat /\ chain[c][i] <= received[c]
                    <7>1. chain[c][i] \in Payloads
                        BY <5>1, ElementOfSeq
                    <7>2. chain[c][i] <= received[c]
                        BY DEF WaitingInv, ChainsDistinct, n
                    <7> QED BY <7>1, <7>2 DEF Payloads
                <6> QED BY <1>1, <5>1, <6>1
            <5>4. \A i, j \in 1..n : chain[c][i] = chain[c][j] => i = j
                BY DEF WaitingInv, ChainsDistinct
            <5> HIDE DEF n
            <5>5. \A i \in 1..(n + 1) : i \in 1..n \/ i = n + 1
                BY <5>2
            <5>6. p \in Nat
                BY DEF Payloads
            <5>7. \A i \in 1..(n + 1) : chain'[c][i] <= p
                BY <5>2, <5>3, <5>5, <5>6
            <5>8. ASSUME NEW i \in 1..(n + 1), NEW j \in 1..(n + 1),
                         chain'[c][i] = chain'[c][j]
                  PROVE  i = j
                <6>1. CASE i \in 1..n /\ j \in 1..n
                    BY <5>2, <5>4, <5>8, <6>1
                <6>2. CASE i = n + 1 \/ j = n + 1
                    BY <5>2, <5>3, <5>5, <5>6, <5>8, <6>2
                <6> QED BY <5>5, <6>1, <6>2
            <5> QED BY <4>2, <5>1, <5>2, <5>7, <5>8
        <4> QED BY <4>1, <4>2
    <3> QED BY <3>1 DEF ChainsDistinct
  <2>6. \A d \in Connections :
            connectionPendingBytes'[d] = connectionPendingBytes[d] + (IF d = c THEN size ELSE 0)
    BY <2>2, <2>1 DEF WaitingInv, WaitingCounted
  <2>7. WaitingCounted'
    <3>1. connectionPendingBytes' \in [Connections -> Nat]
        BY <2>1, <2>2 DEF WaitingInv, WaitingCounted
    <3>2. \A d \in Connections : connectionPendingBytes'[d] = SizeOf(Waiting({d})')
        <4>1. TAKE d \in Connections
        <4>2. SizeOf(Waiting({d})') = SizeOf(Waiting({d})) + (IF c \in {d} THEN size ELSE 0)
            BY <2>4
        <4> QED BY <2>6, <4>2 DEF WaitingInv, WaitingCounted
    <3>3. pendingBytes' = SizeOf(Waiting(Connections)')
        BY <2>2, <2>4 DEF WaitingInv, WaitingCounted
    <3>4. pendingSmallBytes' = SizeOf(Waiting(Connections \ Large)')
        <4>1. SizeOf(Waiting(Connections \ Large)') =
                 SizeOf(Waiting(Connections \ Large)) + (IF c \in Large THEN 0 ELSE size)
            BY <2>4
        <4> QED BY <2>2, <4>1 DEF WaitingInv, WaitingCounted
    <3> QED BY <3>1, <3>2, <3>3, <3>4 DEF WaitingCounted, SizeOf
  <2>8. WithinLimits'
    <3>1. pendingSmallBytes \in Nat
        BY WaitingFinite DEF WaitingInv, WaitingCounted
    <3>2. pendingSmallBytes' <= MaxPendingBytes
        BY <2>1, <2>2, <3>1, RelayParameters DEF OverLimit, WaitingInv, WithinLimits
    <3>3. ASSUME NEW d \in Connections PROVE connectionPendingBytes'[d] <= MaxBytes
        <4>1. connectionPendingBytes[d] \in Nat /\ connectionPendingBytes[d] <= MaxBytes
            BY DEF WaitingInv, WithinLimits, WaitingCounted
        <4> QED BY <2>1, <2>2, <2>6, <4>1, RelayParameters DEF OverLimit
    <3> QED BY <3>2, <3>3 DEF WithinLimits
  <2> QED BY <2>5, <2>7, <2>8 DEF WaitingInv
<1> QED BY <1>4, <1>5

LEMMA WaitingBySettle ==
    ASSUME TurnTyped, WaitingInv, NEW c \in Connections, chain[c] # <<>>, Settled(c),
           UNCHANGED received
    PROVE  WaitingInv'
<1>1. PICK p \in Payloads : p = Head(chain[c])
  <2>1. chain[c] \in Seq(Payloads)
    BY DEF TurnTyped
  <2> QED BY <2>1, ShortenedSeq
<1>2. <<c, p>> \in Messages
    BY RelayParameters DEF Payloads
<1>3. PICK size \in Nat : size = Size[<<c, p>>]
    BY <1>2, CaptureParameters
<1>4. /\ chain' = [chain EXCEPT ![c] = Tail(@)]
      /\ pendingBytes' = pendingBytes - size
      /\ connectionPendingBytes' = [connectionPendingBytes EXCEPT ![c] = @ - size]
      /\ pendingSmallBytes' = pendingSmallBytes - (IF c \in Large THEN 0 ELSE size)
    BY <1>1, <1>3 DEF Settled, Bytes
<1>5. ASSUME NEW C \in SUBSET Connections
      PROVE  /\ SizeOf(Waiting(C)') = SizeOf(Waiting(C)) - (IF c \in C THEN size ELSE 0)
             /\ SizeOf(Waiting(C)') \in Nat
  <2>1. /\ c \in C => <<c, p>> \in Waiting(C) /\ Waiting(C)' = Waiting(C) \ {<<c, p>>}
        /\ c \notin C => Waiting(C)' = Waiting(C)
    <3>1. ChainsDistinct /\ p = Head(chain[c])
        BY <1>1 DEF WaitingInv
    <3>2. chain' = [chain EXCEPT ![c] = Tail(@)]
        BY <1>4
    <3> QED BY <3>1, <3>2, WaitingShrinks
  <2>2. /\ Waiting(C) \in SUBSET Messages /\ IsFiniteSet(Waiting(C))
        /\ SizeOf(Waiting(C)) \in Nat
    BY WaitingFinite
  <2>3. CASE c \in C
    <3>1. /\ SizeOf(Waiting(C) \ {<<c, p>>}) = SizeOf(Waiting(C)) - size
          /\ SizeOf(Waiting(C) \ {<<c, p>>}) \in Nat
        BY <1>3, <2>1, <2>2, <2>3, SizeRemove
    <3> QED BY <2>1, <2>3, <3>1
  <2>4. CASE c \notin C
    BY <2>1, <2>2, <2>4
  <2> QED BY <2>3, <2>4
<1>6. ChainsDistinct'
  <2>1. ASSUME NEW d \in Connections
        PROVE  /\ \A i \in 1..Len(chain'[d]) : chain'[d][i] <= received'[d]
               /\ \A i, j \in 1..Len(chain'[d]) : chain'[d][i] = chain'[d][j] => i = j
    <3>1. CASE d # c
        <4>1. chain'[d] = chain[d] /\ received'[d] = received[d]
            BY <1>4, <3>1 DEF TurnTyped
        <4> QED BY <4>1 DEF WaitingInv, ChainsDistinct
    <3>2. CASE d = c
        <4> DEFINE n == Len(chain[c])
        <4>1. chain[c] \in Seq(Payloads) /\ chain'[c] = Tail(chain[c])
            BY <1>4 DEF TurnTyped
        <4>2. /\ n \in Nat /\ Len(chain'[c]) = n - 1
              /\ \A i \in 1..n - 1 : chain'[c][i] = chain[c][i + 1]
            BY <4>1, ShortenedSeq
        <4>3. /\ \A i \in 1..n : chain[c][i] <= received[c]
              /\ \A i, j \in 1..n : chain[c][i] = chain[c][j] => i = j
            BY DEF WaitingInv, ChainsDistinct
        <4> HIDE DEF n
        <4>4. \A i \in 1..n - 1 : i + 1 \in 1..n
            BY <4>2
        <4>5. \A i \in 1..n - 1 : chain'[c][i] <= received[c]
            BY <4>2, <4>3, <4>4
        <4>6. ASSUME NEW i \in 1..n - 1, NEW j \in 1..n - 1, chain'[c][i] = chain'[c][j]
              PROVE  i = j
            <5>1. i + 1 = j + 1
                BY <4>2, <4>3, <4>4, <4>6
            <5> QED BY <4>2, <5>1
        <4> QED BY <3>2, <4>2, <4>5, <4>6
    <3> QED BY <3>1, <3>2
  <2> QED BY <2>1 DEF ChainsDistinct
<1>7. \A d \in Connections :
          connectionPendingBytes'[d] = connectionPendingBytes[d] - (IF d = c THEN size ELSE 0)
    BY <1>3, <1>4 DEF WaitingInv, WaitingCounted
<1>8. WaitingCounted'
  <2>1. ASSUME NEW d \in Connections
        PROVE  /\ connectionPendingBytes'[d] = SizeOf(Waiting({d})')
               /\ connectionPendingBytes'[d] \in Nat
    <3>1. /\ SizeOf(Waiting({d})') = SizeOf(Waiting({d})) - (IF c \in {d} THEN size ELSE 0)
          /\ SizeOf(Waiting({d})') \in Nat
        BY <1>5
    <3> QED BY <1>7, <3>1 DEF WaitingInv, WaitingCounted
  <2>2. connectionPendingBytes' \in [Connections -> Nat]
    BY <1>4, <2>1 DEF WaitingInv, WaitingCounted
  <2>3. pendingBytes' = SizeOf(Waiting(Connections)')
    BY <1>4, <1>5 DEF WaitingInv, WaitingCounted
  <2>4. pendingSmallBytes' = SizeOf(Waiting(Connections \ Large)')
    <3>1. SizeOf(Waiting(Connections \ Large)') =
             SizeOf(Waiting(Connections \ Large)) - (IF c \in Large THEN 0 ELSE size)
        BY <1>5
    <3> QED BY <1>4, <3>1 DEF WaitingInv, WaitingCounted
  <2> QED BY <2>1, <2>2, <2>3, <2>4 DEF WaitingCounted, SizeOf
<1>9. WithinLimits'
  <2>1. pendingSmallBytes \in Nat /\ pendingSmallBytes <= MaxPendingBytes
    BY WaitingFinite DEF WaitingInv, WaitingCounted, WithinLimits
  <2>2. pendingSmallBytes' <= MaxPendingBytes
    BY <1>3, <1>4, <2>1, RelayParameters
  <2>3. ASSUME NEW d \in Connections PROVE connectionPendingBytes'[d] <= MaxBytes
    <3>1. connectionPendingBytes[d] \in Nat /\ connectionPendingBytes[d] <= MaxBytes
        BY DEF WaitingInv, WithinLimits, WaitingCounted
    <3> QED BY <1>3, <1>7, <3>1, RelayParameters
  <2> QED BY <2>2, <2>3 DEF WithinLimits
<1> QED BY <1>6, <1>8, <1>9 DEF WaitingInv

\* With every chain empty nothing waits, and every counter is 0.
LEMMA NothingWaits ==
    ASSUME chain = [c \in Connections |-> <<>>], pendingBytes = 0, pendingSmallBytes = 0,
           connectionPendingBytes = [c \in Connections |-> 0]
    PROVE  WaitingInv
<1>1. \A c \in Connections : Len(chain[c]) = 0 /\ DOMAIN chain[c] = {}
  BY EmptySeq
<1>2. ASSUME NEW C \in SUBSET Connections PROVE SizeOf(Waiting(C)) = 0
  <2>1. Waiting(C) = {}
    BY <1>1 DEF Waiting
  <2> QED
    BY <2>1, SizeEmpty
<1>3. ChainsDistinct
  BY <1>1 DEF ChainsDistinct
<1>4. WithinLimits
  BY RelayParameters DEF WithinLimits
<1>5. WaitingCounted
  <2>1. \A c \in Connections : SizeOf(Waiting({c})) = 0
    BY <1>2
  <2>2. SizeOf(Waiting(Connections)) = 0 /\ SizeOf(Waiting(Connections \ Large)) = 0
    BY <1>2
  <2> QED
    BY <2>1, <2>2 DEF WaitingCounted
<1> QED
  BY <1>3, <1>4, <1>5 DEF WaitingInv

LEMMA WaitingByCrash ==
    ASSUME Crash
    PROVE  WaitingInv'
<1>1. /\ chain' = [c \in Connections |-> <<>>] /\ pendingBytes' = 0
      /\ connectionPendingBytes' = [c \in Connections |-> 0] /\ pendingSmallBytes' = 0
    BY DEF Crash
<1>2. \A c \in Connections : Len(chain'[c]) = 0 /\ DOMAIN chain'[c] = {}
    BY <1>1, EmptySeq
<1>3. ASSUME NEW C \in SUBSET Connections PROVE SizeOf(Waiting(C)') = 0
  <2>1. Waiting(C)' = {}
    BY <1>2, RelayParameters DEF Waiting
  <2> QED BY <2>1, SizeEmpty
<1>4. ChainsDistinct'
    BY <1>2 DEF ChainsDistinct
<1>5. WithinLimits'
    BY <1>1, RelayParameters DEF WithinLimits
<1>6. WaitingCounted'
  <2>1. \A c \in Connections : SizeOf(Waiting({c})') = 0
    BY <1>3
  <2>2. SizeOf(Waiting(Connections)') = 0 /\ SizeOf(Waiting(Connections \ Large)') = 0
    BY <1>3
  <2> QED BY <1>1, <2>1, <2>2 DEF WaitingCounted, SizeOf
<1> QED BY <1>4, <1>5, <1>6 DEF WaitingInv

LEMMA WaitingStep ==
    ASSUME RelayInv, WaitingInv, [Next]_vars
    PROVE  WaitingInv'
<1>1. TurnTyped /\ ChainsInOrder
    BY DEF RelayInv, RelayTyped, RelayOK
<1>2. \A c \in Connections : received[c] \in Nat /\ received[c] <= received[c]
    BY <1>1, RelayParameters DEF TurnTyped
<1>3. ASSUME UNCHANGED <<chain, counterVars, received>>
      PROVE  WaitingInv'
    BY <1>1, <1>2, <1>3, WaitingStays
<1>4. CASE (OutboxStep \/ DeliveryStep \/ EndpointStep) /\ UNCHANGED relayVars
    BY <1>3, <1>4 DEF relayVars, chainVars
<1>5. ASSUME NEW c \in Connections, Bridge(c) \/ Ends(c) \/ ChangePolicy(c)
      PROVE  WaitingInv'
    BY <1>3, <1>5 DEF Bridge, Ends, ClientClosed, UpstreamClosed, HeartbeatTimeout,
       DownstreamBackpressure, ChangePolicy, chainVars
<1>6. ASSUME NEW c \in Connections, ClientMessage(c)
      PROVE  WaitingInv'
    BY <1>1, <1>6, WaitingByMessage
<1>7. ASSUME NEW c \in Connections, TurnStep(c)
      PROVE  WaitingInv'
  <2>1. received' = received /\ chain[c] # <<>>
    BY <1>7 DEF TurnStep, StartTurn, RejectTurn, PersistTurn, RefusedTurn, StoredTurn,
       SentTurn, Turn
  <2>2. Settled(c) \/ UNCHANGED <<chain, counterVars>>
    BY <1>7 DEF TurnStep, StartTurn, RejectTurn, PersistTurn, RefusedTurn, StoredTurn,
       SentTurn, BreakOff
  <2> QED BY <1>1, <1>3, <2>1, <2>2, WaitingBySettle
<1>8. CASE Crash
    BY <1>8, WaitingByCrash
<1>9. CASE UNCHANGED vars
    BY <1>3, <1>9 DEF vars, relayVars, chainVars
<1> QED BY <1>4, <1>5, <1>6, <1>7, <1>8, <1>9 DEF Next

----------------------------------------------------------------------------
(* The connections that are active.                                         *)

ActiveCounted == activeConnections = Cardinality(Active)

LEMMA ActiveFinite ==
    IsFiniteSet(Active) /\ Cardinality(Active) \in Nat
<1>1. Active \in SUBSET Connections
    BY DEF Active
<1> QED BY <1>1, RelayParameters, FS_Subset, FS_CardinalityType

LEMMA ActiveStays ==
    ASSUME ActiveCounted, UNCHANGED <<client, closed, activeConnections>>
    PROVE  ActiveCounted'
BY DEF ActiveCounted, Active

\* An opened connection ends, or ends again.
LEMMA ActiveByFinish ==
    ASSUME TurnTyped, ActiveCounted, NEW c \in Connections, client[c] # "none", Finish(c),
           \A d \in Connections : client[d] = "none" <=> client'[d] = "none"
    PROVE  ActiveCounted'
<1>1. /\ closed' = [closed EXCEPT ![c] = TRUE] /\ closed \in [Connections -> BOOLEAN]
      /\ activeConnections' = IF closed[c] THEN activeConnections ELSE activeConnections - 1
    BY DEF Finish, TurnTyped
<1>2. Active' = Active \ {c}
    BY <1>1 DEF Active
<1>3. c \in Active <=> ~closed[c]
    BY DEF Active
<1>4. Cardinality(Active \ {c}) =
         IF c \in Active THEN Cardinality(Active) - 1 ELSE Cardinality(Active)
    BY ActiveFinite, FS_RemoveElement
<1> QED BY <1>1, <1>2, <1>3, <1>4 DEF ActiveCounted

LEMMA ActiveByBridge ==
    ASSUME TurnTyped, ChainsInOrder, ActiveCounted, NEW c \in Connections, Bridge(c)
    PROVE  ActiveCounted'
<1>1. /\ client[c] = "none" /\ client' = [client EXCEPT ![c] = "open"]
      /\ activeConnections' = activeConnections + 1 /\ closed' = closed /\ ~closed[c]
    BY DEF Bridge, ChainsInOrder, ChainInOrder
<1>2. Active' = Active \cup {c} /\ c \notin Active
    BY <1>1 DEF Active, TurnTyped
<1>3. Cardinality(Active \cup {c}) = Cardinality(Active) + 1
    BY <1>2, ActiveFinite, FS_AddElement
<1> QED BY <1>1, <1>2, <1>3 DEF ActiveCounted

LEMMA ActiveStep ==
    ASSUME RelayInv, ActiveCounted, [Next]_vars
    PROVE  ActiveCounted'
<1>1. TurnTyped /\ ChainsInOrder
    BY DEF RelayInv, RelayTyped, RelayOK
<1>2. CASE (OutboxStep \/ DeliveryStep \/ EndpointStep) /\ UNCHANGED relayVars
    BY <1>2, ActiveStays DEF relayVars, linkVars
<1>3. ASSUME NEW c \in Connections, client[c] # "none", Finish(c),
             \/ CloseBoth(c)
             \/ client' = client
             \/ client' = [client EXCEPT ![c] = "closed"]
             \/ client' = [client EXCEPT ![c] = ClosePeer(@)]
      PROVE  ActiveCounted'
  <2>1. \A d \in Connections : client[d] = "none" <=> client'[d] = "none"
    BY <1>1, <1>3 DEF CloseBoth, ClosePeer, TurnTyped
  <2> QED BY <1>1, <1>3, <2>1, ActiveByFinish
<1>4. ASSUME NEW c \in Connections, Bridge(c)
      PROVE  ActiveCounted'
    BY <1>1, <1>4, ActiveByBridge
<1>5. ASSUME NEW c \in Connections, ClientClosed(c) \/ UpstreamClosed(c)
      PROVE  ActiveCounted'
  <2>1. client[c] # "none"
    BY <1>1, <1>5 DEF ClientClosed, UpstreamClosed, ChainsInOrder, ChainInOrder
  <2> QED BY <1>3, <1>5, <2>1 DEF ClientClosed, UpstreamClosed
<1>6. ASSUME NEW c \in Connections, HeartbeatTimeout(c)
      PROVE  ActiveCounted'
    BY <1>3, <1>6 DEF HeartbeatTimeout
<1>7. ASSUME NEW c \in Connections, DownstreamBackpressure(c)
      PROVE  ActiveCounted'
  <2>1. /\ client[c] = "open" /\ client' = [client EXCEPT ![c] = ClosePeer(@)]
        /\ UNCHANGED <<closed, activeConnections>>
    BY <1>7 DEF DownstreamBackpressure, CloseBoth
  <2>2. Active' = Active
    BY <1>1, <2>1 DEF Active, ClosePeer, TurnTyped
  <2> QED BY <2>1, <2>2 DEF ActiveCounted
<1>8. ASSUME NEW c \in Connections, ChangePolicy(c)
      PROVE  ActiveCounted'
    BY <1>8, ActiveStays DEF ChangePolicy, linkVars
<1>9. ASSUME NEW c \in Connections, ClientMessage(c)
      PROVE  ActiveCounted'
  <2>1. client[c] # "none" /\ (UNCHANGED linkVars \/ (Finish(c) /\ CloseBoth(c)))
    BY <1>9 DEF ClientMessage
  <2> QED BY <1>3, <2>1, ActiveStays DEF linkVars
<1>10. ASSUME NEW c \in Connections, TurnStep(c)
       PROVE  ActiveCounted'
  <2>1. UNCHANGED linkVars \/ BreakOff(c)
    BY <1>10 DEF TurnStep, StartTurn, RejectTurn, PersistTurn, RefusedTurn, StoredTurn, SentTurn
  <2>2. client[c] # "none"
    <3>1. \E s : Turn(c, s)
        BY <1>10 DEF TurnStep, StartTurn, RejectTurn, PersistTurn, RefusedTurn, StoredTurn,
           SentTurn
    <3> QED BY <1>1, <3>1, TurnOpened
  <2> QED BY <1>3, <2>1, <2>2, ActiveStays DEF BreakOff, linkVars
<1>11. CASE Crash
  <2>1. /\ client' = [c \in Connections |-> IF client[c] # "none" THEN "closed" ELSE client[c]]
        /\ closed' = [c \in Connections |-> c \in {d \in Connections : client[d] # "none"}]
        /\ activeConnections' = 0
    BY <1>11 DEF Crash
  <2>2. Active' = {}
    BY <2>1 DEF Active
  <2> QED BY <2>1, <2>2, FS_EmptySet DEF ActiveCounted
<1>12. CASE UNCHANGED vars
    BY <1>12, ActiveStays DEF vars, relayVars, linkVars
<1> QED BY <1>2, <1>4, <1>5, <1>6, <1>7, <1>8, <1>9, <1>10, <1>11, <1>12 DEF Next, Ends

----------------------------------------------------------------------------
(* What has no part in these arguments keeps its type.                      *)

RestTyped ==
    /\ renamed \in BOOLEAN /\ wakeRequested \in BOOLEAN
    /\ timer \in {"none", "wake", "retry"}
    /\ draining \in {"idle", "list", "deliver", "posted", "remove"}
    /\ answer \in {"none", "ok", "no"}
    /\ failures \in 0..MaxFailures /\ crashes \in 0..MaxCrashes
    /\ paused \in [Connections -> BOOLEAN] /\ stale \in [Connections -> BOOLEAN]

LEMMA RestByFail ==
    ASSUME RestTyped
    PROVE  Fail => failures' \in 0..MaxFailures
BY CaptureParameters DEF RestTyped, Fail

LEMMA RestOfOutbox ==
    ASSUME RestTyped, OutboxStep \/ DeliveryStep \/ EndpointStep, UNCHANGED relayVars
    PROVE  RestTyped'
<1>1. crashes' = crashes /\ paused' = paused /\ stale' = stale
    BY DEF OutboxStep, RenameCapture, RefuseCapture, SyncCapture, FailSync, RemoveCapture,
       FailRemove, DeliveryStep, RetryTimer, StartDrain, Entries, FailEntries, FinishDrain,
       Deliver, Undelivered, LoseAnswer, Acknowledged, EndpointStep, StoreCapture, StoreLate,
       relayVars
<1>2. failures' = failures \/ Fail
    BY DEF OutboxStep, RenameCapture, RefuseCapture, SyncCapture, FailSync, RemoveCapture,
       FailRemove, DeliveryStep, RetryTimer, StartDrain, Entries, FailEntries, FinishDrain,
       Deliver, Undelivered, LoseAnswer, Acknowledged, EndpointStep, StoreCapture, StoreLate
<1>3. renamed' \in {renamed, TRUE, FALSE}
    BY DEF OutboxStep, RenameCapture, RefuseCapture, SyncCapture, FailSync, RemoveCapture,
       FailRemove, DeliveryStep, RetryTimer, StartDrain, Entries, FailEntries, FinishDrain,
       Deliver, Undelivered, LoseAnswer, Acknowledged, EndpointStep, StoreCapture, StoreLate,
       Settle, outboxVars
<1>4. /\ timer' \in {timer, "none", "wake", "retry"}
      /\ draining' \in {draining, "idle", "list", "deliver", "posted", "remove"}
      /\ answer' \in {answer, "none", "ok", "no"}
      /\ wakeRequested' \in {wakeRequested, TRUE, FALSE}
  <2>1. CASE OutboxStep
    BY <2>1 DEF OutboxStep, RenameCapture, RefuseCapture, SyncCapture, FailSync,
       RemoveCapture, FailRemove, EndDrain, deliveryVars
  <2>2. CASE DeliveryStep
    BY <2>2 DEF DeliveryStep, RetryTimer, Wake, StartDrain, Entries, FailEntries,
       FinishDrain, Deliver, Undelivered, LoseAnswer, Acknowledged, EndDrain
  <2>3. CASE EndpointStep
    BY <2>3 DEF EndpointStep, StoreCapture, StoreLate, deliveryVars
  <2> QED BY <2>1, <2>2, <2>3
<1>5. renamed' \in BOOLEAN /\ wakeRequested' \in BOOLEAN
  <2>1. renamed \in BOOLEAN /\ wakeRequested \in BOOLEAN
    BY DEF RestTyped
  <2> QED BY <1>3, <1>4, <2>1, Zenon
<1>6. failures' \in 0..MaxFailures
    BY <1>2, RestByFail DEF RestTyped
<1>7. /\ timer' \in {"none", "wake", "retry"}
      /\ draining' \in {"idle", "list", "deliver", "posted", "remove"}
      /\ answer' \in {"none", "ok", "no"}
    BY <1>4 DEF RestTyped
<1>8. /\ crashes' \in 0..MaxCrashes
      /\ paused' \in [Connections -> BOOLEAN] /\ stale' \in [Connections -> BOOLEAN]
    BY <1>1 DEF RestTyped
<1> QED BY <1>5, <1>6, <1>7, <1>8 DEF RestTyped

LEMMA RestOfConnection ==
    ASSUME RestTyped, NEW c \in Connections,
           Bridge(c) \/ Ends(c) \/ ChangePolicy(c) \/ ClientMessage(c) \/ TurnStep(c)
    PROVE  RestTyped'
<1>1. /\ UNCHANGED <<renamed, draining, answer, crashes>>
      /\ failures' = failures \/ Fail
    BY DEF Bridge, Ends, ClientClosed, UpstreamClosed, HeartbeatTimeout,
       DownstreamBackpressure, ChangePolicy, ClientMessage, TurnStep, StartTurn, RejectTurn,
       PersistTurn, RefusedTurn, StoredTurn, SentTurn, wsVars, outboxVars, deliveryVars
<1>2. timer' \in {timer, "wake"} /\ wakeRequested' \in {wakeRequested, TRUE}
    BY DEF Bridge, Ends, ClientClosed, UpstreamClosed, HeartbeatTimeout,
       DownstreamBackpressure, ChangePolicy, ClientMessage, TurnStep, StartTurn, RejectTurn,
       PersistTurn, RefusedTurn, StoredTurn, SentTurn, Wake, wsVars, deliveryVars
<1>3. stale' \in {stale, [stale EXCEPT ![c] = TRUE]}
    BY DEF Bridge, Ends, ClientClosed, UpstreamClosed, HeartbeatTimeout,
       DownstreamBackpressure, ChangePolicy, ClientMessage, TurnStep, StartTurn, RejectTurn,
       PersistTurn, RefusedTurn, StoredTurn, SentTurn
<1>4. paused' \in {paused, [paused EXCEPT ![c] = TRUE], [paused EXCEPT ![c] = FALSE]}
    BY DEF Bridge, Ends, ClientClosed, UpstreamClosed, HeartbeatTimeout,
       DownstreamBackpressure, ChangePolicy, ClientMessage, TurnStep, StartTurn, RejectTurn,
       PersistTurn, RefusedTurn, StoredTurn, SentTurn, BreakOff, Settled
<1>5. renamed' \in BOOLEAN /\ wakeRequested' \in BOOLEAN
  <2>1. renamed \in BOOLEAN /\ wakeRequested \in BOOLEAN
    BY DEF RestTyped
  <2> QED BY <1>1, <1>2, <2>1, Zenon
<1>6. paused' \in [Connections -> BOOLEAN] /\ stale' \in [Connections -> BOOLEAN]
  <2>1. paused \in [Connections -> BOOLEAN] /\ stale \in [Connections -> BOOLEAN]
    BY DEF RestTyped
  <2>2. /\ [paused EXCEPT ![c] = TRUE] \in [Connections -> BOOLEAN]
        /\ [paused EXCEPT ![c] = FALSE] \in [Connections -> BOOLEAN]
        /\ [stale EXCEPT ![c] = TRUE] \in [Connections -> BOOLEAN]
    BY <2>1
  <2> QED BY <1>3, <1>4, <2>1, <2>2, Zenon
<1>7. failures' \in 0..MaxFailures
    BY <1>1, RestByFail DEF RestTyped
<1>8. /\ timer' \in {"none", "wake", "retry"} /\ crashes' \in 0..MaxCrashes
      /\ draining' \in {"idle", "list", "deliver", "posted", "remove"}
      /\ answer' \in {"none", "ok", "no"}
    BY <1>1, <1>2 DEF RestTyped
<1> QED BY <1>5, <1>6, <1>7, <1>8 DEF RestTyped

LEMMA RestStep ==
    ASSUME RestTyped, [Next]_vars
    PROVE  RestTyped'
<1>1. CASE Crash
  <2>1. /\ renamed' = FALSE /\ wakeRequested' = FALSE /\ timer' = "wake"
        /\ draining' = "idle" /\ answer' = "none" /\ failures' = failures
        /\ crashes < MaxCrashes /\ crashes' = crashes + 1
        /\ paused' = [c \in Connections |-> FALSE] /\ stale' = stale
    BY <1>1 DEF Crash, OutboxCrash
  <2>2. crashes' \in 0..MaxCrashes
    BY <2>1, CaptureParameters DEF RestTyped
  <2> QED BY <2>1, <2>2 DEF RestTyped
<1>2. CASE UNCHANGED vars
    BY <1>2 DEF vars, wsVars, outboxVars, deliveryVars, relayVars, RestTyped
<1> QED BY <1>1, <1>2, RestOfOutbox, RestOfConnection DEF Next

----------------------------------------------------------------------------
(* The counters.                                                            *)

CountingInv == UsageInv /\ WaitingInv /\ ActiveCounted /\ RestTyped

LEMMA InitCounting ==
    ASSUME Init
    PROVE  CountingInv
<1>1. UsageInv
  <2>1. Len(operations) = 0
    BY EmptySeq DEF Init, OutboxInit
  <2>2. SizeOf(files) = 0
    BY SizeEmpty DEF Init, OutboxInit
  <2> QED BY <2>1, <2>2 DEF Init, OutboxInit, UsageInv, CapturesAreNew, CapturesAreNumbered,
          UsageCounted
<1>2. WaitingInv
    BY NothingWaits DEF Init
<1>3. ActiveCounted
  <2>1. Active = {} /\ activeConnections = 0
    BY DEF Init, Active
  <2> QED BY <2>1, FS_EmptySet DEF ActiveCounted
<1>4. RestTyped
  <2>1. renamed \in BOOLEAN /\ wakeRequested \in BOOLEAN
    BY Zenon DEF Init, OutboxInit
  <2>2. paused \in [Connections -> BOOLEAN] /\ stale \in [Connections -> BOOLEAN]
    BY DEF Init
  <2>3. failures \in 0..MaxFailures /\ crashes \in 0..MaxCrashes
    BY CaptureParameters DEF Init, OutboxInit
  <2>4. timer = "wake" /\ draining = "idle" /\ answer = "none"
    BY DEF Init, OutboxInit
  <2> QED BY <2>1, <2>2, <2>3, <2>4 DEF RestTyped
<1> QED BY <1>1, <1>2, <1>3, <1>4 DEF CountingInv

LEMMA SpecCounting ==
    Spec => []CountingInv
<1>1. Init => CountingInv
    BY InitCounting
<1>2. RelayInv /\ CountingInv /\ [Next]_vars => CountingInv'
    BY UsageStep, WaitingStep, ActiveStep, RestStep DEF CountingInv
<1> QED BY <1>1, <1>2, SpecRelay, PTL DEF Spec

\* Whatever closes, fails or ends (finish and the finally of a turn in
\* ws-relay/server.ts, serialized in outbox.ts): the connections and the bytes
\* that the relay counts are those of the open connections and of the messages
\* that wait, no message waits beyond the limits, and the usage of the outbox
\* counts no file that is gone.
THEOREM CountersHold ==
    Spec => []CountersAgree
<1>1. CountingInv => CountersAgree
    BY DEF CountingInv, UsageInv, UsageCounted, WaitingInv, WaitingCounted, WithinLimits,
       ActiveCounted, CountersAgree
<1> QED BY <1>1, SpecCounting, PTL

\* The relay's state keeps its types; above all no counter of connections or
\* bytes, and no usage of the outbox, falls below zero.
THEOREM RelayTypeCorrect ==
    Spec => []TypeOK
<1>1. ASSUME RelayInv, CountingInv
      PROVE  TypeOK
  <2>1. OutboxTypeOK
    BY <1>1 DEF RelayInv, RelayTyped, OutboxTyped, CountingInv, RestTyped, UsageInv,
       UsageCounted, OutboxTypeOK
  <2>2. activeConnections \in Nat
    BY <1>1, ActiveFinite DEF CountingInv, ActiveCounted
  <2>3. /\ pendingBytes \in Nat /\ pendingSmallBytes \in Nat
        /\ connectionPendingBytes \in [Connections -> Nat]
    BY <1>1, WaitingFinite DEF CountingInv, WaitingInv, WaitingCounted
  <2> QED BY <1>1, <2>1, <2>2, <2>3 DEF RelayInv, RelayTyped, TurnTyped, Payloads, CountingInv,
          RestTyped, TypeOK
<1> QED BY <1>1, SpecRelay, SpecCounting, PTL
=============================================================================
