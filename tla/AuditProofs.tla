------------------------------ MODULE AuditProofs ------------------------------
(***************************************************************************)
(* Proofs about the writing side of the prompt audit, for every number of   *)
(* prompts, requests, deletions, failures and crashes: what is acknowledged *)
(* is recorded, once; what a purge covered stays hidden; the bytes and the  *)
(* writers that are counted are those that wait or are at work; images stay *)
(* as long as their rows.  Then the reading side, the list, for tables of   *)
(* any size: it is an instance with variables of its own.                   *)
(***************************************************************************)
EXTENDS PromptAudit, SequenceTheorems, FiniteSetTheorems, TLAPS

----------------------------------------------------------------------------
(* The inductive invariant.                                                 *)

Steps == {"none", "begin", "files", "commit", "undo", "done", "failed"}

\* What waits in the queue waits once, and no insert of it has begun.
QueueOK ==
    /\ \A i, j \in 1..Len(queue) : i # j => queue[i] # queue[j]
    /\ \A i \in 1..Len(queue), k \in 1..MaxAttempts : step[<<queue[i], k>>] = "none"

WritersOK == IsFiniteSet(AtWork) /\ WritersCounted

Recorded(p) == Exists(p) \/ p \in deleted

\* An insert has no files before it writes them, an open transaction exactly
\* between its INSERT and its end, a row only after its commit; and if it found
\* a row of another request, that row is there or was deleted.
InsertOK(id) ==
    /\ IsFiniteSet(FilesOf(id))
    /\ step[id] \in {"none", "begin"} => FilesOf(id) = {}
    /\ draft[id] # None => step[id] \in {"files", "commit"}
    /\ step[id] = "files" => draft[id] # None
    /\ step[id] \in {"none", "begin", "files", "commit"} => rows[id] = None
    /\ step[id] = "commit" /\ draft[id] = None => Recorded(Prompt(id))

\* The request id is unique among the committed and the uncommitted rows.
Claims(id) == draft[id] # None \/ rows[id] # None
ClaimOK == \A i, j \in Ids : Prompt(i) = Prompt(j) /\ Claims(i) /\ Claims(j) => i = j

\* The boundary is past all that a committed purge covered.
PurgeOK == \A p \in erased : CapturedAt[p] < purgeBefore

AckOK == \A p \in acknowledged : Recorded(p)

AuditInv ==
    /\ RecordsTyped /\ QueueOK /\ WritersOK
    /\ \A id \in Ids : InsertOK(id)
    /\ ClaimOK /\ PurgeOK /\ AckOK

----------------------------------------------------------------------------
(* The queue.                                                               *)

LEMMA TakenBounds ==
    ASSUME AuditParameters, NEW q \in Seq(Mirrored), NEW active \in 0..Writers
    PROVE  /\ Taken(q, active) \in 0..Len(q)
           /\ active + Taken(q, active) \in 0..Writers
           /\ Taken(q, active) = Len(q) \/ active + Taken(q, active) = Writers
<1>1. Len(q) \in Nat /\ Writers \in Nat
    BY LenProperties DEF AuditParameters
<1> QED BY <1>1 DEF Taken, MinOf

\* The writers that start take different prompts.
LEMMA StartedCounted ==
    ASSUME AuditParameters, NEW q \in Seq(Mirrored), NEW active \in 0..Writers,
           \A i, j \in 1..Len(q) : i # j => q[i] # q[j]
    PROVE  /\ IsFiniteSet(Started(q, active))
           /\ Cardinality(Started(q, active)) = Taken(q, active)
           /\ Started(q, active) \subseteq Ids
<1> DEFINE n == Taken(q, active)
           S == Started(q, active)
           f == [i \in 1..n |-> <<q[i], 1>>]
<1>1. n \in Nat /\ 1..n \subseteq 1..Len(q)
    BY TakenBounds, LenProperties
<1>2. S = {<<q[i], 1>> : i \in 1..n}
    BY DEF Started
<1> HIDE DEF n, S
<1>3. f \in Bijection(1..n, S)
  <2>1. f \in [1..n -> S] /\ \A s \in S : \E i \in 1..n : f[i] = s
    BY <1>2
  <2>2. \A i, j \in 1..n : f[i] = f[j] => i = j
    BY <1>1
  <2> QED BY <2>1, <2>2 DEF Bijection, Injection, Surjection, IsInjective
<1>4. ExistsBijection(1..n, S)
    BY <1>3 DEF ExistsBijection
<1>5. IsFiniteSet(1..n) /\ Cardinality(1..n) = n
  <2>1. IsFiniteSet(1..n) /\ Cardinality(1..n) = IF 1 > n THEN 0 ELSE n - 1 + 1
    BY <1>1, FS_Interval
  <2> QED BY <1>1, <2>1
<1>6. IsFiniteSet(S) /\ Cardinality(S) = n
    BY <1>4, <1>5, FS_Bijection
<1>7. S \subseteq Ids
  <2>1. \A i \in 1..n : q[i] \in Prompts
    BY <1>1, ElementOfSeq DEF AuditParameters
  <2> QED BY <1>2, <2>1 DEF Ids, AuditParameters
<1> QED BY <1>6, <1>7 DEF n, S

\* Writers take prompts from the front of the queue as long as some are free.
LEMMA Drained ==
    ASSUME AuditParameters, NEW q \in Seq(Mirrored), NEW active \in 0..Writers,
           \A i, j \in 1..Len(q) : i # j => q[i] # q[j],
           \A i \in 1..Len(q), k \in 1..MaxAttempts : step[<<q[i], k>>] = "none",
           Len(q) <= MaxQueueSize,
           NEW R, IsFiniteSet(R), Cardinality(R) = active,
           \A id \in R : step[id] # "none",
           Drain(q, active),
           AtWork' = R \cup Started(q, active),
           \A id \in Ids \ Started(q, active) : step[id] = "none" => step'[id] = "none"
    PROVE  queue' \in Seq(Mirrored) /\ activeWriters' \in 0..Writers /\ QueueOK' /\ WritersOK'
<1> DEFINE n == Taken(q, active)
           S == Started(q, active)
<1>1. /\ n \in 0..Len(q) /\ active + n \in 0..Writers /\ Len(q) \in Nat
      /\ n = Len(q) \/ active + n = Writers
    BY TakenBounds, LenProperties
<1>2. queue' = SubSeq(q, n + 1, Len(q)) /\ activeWriters' = active + n
    BY DEF Drain
<1>3. \A i \in 1..Len(q) : q[i] \in Mirrored
    BY ElementOfSeq
<1>4. S = {<<q[i], 1>> : i \in 1..n} /\ S \subseteq Ids /\ IsFiniteSet(S) /\ Cardinality(S) = n
    BY StartedCounted DEF Started
<1> HIDE DEF n, S
<1>5. /\ queue' \in Seq(Mirrored) /\ Len(queue') = Len(q) - n
      /\ \A i \in 1..Len(queue') : n + i \in 1..Len(q) /\ queue'[i] = q[n + i]
  <2>1. n + 1 \in Int /\ Len(q) \in Int /\ \A i \in n + 1..Len(q) : q[i] \in Mirrored
    BY <1>1, <1>3
  <2>2. /\ queue' \in Seq(Mirrored)
        /\ Len(queue') = IF n + 1 <= Len(q) THEN Len(q) - (n + 1) + 1 ELSE 0
        /\ \A i \in 1..Len(q) - (n + 1) + 1 : queue'[i] = q[n + 1 + i - 1]
    BY <1>2, <2>1, SubSeqProperties
  <2> QED BY <1>1, <2>2
<1>6. QueueOK'
  <2>1. ASSUME NEW i \in 1..Len(queue'), NEW j \in 1..Len(queue'), i # j
        PROVE  queue'[i] # queue'[j]
    <3>1. n + i # n + j
        BY <1>1, <2>1
    <3> QED BY <1>5, <3>1
  <2>2. ASSUME NEW i \in 1..Len(queue'), NEW k \in 1..MaxAttempts
        PROVE  step'[<<queue'[i], k>>] = "none"
    <3>1. n + i \in 1..Len(q) /\ queue'[i] = q[n + i]
        BY <1>5
    <3>2. <<q[n + i], k>> \in Ids
        BY <1>3, <3>1 DEF Ids, AuditParameters
    <3>3. <<q[n + i], k>> \notin S
      <4>1. ASSUME NEW j \in 1..n
            PROVE  q[j] # q[n + i]
        <5>1. j \in 1..Len(q) /\ j # n + i
            BY <1>1, <3>1
        <5> QED BY <3>1, <5>1
      <4> QED BY <1>4, <4>1
    <3> QED BY <3>1, <3>2, <3>3 DEF S
  <2> QED BY <2>1, <2>2 DEF QueueOK
<1>7. IsFiniteSet(AtWork') /\ Cardinality(AtWork') = active + n
  <2>1. R \cap S = {}
    <3>1. ASSUME NEW i \in 1..n
          PROVE  step[<<q[i], 1>>] = "none"
      <4>1. i \in 1..Len(q) /\ 1 \in 1..MaxAttempts
        BY <1>1 DEF AuditParameters
      <4> QED BY <4>1
    <3> QED BY <1>4, <3>1
  <2>2. /\ IsFiniteSet(R \cup S)
        /\ Cardinality(R \cup S) = Cardinality(R) + Cardinality(S) - Cardinality(R \cap S)
    BY <1>4, FS_Union
  <2>3. Cardinality(R \cap S) = 0
    BY <2>1, FS_EmptySet
  <2> QED BY <1>1, <1>4, <2>2, <2>3 DEF S
<1>8. activeWriters' < Writers => queue' = <<>>
  <2>1. CASE active + n = Writers
    BY <1>1, <1>2, <2>1
  <2>2. CASE n = Len(q)
    BY <1>1, <1>5, <2>2, EmptySeq
  <2> QED BY <1>1, <2>1, <2>2
<1>9. Len(queue') <= MaxQueueSize
    BY <1>1, <1>5 DEF AuditParameters
<1> QED BY <1>1, <1>2, <1>5, <1>6, <1>7, <1>8, <1>9 DEF WritersOK, WritersCounted

----------------------------------------------------------------------------
(* What a step leaves as it is.                                             *)

LEMMA InvParts ==
    ASSUME AuditInv
    PROVE  /\ step \in [Ids -> Steps] /\ draft \in [Ids -> Nat \cup {None}]
           /\ rows \in [Ids -> [expires : Nat, status : Statuses] \cup {None}]
           /\ files \subseteq Ids \X Nat
           /\ queue \in Seq(Mirrored) /\ Len(queue) \in Nat
           /\ activeWriters \in 0..Writers
           /\ acknowledged \subseteq Prompts
BY LenProperties DEF AuditInv, RecordsTyped, Steps

\* An insert that does not move, or only begins, as long as no row that it
\* found is lost and nothing writes to its files.
LEMMA InsertStays ==
    ASSUME NEW i \in Ids, InsertOK(i),
           step'[i] = step[i] \/ (step[i] = "none" /\ step'[i] = "begin"),
           draft'[i] = draft[i],
           rows[i] = None => rows'[i] = None,
           FilesOf(i)' \subseteq FilesOf(i),
           Recorded(Prompt(i)) => Recorded(Prompt(i))'
    PROVE  InsertOK(i)'
<1>1. IsFiniteSet(FilesOf(i)')
    BY FS_Subset DEF InsertOK
<1> QED BY <1>1 DEF InsertOK

LEMMA ClaimStays ==
    ASSUME ClaimOK, \A i \in Ids : Claims(i)' => Claims(i)
    PROVE  ClaimOK'
BY DEF ClaimOK

LEMMA QueueStays ==
    ASSUME QueueOK, WritersOK, UNCHANGED <<queue, activeWriters>>, AtWork' = AtWork,
           \A i \in 1..Len(queue), k \in 1..MaxAttempts :
               step[<<queue[i], k>>] = "none" => step'[<<queue[i], k>>] = "none"
    PROVE  QueueOK' /\ WritersOK'
BY DEF QueueOK, WritersOK, WritersCounted

\* What is queued has begun no insert.
LEMMA QueuedIdle ==
    ASSUME AuditParameters, AuditInv, NEW i \in 1..Len(queue), NEW k \in 1..MaxAttempts
    PROVE  /\ queue[i] \in Mirrored /\ <<queue[i], k>> \in Ids
           /\ step[<<queue[i], k>>] = "none"
<1>1. queue[i] \in Mirrored
    BY InvParts, ElementOfSeq
<1> QED BY <1>1 DEF AuditInv, QueueOK, Ids, AuditParameters

\* The end of an insert frees its writer for the next prompt of the queue.
LEMMA EndFrame ==
    ASSUME AuditParameters, AuditInv, NEW id \in Ids, step[id] \in Running,
           NEW result \in {"done", "failed"}, End(id, result)
    PROVE  /\ step' \in [Ids -> Steps] /\ step'[id] = result
           /\ \A i \in Ids : i # id => \/ step'[i] = step[i]
                                       \/ step[i] = "none" /\ step'[i] = "begin"
           /\ draft' = [draft EXCEPT ![id] = None]
           /\ queue' \in Seq(Mirrored) /\ activeWriters' \in 0..Writers
           /\ QueueOK' /\ WritersOK'
           /\ \/ acknowledged' = acknowledged
              \/ result = "done" /\ acknowledged' = acknowledged \cup {Prompt(id)}
<1> DEFINE p == Prompt(id)
           active == IF p \in Mirrored THEN activeWriters - 1 ELSE activeWriters
           next == IF p \in Mirrored THEN Started(queue, active) ELSE {}
<1>1. /\ step \in [Ids -> Steps] /\ queue \in Seq(Mirrored) /\ Len(queue) \in Nat
      /\ activeWriters \in 0..Writers /\ Writers \in Nat
    BY InvParts DEF AuditParameters
<1>2. /\ step' = [i \in Ids |-> IF i = id THEN result
                                ELSE IF i \in next THEN "begin" ELSE step[i]]
      /\ draft' = [draft EXCEPT ![id] = None]
    BY DEF End
<1>3. \A i \in next : i \in Ids /\ Prompt(i) \in Mirrored /\ step[i] = "none"
  <2>1. SUFFICES ASSUME p \in Mirrored, NEW i \in Started(queue, activeWriters - 1)
                 PROVE  i \in Ids /\ Prompt(i) \in Mirrored /\ step[i] = "none"
    OBVIOUS
  <2>2. activeWriters - 1 \in 0..Writers
    <3>1. id \in AtWork
        BY <2>1 DEF AtWork
    <3>2. IsFiniteSet(AtWork) /\ activeWriters = Cardinality(AtWork)
        BY DEF AuditInv, WritersOK, WritersCounted
    <3>3. activeWriters # 0
        BY <3>1, <3>2, FS_EmptySet
    <3> QED BY <1>1, <3>3
  <2>3. PICK k \in 1..Taken(queue, activeWriters - 1) : i = <<queue[k], 1>>
    BY <2>1 DEF Started
  <2>4. k \in 1..Len(queue) /\ 1 \in 1..MaxAttempts
    <3>1. Taken(queue, activeWriters - 1) \in 0..Len(queue)
        BY <1>1, <2>2, TakenBounds
    <3>2. Len(queue) \in Nat /\ 1 \in 1..MaxAttempts
        BY <1>1, LenProperties DEF AuditParameters
    <3> QED BY <2>3, <3>1, <3>2
  <2> QED BY <2>3, <2>4, QueuedIdle DEF Prompt
<1> HIDE DEF next
<1>4. /\ step' \in [Ids -> Steps] /\ step'[id] = result
      /\ \A i \in Ids : i # id => \/ step'[i] = step[i]
                                  \/ step[i] = "none" /\ step'[i] = "begin"
    BY <1>1, <1>2, <1>3 DEF Steps
<1>5. CASE p \notin Mirrored
  <2>1. UNCHANGED <<queue, activeWriters>>
    BY <1>5 DEF End, queueVars
  <2>2. next = {}
    BY <1>5 DEF next
  <2>3. AtWork' = AtWork
    BY <1>1, <1>2, <1>5, <2>2 DEF AtWork
  <2>4. ASSUME NEW i \in 1..Len(queue), NEW k \in 1..MaxAttempts
        PROVE  step'[<<queue[i], k>>] = "none"
    <3>1. <<queue[i], k>> \in Ids /\ step[<<queue[i], k>>] = "none"
        BY QueuedIdle
    <3>2. <<queue[i], k>> # id
        BY <3>1 DEF Running
    <3> QED BY <1>2, <2>2, <3>1, <3>2
  <2>5. QueueOK' /\ WritersOK'
    BY <2>1, <2>3, <2>4, QueueStays DEF AuditInv
  <2>6. \/ acknowledged' = acknowledged
        \/ result = "done" /\ acknowledged' = acknowledged \cup {Prompt(id)}
    BY <1>5 DEF End, Answered
  <2> QED BY <1>1, <1>2, <1>4, <2>1, <2>5, <2>6
<1>6. CASE p \in Mirrored
  <2> DEFINE R == AtWork \ {id}
  <2>1. active = activeWriters - 1 /\ next = Started(queue, active)
    BY <1>6 DEF next
  <2>2. Drain(queue, active) /\ UNCHANGED acknowledged
    BY <1>6 DEF End
  <2>3. IsFiniteSet(R) /\ Cardinality(R) = active /\ active \in 0..Writers
    <3>1. id \in AtWork
        BY <1>6 DEF AtWork
    <3>2. IsFiniteSet(AtWork) /\ activeWriters = Cardinality(AtWork)
        BY DEF AuditInv, WritersOK, WritersCounted
    <3>3. IsFiniteSet(R) /\ Cardinality(R) = activeWriters - 1
        BY <3>1, <3>2, FS_RemoveElement
    <3>4. Cardinality(R) \in Nat
        BY <3>3, FS_CardinalityType
    <3> QED BY <1>1, <2>1, <3>3, <3>4
  <2>4. \A i \in R : step[i] # "none"
    BY DEF AtWork, Running
  <2>5. AtWork' = R \cup Started(queue, active)
    <3>1. id \notin next
        BY <1>3 DEF Running
    <3>2. result \notin Running /\ "begin" \in Running
        BY DEF Running
    <3>3. ASSUME NEW i \in Ids
          PROVE  i \in AtWork' <=> i \in R \/ i \in next
      <4>1. step'[i] = IF i = id THEN result ELSE IF i \in next THEN "begin" ELSE step[i]
        BY <1>2
      <4>2. CASE i = id
        BY <3>1, <3>2, <4>1, <4>2 DEF AtWork
      <4>3. CASE i # id /\ i \in next
        BY <1>3, <3>2, <4>1, <4>3 DEF AtWork
      <4>4. CASE i # id /\ i \notin next
        BY <4>1, <4>4 DEF AtWork
      <4> QED BY <4>2, <4>3, <4>4
    <3>4. AtWork' \subseteq Ids /\ R \subseteq Ids /\ next \subseteq Ids
        BY <1>3 DEF AtWork
    <3>5. AtWork' = R \cup next
        BY <3>3, <3>4
    <3> QED BY <2>1, <3>5
  <2>6. \A i \in Ids \ Started(queue, active) : step[i] = "none" => step'[i] = "none"
    <3>1. step[id] # "none"
        BY DEF Running
    <3> QED BY <1>2, <2>1, <3>1
  <2>7. /\ \A i, j \in 1..Len(queue) : i # j => queue[i] # queue[j]
        /\ \A i \in 1..Len(queue), k \in 1..MaxAttempts : step[<<queue[i], k>>] = "none"
        /\ Len(queue) <= MaxQueueSize
    BY DEF AuditInv, QueueOK, WritersOK, WritersCounted
  <2> HIDE DEF R, active
  <2>8. queue' \in Seq(Mirrored) /\ activeWriters' \in 0..Writers /\ QueueOK' /\ WritersOK'
    BY <1>1, <2>2, <2>3, <2>4, <2>5, <2>6, <2>7, Drained
  <2> QED BY <1>2, <1>4, <2>2, <2>8
<1> QED BY <1>5, <1>6

\* No row is lost: what is recorded stays so.
LEMMA RecordedStays ==
    ASSUME NEW p \in Prompts, Recorded(p), deleted \subseteq deleted',
           \A i \in Ids : rows[i] # None => rows'[i] # None
    PROVE  Recorded(p)'
<1>1. CASE p \in deleted
    BY <1>1 DEF Recorded
<1>2. CASE Exists(p)
  <2>1. PICK k \in 1..MaxAttempts : rows[<<p, k>>] # None
    BY <1>2 DEF Exists
  <2>2. rows'[<<p, k>>] # None
    BY <2>1 DEF Ids
  <2> QED BY <2>2 DEF Recorded, Exists
<1> QED BY <1>1, <1>2 DEF Recorded

LEMMA PromptOfId ==
    ASSUME NEW id \in Ids
    PROVE  Prompt(id) \in Prompts /\ id[2] \in 1..MaxAttempts /\ id = <<Prompt(id), id[2]>>
BY DEF Ids, Prompt

\* One insert moves, or a few begin.
LEMMA InsertMoves ==
    ASSUME AuditInv, RecordsTyped', QueueOK', WritersOK', ClaimOK',
           NEW id \in Ids, InsertOK(id)',
           \A i \in Ids \ {id} :
               /\ step'[i] = step[i] \/ (step[i] = "none" /\ step'[i] = "begin")
               /\ draft'[i] = draft[i] /\ rows'[i] = rows[i],
           rows[id] # None => rows'[id] # None,
           \A f \in files' : f \in files \/ f[1] = id,
           UNCHANGED <<deleted, erased, purgeBefore>>,
           acknowledged' \subseteq acknowledged \cup {p \in Prompts : Recorded(p)'}
    PROVE  AuditInv'
<1>1. \A i \in Ids : rows[i] # None => rows'[i] # None
    OBVIOUS
<1>2. ASSUME NEW p \in Prompts, Recorded(p)
      PROVE  Recorded(p)'
    BY <1>1, <1>2, RecordedStays
<1>3. ASSUME NEW i \in Ids \ {id}
      PROVE  InsertOK(i)'
  <2>1. FilesOf(i)' \subseteq FilesOf(i)
    BY DEF FilesOf
  <2>2. Recorded(Prompt(i)) => Recorded(Prompt(i))'
    BY <1>2, PromptOfId
  <2> QED BY <2>1, <2>2, InsertStays DEF AuditInv
<1>4. PurgeOK'
    BY DEF AuditInv, PurgeOK
<1>5. AckOK'
    BY <1>2, InvParts DEF AuditInv, AckOK
<1> QED BY <1>3, <1>4, <1>5 DEF AuditInv

\* Inserts may begin and files disappear, but no row comes or goes.
LEMMA RowsStay ==
    ASSUME AuditInv, RecordsTyped', QueueOK', WritersOK',
           \A i \in Ids : step'[i] = step[i] \/ (step[i] = "none" /\ step'[i] = "begin"),
           files' \subseteq files,
           \A i \in Ids : rows'[i] = None <=> rows[i] = None,
           UNCHANGED <<draft, acknowledged, deleted, erased, purgeBefore>>
    PROVE  AuditInv'
<1>1. \A p \in Prompts : Recorded(p) => Recorded(p)'
  <2>1. ASSUME NEW p \in Prompts, Recorded(p)
        PROVE  Recorded(p)'
    BY <2>1, RecordedStays
  <2> QED BY <2>1
<1>2. ASSUME NEW i \in Ids
      PROVE  InsertOK(i)'
  <2>1. FilesOf(i)' \subseteq FilesOf(i)
    BY DEF FilesOf
  <2>2. Recorded(Prompt(i)) => Recorded(Prompt(i))'
    BY <1>1, PromptOfId
  <2> QED BY <2>1, <2>2, InsertStays DEF AuditInv
<1>3. ClaimOK' /\ PurgeOK'
  <2>1. \A i \in Ids : Claims(i)' => Claims(i)
    BY DEF Claims
  <2> QED BY <2>1, ClaimStays DEF AuditInv, PurgeOK
<1>4. AckOK'
    BY <1>1, InvParts DEF AuditInv, AckOK
<1> QED BY <1>2, <1>3, <1>4 DEF AuditInv

\* An insert goes on, and its writer with it.
LEMMA StepsOn ==
    ASSUME AuditParameters, AuditInv, NEW id \in Ids, step[id] \in Running,
           NEW s \in Running, step' = [step EXCEPT ![id] = s],
           UNCHANGED queueVars
    PROVE  step' \in [Ids -> Steps] /\ QueueOK' /\ WritersOK'
<1>1. step \in [Ids -> Steps] /\ s \in Steps
    BY InvParts DEF Running, Steps
<1>2. AtWork' = AtWork
    BY <1>1 DEF AtWork
<1>3. \A i \in 1..Len(queue), k \in 1..MaxAttempts :
         step[<<queue[i], k>>] = "none" => step'[<<queue[i], k>>] = "none"
  <2>1. ASSUME NEW i \in 1..Len(queue), NEW k \in 1..MaxAttempts
        PROVE  step'[<<queue[i], k>>] = "none"
    <3>1. <<queue[i], k>> \in Ids /\ step[<<queue[i], k>>] = "none"
        BY QueuedIdle
    <3> QED BY <1>1, <3>1 DEF Running
  <2> QED BY <2>1
<1>4. QueueOK' /\ WritersOK'
    BY <1>2, <1>3, QueueStays DEF AuditInv, queueVars
<1> QED BY <1>1, <1>4

----------------------------------------------------------------------------
(* The requests.                                                            *)

LEMMA EnqueueKept ==
    ASSUME AuditParameters, AuditInv, NEW p \in Prompts, Enqueue(p)
    PROVE  AuditInv'
<1> DEFINE q == Append(queue, p)
           S == Started(q, activeWriters)
<1>1. /\ p \in Mirrored /\ \A k \in 1..MaxAttempts : step[<<p, k>>] = "none"
      /\ \A i \in DOMAIN queue : queue[i] # p
      /\ Len(queue) < MaxQueueSize
      /\ Drain(q, activeWriters)
      /\ step' = [id \in Ids |-> IF id \in S THEN "begin" ELSE step[id]]
      /\ UNCHANGED <<draft, acknowledged, deleteVars, rows, files, logged,
                     retention, now, failures, crashes>>
    BY DEF Enqueue, New
<1>2. /\ step \in [Ids -> Steps] /\ queue \in Seq(Mirrored) /\ Len(queue) \in Nat
      /\ activeWriters \in 0..Writers /\ MaxQueueSize \in Nat
    BY InvParts DEF AuditParameters
<1>3. /\ q \in Seq(Mirrored) /\ Len(q) = Len(queue) + 1
      /\ \A i \in 1..Len(queue) : q[i] = queue[i]
      /\ q[Len(queue) + 1] = p
    BY <1>1, <1>2, AppendProperties
<1> HIDE DEF q
<1>4. \A i \in 1..Len(queue) : queue[i] # p
    BY <1>1, <1>2, LenProperties
<1>5. ASSUME NEW i \in 1..Len(q)
      PROVE  i \in 1..Len(queue) \/ i = Len(queue) + 1
    BY <1>2, <1>3
<1>6. \A i, j \in 1..Len(q) : i # j => q[i] # q[j]
    BY <1>3, <1>4, <1>5 DEF AuditInv, QueueOK
<1>7. \A i \in 1..Len(q), k \in 1..MaxAttempts : step[<<q[i], k>>] = "none"
  <2>1. TAKE i \in 1..Len(q), k \in 1..MaxAttempts
  <2>2. CASE i \in 1..Len(queue)
    <3>1. step[<<queue[i], k>>] = "none"
        BY <2>2 DEF AuditInv, QueueOK
    <3> QED BY <1>3, <2>2, <3>1
  <2>3. CASE i = Len(queue) + 1
    BY <1>1, <1>3, <2>3
  <2> QED BY <1>5, <2>2, <2>3
<1>8. \A i \in S : i \in Ids /\ Prompt(i) \in Mirrored /\ step[i] = "none"
  <2>1. SUFFICES ASSUME NEW i \in Started(q, activeWriters)
                 PROVE  i \in Ids /\ Prompt(i) \in Mirrored /\ step[i] = "none"
    OBVIOUS
  <2>2. PICK k \in 1..Taken(q, activeWriters) : i = <<q[k], 1>>
    BY DEF Started
  <2>3. k \in 1..Len(q) /\ 1 \in 1..MaxAttempts
    <3>1. Taken(q, activeWriters) \in 0..Len(q)
        BY <1>2, <1>3, TakenBounds
    <3>2. Len(q) \in Nat /\ 1 \in 1..MaxAttempts
        BY <1>2, <1>3 DEF AuditParameters
    <3> QED BY <2>2, <3>1, <3>2
  <2>4. q[k] \in Mirrored
    BY <1>3, <2>3, ElementOfSeq
  <2> QED BY <1>7, <2>2, <2>3, <2>4 DEF Prompt, Ids, AuditParameters
<1>9. AtWork' = AtWork \cup S
  <2>1. ASSUME NEW i \in Ids
        PROVE  i \in AtWork' <=> i \in AtWork \/ i \in S
    <3>1. step'[i] = IF i \in S THEN "begin" ELSE step[i]
        BY <1>1
    <3> QED BY <1>8, <3>1 DEF AtWork, Running
  <2>2. AtWork' \subseteq Ids /\ AtWork \subseteq Ids /\ S \subseteq Ids
    BY <1>8 DEF AtWork
  <2> QED BY <2>1, <2>2
<1>10. queue' \in Seq(Mirrored) /\ activeWriters' \in 0..Writers /\ QueueOK' /\ WritersOK'
  <2>1. IsFiniteSet(AtWork) /\ Cardinality(AtWork) = activeWriters
    BY DEF AuditInv, WritersOK, WritersCounted
  <2>2. \A i \in AtWork : step[i] # "none"
    BY DEF AtWork, Running
  <2>3. \A i \in Ids \ Started(q, activeWriters) : step[i] = "none" => step'[i] = "none"
    BY <1>1
  <2>4. Len(q) <= MaxQueueSize
    BY <1>1, <1>2, <1>3
  <2> QED BY <1>1, <1>2, <1>3, <1>6, <1>7, <1>9, <2>1, <2>2, <2>3, <2>4, Drained
<1>11. step' \in [Ids -> Steps]
    BY <1>1, <1>2 DEF Steps
<1>12. RecordsTyped'
    BY <1>1, <1>10, <1>11 DEF AuditInv, RecordsTyped, Steps, deleteVars
<1>13. \A i \in Ids : step'[i] = step[i] \/ (step[i] = "none" /\ step'[i] = "begin")
    BY <1>1, <1>8
<1> HIDE DEF S
<1> QED BY <1>1, <1>10, <1>12, <1>13, RowsStay DEF deleteVars

LEMMA StoreKept ==
    ASSUME AuditParameters, AuditInv, NEW p \in Prompts, Store(p)
    PROVE  AuditInv'
<1>1. PICK k \in 1..MaxAttempts : /\ step[<<p, k>>] = "none"
                                  /\ step' = [step EXCEPT ![<<p, k>>] = "begin"]
    BY DEF Store
<1>2. /\ p \notin Mirrored
      /\ UNCHANGED <<queue, activeWriters, draft, acknowledged, deleteVars, rows, files,
                     logged, retention, now, failures, crashes>>
    BY DEF Store, queueVars
<1>3. <<p, k>> \in Ids /\ step \in [Ids -> Steps] /\ Prompt(<<p, k>>) = p
    BY InvParts DEF Ids, Prompt
<1>4. step' \in [Ids -> Steps]
    BY <1>1, <1>3 DEF Steps
<1>5. AtWork' = AtWork
    BY <1>1, <1>2, <1>3 DEF AtWork
<1>6. ASSUME NEW i \in 1..Len(queue), NEW j \in 1..MaxAttempts
      PROVE  step'[<<queue[i], j>>] = "none"
  <2>1. /\ queue[i] \in Mirrored /\ <<queue[i], j>> \in Ids
        /\ step[<<queue[i], j>>] = "none"
    BY QueuedIdle
  <2>2. <<queue[i], j>> # <<p, k>>
    BY <1>2, <2>1
  <2> QED BY <1>1, <1>3, <2>1, <2>2
<1>7. QueueOK' /\ WritersOK'
    BY <1>2, <1>5, <1>6, QueueStays DEF AuditInv
<1>8. RecordsTyped'
    BY <1>2, <1>4 DEF AuditInv, RecordsTyped, Steps, deleteVars
<1>9. \A i \in Ids : step'[i] = step[i] \/ (step[i] = "none" /\ step'[i] = "begin")
    BY <1>1, <1>3
<1> QED BY <1>2, <1>7, <1>8, <1>9, RowsStay DEF deleteVars

----------------------------------------------------------------------------
(* One insert.                                                              *)

\* Only one request of a prompt gets past the wait and the conflict.
LEMMA InsertRowKept ==
    ASSUME AuditParameters, NoneIsNoRow, AuditInv, NEW id \in Ids, InsertRow(id)
    PROVE  AuditInv'
<1>1. /\ step[id] = "begin" /\ ~Open(Prompt(id))
      /\ UNCHANGED <<queueVars, acknowledged, deleteVars, rows, files, logged,
                     retention, now, failures, crashes>>
    BY DEF InsertRow
<1>2. /\ step \in [Ids -> Steps] /\ draft \in [Ids -> Nat \cup {None}]
      /\ InsertOK(id) /\ draft[id] = None /\ rows[id] = None
    BY <1>1, InvParts DEF AuditInv, InsertOK
<1>3. FilesOf(id)' = FilesOf(id)
    BY <1>1 DEF FilesOf
<1>4. Prompt(id) \in Prompts /\ id[2] \in 1..MaxAttempts /\ id = <<Prompt(id), id[2]>>
    BY PromptOfId
<1>5. "begin" \in Running /\ "commit" \in Running /\ "files" \in Running
    BY DEF Running
<1>6. CASE /\ Exists(Prompt(id))
           /\ step' = [step EXCEPT ![id] = "commit"]
           /\ UNCHANGED draft
  <2>1. step' \in [Ids -> Steps] /\ QueueOK' /\ WritersOK'
    BY <1>1, <1>5, <1>6, StepsOn
  <2>2. RecordsTyped'
    BY <1>1, <1>6, <2>1 DEF AuditInv, RecordsTyped, Steps, queueVars, deleteVars
  <2>3. ClaimOK'
    BY <1>1, <1>6 DEF AuditInv, ClaimOK, Claims
  <2>4. Recorded(Prompt(id))'
    BY <1>1, <1>6 DEF Recorded, Exists
  <2>5. InsertOK(id)'
    BY <1>1, <1>2, <1>3, <1>6, <2>4 DEF InsertOK
  <2> QED BY <1>1, <1>2, <1>6, <2>1, <2>2, <2>3, <2>5, InsertMoves DEF deleteVars
<1>7. CASE /\ ~Exists(Prompt(id))
           /\ draft' = [draft EXCEPT ![id] = CapturedAt[Prompt(id)] + retention.days[1]]
           /\ step' = [step EXCEPT ![id] = IF Images[Prompt(id)] = 0 THEN "commit" ELSE "files"]
  <2>1. PICK s \in {"commit", "files"} : step' = [step EXCEPT ![id] = s]
    BY <1>7
  <2>2. step' \in [Ids -> Steps] /\ QueueOK' /\ WritersOK'
    BY <1>1, <1>5, <2>1, StepsOn
  <2>3. CapturedAt[Prompt(id)] + retention.days[1] \in Nat
    <3>1. retention.days \in Nat \X Nat
        BY DEF AuditInv, RecordsTyped, AuditParameters
    <3> QED BY <1>4, <3>1 DEF AuditParameters
  <2>4. draft' \in [Ids -> Nat \cup {None}] /\ draft'[id] \in Nat /\ draft'[id] # None
    BY <1>2, <1>7, <2>3 DEF NoneIsNoRow
  <2>5. RecordsTyped'
    BY <1>1, <2>2, <2>4 DEF AuditInv, RecordsTyped, Steps, queueVars, deleteVars
  <2>6. ASSUME NEW j \in Ids, Prompt(j) = Prompt(id)
        PROVE  ~Claims(j)
    <3>1. j[2] \in 1..MaxAttempts /\ j = <<Prompt(id), j[2]>>
        BY <2>6, PromptOfId
    <3> QED BY <1>1, <1>7, <3>1 DEF Claims, Open, Exists
  <2>7. ClaimOK'
    <3>1. \A j \in Ids : j # id => (Claims(j)' <=> Claims(j))
        BY <1>1, <1>2, <1>7 DEF Claims
    <3> QED BY <2>6, <3>1 DEF AuditInv, ClaimOK
  <2>8. InsertOK(id)'
    BY <1>1, <1>2, <1>3, <2>1, <2>4 DEF InsertOK
  <2> QED BY <1>1, <1>2, <1>7, <2>1, <2>2, <2>5, <2>7, <2>8, InsertMoves DEF deleteVars
<1> QED BY <1>6, <1>7 DEF InsertRow

LEMMA WriteImageKept ==
    ASSUME AuditParameters, AuditInv, NEW id \in Ids, WriteImage(id)
    PROVE  AuditInv'
<1> DEFINE n == Cardinality(FilesOf(id)) + 1
<1>1. /\ step[id] = "files" /\ files' = files \cup {<<id, n>>}
      /\ UNCHANGED <<queueVars, draft, acknowledged, deleteVars, rows, logged,
                     retention, now, failures, crashes>>
    BY DEF WriteImage
<1>2. PICK s \in {"commit", "files"} : step' = [step EXCEPT ![id] = s]
  <2>1. step' = [step EXCEPT ![id] = "commit"] \/ step' = step
    BY DEF WriteImage
  <2>2. step' = step => step' = [step EXCEPT ![id] = "files"]
    BY <1>1, InvParts
  <2> QED BY <2>1, <2>2
<1>3. step \in [Ids -> Steps] /\ InsertOK(id) /\ draft[id] # None /\ rows[id] = None
    BY <1>1, InvParts DEF AuditInv, InsertOK
<1>4. n \in Nat
    BY <1>3, FS_CardinalityType DEF InsertOK
<1> HIDE DEF n
<1>5. step' \in [Ids -> Steps] /\ QueueOK' /\ WritersOK'
    BY <1>1, <1>2, StepsOn DEF Running
<1>6. files' \subseteq Ids \X Nat
    BY <1>1, <1>4, InvParts
<1>7. RecordsTyped'
    BY <1>1, <1>5, <1>6 DEF AuditInv, RecordsTyped, Steps, queueVars, deleteVars
<1>8. ClaimOK'
    BY <1>1 DEF AuditInv, ClaimOK, Claims
<1>9. FilesOf(id)' = FilesOf(id) \cup {<<id, n>>}
    BY <1>1 DEF FilesOf
<1>10. IsFiniteSet(FilesOf(id)')
  <2>1. IsFiniteSet(FilesOf(id))
    BY <1>3 DEF InsertOK
  <2>2. IsFiniteSet(FilesOf(id) \cup {<<id, n>>})
    BY <2>1, FS_AddElement
  <2> QED BY <1>9, <2>2
<1>11. InsertOK(id)'
    BY <1>1, <1>2, <1>3, <1>10 DEF InsertOK
<1>12. \A f \in files' : f \in files \/ f[1] = id
    BY <1>1
<1> QED BY <1>1, <1>2, <1>3, <1>5, <1>7, <1>8, <1>11, <1>12, InsertMoves DEF deleteVars

\* An insert that fails is rolled back; of its files some may stay.
LEMMA FailedEnd ==
    ASSUME AuditParameters, AuditInv, NEW id \in Ids, step[id] \in Running,
           End(id, "failed"), files' \subseteq files, failures' \in 0..MaxFailures,
           UNCHANGED <<deleteVars, rows, logged, retention, now, crashes>>
    PROVE  AuditInv'
<1>1. /\ step' \in [Ids -> Steps] /\ step'[id] = "failed"
      /\ \A i \in Ids : i # id => \/ step'[i] = step[i]
                                  \/ step[i] = "none" /\ step'[i] = "begin"
      /\ draft' = [draft EXCEPT ![id] = None]
      /\ queue' \in Seq(Mirrored) /\ activeWriters' \in 0..Writers
      /\ QueueOK' /\ WritersOK'
      /\ acknowledged' = acknowledged
    BY EndFrame
<1>2. draft \in [Ids -> Nat \cup {None}] /\ InsertOK(id)
    BY InvParts DEF AuditInv
<1>3. draft'[id] = None /\ draft' \in [Ids -> Nat \cup {None}]
      /\ \A i \in Ids \ {id} : draft'[i] = draft[i]
    BY <1>1, <1>2
<1>4. RecordsTyped'
    BY <1>1, <1>3 DEF AuditInv, RecordsTyped, Steps, deleteVars
<1>5. \A i \in Ids : Claims(i)' => Claims(i)
    BY <1>3 DEF Claims
<1>6. ClaimOK'
    BY <1>5, ClaimStays DEF AuditInv
<1>7. IsFiniteSet(FilesOf(id)')
  <2>1. FilesOf(id)' \subseteq FilesOf(id)
    BY DEF FilesOf
  <2> QED BY <1>2, <2>1, FS_Subset DEF InsertOK
<1>8. InsertOK(id)'
    BY <1>1, <1>3, <1>7 DEF InsertOK
<1> QED BY <1>1, <1>3, <1>4, <1>6, <1>8, InsertMoves DEF deleteVars

LEMMA FailTyped ==
    ASSUME AuditParameters, AuditInv, Fail
    PROVE  failures' \in 0..MaxFailures
BY DEF AuditParameters, AuditInv, RecordsTyped, Fail

LEMMA FailInsertKept ==
    ASSUME AuditParameters, AuditInv, NEW id \in Ids, FailInsert(id)
    PROVE  AuditInv'
BY FailTyped, FailedEnd DEF FailInsert, Running

LEMMA FailImageKept ==
    ASSUME AuditParameters, AuditInv, NEW id \in Ids, FailImage(id)
    PROVE  AuditInv'
<1>1. files' \subseteq files
    BY DEF FailImage
<1> QED BY <1>1, FailTyped, FailedEnd DEF FailImage, Running

LEMMA UndoKept ==
    ASSUME AuditParameters, AuditInv, NEW id \in Ids, Undo(id)
    PROVE  AuditInv'
<1>1. files' \subseteq files
    BY DEF Undo
<1>2. failures' \in 0..MaxFailures
    BY FailTyped DEF Undo, AuditInv, RecordsTyped
<1> QED BY <1>1, <1>2, FailedEnd DEF Undo, Running

\* The row that a commit makes visible.
LEMMA RowCommitted ==
    ASSUME AuditParameters, NoneIsNoRow, AuditInv, NEW id \in Ids, draft[id] # None,
           rows' = [rows EXCEPT ![id] = Row(Prompt(id), draft[id])]
    PROVE  /\ rows' \in [Ids -> [expires : Nat, status : Statuses] \cup {None}]
           /\ rows'[id] # None
           /\ \A i \in Ids \ {id} : rows'[i] = rows[i]
<1>1. draft[id] \in Nat
    BY InvParts
<1>2. Row(Prompt(id), draft[id]) \in [expires : Nat, status : Statuses]
    BY <1>1 DEF Row, Statuses
<1> QED BY <1>2, InvParts DEF NoneIsNoRow

\* The row of an open transaction takes the place of its draft, or nothing.
LEMMA ClaimPassed ==
    ASSUME AuditInv, NEW id \in Ids, draft' = [draft EXCEPT ![id] = None],
           \A i \in Ids \ {id} : rows'[i] = rows[i],
           rows'[id] # None => Claims(id)
    PROVE  ClaimOK'
<1>1. \A i \in Ids : Claims(i)' => Claims(i)
    BY InvParts DEF Claims
<1> QED BY <1>1, ClaimStays DEF AuditInv

LEMMA CommitKept ==
    ASSUME AuditParameters, NoneIsNoRow, AuditInv, NEW id \in Ids, Commit(id)
    PROVE  AuditInv'
<1>1. /\ step[id] = "commit" /\ End(id, "done")
      /\ rows' = IF draft[id] = None THEN rows
                 ELSE [rows EXCEPT ![id] = Row(Prompt(id), draft[id])]
      /\ UNCHANGED <<deleteVars, files, logged, retention, now, failures, crashes>>
    BY DEF Commit
<1>2. /\ step' \in [Ids -> Steps] /\ step'[id] = "done"
      /\ \A i \in Ids : i # id => \/ step'[i] = step[i]
                                  \/ step[i] = "none" /\ step'[i] = "begin"
      /\ draft' = [draft EXCEPT ![id] = None]
      /\ queue' \in Seq(Mirrored) /\ activeWriters' \in 0..Writers
      /\ QueueOK' /\ WritersOK'
      /\ acknowledged' \subseteq acknowledged \cup {Prompt(id)}
    BY <1>1, EndFrame DEF Running
<1>3. draft \in [Ids -> Nat \cup {None}] /\ InsertOK(id)
      /\ rows \in [Ids -> [expires : Nat, status : Statuses] \cup {None}]
    BY InvParts DEF AuditInv
<1>4. draft'[id] = None /\ draft' \in [Ids -> Nat \cup {None}]
      /\ \A i \in Ids \ {id} : draft'[i] = draft[i]
    BY <1>2, <1>3
<1>5. /\ rows' \in [Ids -> [expires : Nat, status : Statuses] \cup {None}]
      /\ \A i \in Ids \ {id} : rows'[i] = rows[i]
      /\ draft[id] # None => rows'[id] # None
      /\ rows[id] # None => rows'[id] # None
      /\ rows'[id] # None => Claims(id)
    BY <1>1, <1>3, RowCommitted DEF Claims
<1>6. Prompt(id) \in Prompts /\ id[2] \in 1..MaxAttempts /\ id = <<Prompt(id), id[2]>>
    BY PromptOfId
<1>7. Recorded(Prompt(id))'
  <2>1. CASE draft[id] # None
    BY <1>5, <1>6, <2>1 DEF Recorded, Exists
  <2>2. CASE draft[id] = None
    <3>1. Recorded(Prompt(id))
        BY <1>1, <1>3, <2>2 DEF InsertOK
    <3>2. \A i \in Ids : rows[i] # None => rows'[i] # None
        BY <1>5
    <3>3. deleted \subseteq deleted'
        BY <1>1 DEF deleteVars
    <3> QED BY <1>6, <3>1, <3>2, <3>3, RecordedStays
  <2> QED BY <2>1, <2>2
<1>8. RecordsTyped'
  <2>1. acknowledged' \subseteq Prompts
    BY <1>2, <1>6, InvParts
  <2> QED BY <1>1, <1>2, <1>4, <1>5, <2>1 DEF AuditInv, RecordsTyped, Steps, deleteVars
<1>9. ClaimOK'
    BY <1>2, <1>5, ClaimPassed
<1>10. InsertOK(id)'
  <2>1. FilesOf(id)' = FilesOf(id)
    BY <1>1 DEF FilesOf
  <2> QED BY <1>2, <1>3, <1>4, <2>1 DEF InsertOK
<1> QED BY <1>1, <1>2, <1>4, <1>5, <1>6, <1>7, <1>8, <1>9, <1>10, InsertMoves DEF deleteVars

LEMMA FailCommitKept ==
    ASSUME AuditParameters, NoneIsNoRow, AuditInv, NEW id \in Ids, FailCommit(id)
    PROVE  AuditInv'
<1>1. /\ step[id] = "commit" /\ step' = [step EXCEPT ![id] = "undo"]
      /\ draft' = [draft EXCEPT ![id] = None] /\ Fail
      /\ UNCHANGED <<queueVars, acknowledged, deleteVars, files, logged,
                     retention, now, crashes>>
    BY DEF FailCommit
<1>2. step' \in [Ids -> Steps] /\ QueueOK' /\ WritersOK'
    BY <1>1, StepsOn DEF Running
<1>3. /\ draft \in [Ids -> Nat \cup {None}] /\ InsertOK(id) /\ step \in [Ids -> Steps]
      /\ rows \in [Ids -> [expires : Nat, status : Statuses] \cup {None}]
    BY InvParts DEF AuditInv
<1>4. draft'[id] = None /\ draft' \in [Ids -> Nat \cup {None}]
      /\ \A i \in Ids \ {id} : draft'[i] = draft[i]
    BY <1>1, <1>3
<1>5. /\ rows' \in [Ids -> [expires : Nat, status : Statuses] \cup {None}]
      /\ \A i \in Ids \ {id} : rows'[i] = rows[i]
      /\ rows[id] # None => rows'[id] # None
      /\ rows'[id] # None => Claims(id)
  <2>1. CASE rows' = rows
    BY <1>3, <2>1 DEF Claims
  <2>2. CASE draft[id] # None /\ rows' = [rows EXCEPT ![id] = Row(Prompt(id), draft[id])]
    BY <2>2, RowCommitted DEF Claims
  <2> QED BY <2>1, <2>2 DEF FailCommit
<1>6. RecordsTyped'
    BY <1>1, <1>2, <1>4, <1>5, FailTyped DEF AuditInv, RecordsTyped, Steps, queueVars, deleteVars
<1>7. ClaimOK'
    BY <1>1, <1>5, ClaimPassed
<1>8. InsertOK(id)'
  <2>1. FilesOf(id)' = FilesOf(id) /\ step'[id] = "undo"
    BY <1>1, <1>3 DEF FilesOf
  <2> QED BY <1>3, <1>4, <2>1 DEF InsertOK
<1> QED BY <1>1, <1>2, <1>3, <1>4, <1>5, <1>6, <1>7, <1>8, InsertMoves DEF deleteVars

----------------------------------------------------------------------------
(* The deletions.                                                           *)

LEMMA QueueFrame ==
    ASSUME AuditInv, UNCHANGED <<queueVars, step>>
    PROVE  QueueOK' /\ WritersOK'
<1>1. AtWork' = AtWork
    BY DEF AtWork
<1> QED BY <1>1, QueueStays DEF AuditInv, queueVars

\* A deletion moves on, and what it does to the rows is still to come.
LEMMA DeleterMoves ==
    ASSUME AuditInv, NEW d \in Deleters,
           NEW t \in [step : {"idle", "unlink", "delete"}, purge : BOOLEAN,
                      before : 0..MaxDay, chosen : SUBSET Ids],
           deleter' = [deleter EXCEPT ![d] = t],
           files' \subseteq files, failures' \in 0..MaxFailures, purges' \in 0..MaxPurges,
           unlinked' \subseteq Ids,
           UNCHANGED <<queueVars, insertVars, purgeBefore, erased, deleted, rows,
                       logged, retention, now, crashes>>
    PROVE  AuditInv'
<1>1. QueueOK' /\ WritersOK'
    BY QueueFrame DEF insertVars
<1>2. RecordsTyped'
    BY DEF AuditInv, RecordsTyped, queueVars, insertVars
<1> QED BY <1>1, <1>2, RowsStay DEF insertVars

LEMMA SelectKept ==
    ASSUME AuditInv, NEW d \in Deleters,
           NEW t \in [step : {"idle", "unlink", "delete"}, purge : BOOLEAN,
                      before : 0..MaxDay, chosen : SUBSET Ids],
           Select(d, t), purges' \in 0..MaxPurges
    PROVE  AuditInv'
<1> DEFINE chosen == {id \in Matching(t) : Images[Prompt(id)] > 0}
<1>1. /\ deleter' = [deleter EXCEPT ![d] = [t EXCEPT !.step = "unlink", !.chosen = chosen]]
      /\ UNCHANGED <<queueVars, insertVars, purgeBefore, erased, deleted, unlinked, rows,
                     files, logged, retention, now, failures, crashes>>
    BY DEF Select
<1>2. chosen \subseteq Ids
    BY DEF Matching
<1> HIDE DEF chosen
<1>3. [t EXCEPT !.step = "unlink", !.chosen = chosen]
        \in [step : {"idle", "unlink", "delete"}, purge : BOOLEAN,
             before : 0..MaxDay, chosen : SUBSET Ids]
    BY <1>2
<1>4. failures' \in 0..MaxFailures /\ unlinked' \subseteq Ids
    BY <1>1 DEF AuditInv, RecordsTyped
<1> QED BY <1>1, <1>3, <1>4, DeleterMoves

LEMMA CleanupKept ==
    ASSUME AuditInv, NEW d \in Deleters, Cleanup(d)
    PROVE  AuditInv'
<1>1. now \in 0..MaxDay /\ purges' \in 0..MaxPurges
    BY DEF Cleanup, AuditInv, RecordsTyped
<1>2. [Idle EXCEPT !.before = now]
        \in [step : {"idle", "unlink", "delete"}, purge : BOOLEAN,
             before : 0..MaxDay, chosen : SUBSET Ids]
    BY <1>1 DEF Idle
<1> QED BY <1>1, <1>2, SelectKept DEF Cleanup

LEMMA PurgeKept ==
    ASSUME AuditParameters, AuditInv, NEW d \in Deleters, NEW before \in 0..MaxDay,
           Purge(d, before)
    PROVE  AuditInv'
<1>1. /\ purges \in 0..MaxPurges /\ MaxPurges \in Nat
      /\ purges < MaxPurges /\ purges' = purges + 1
    BY DEF Purge, AuditInv, RecordsTyped, AuditParameters
<1>2. purges' \in 0..MaxPurges
    BY <1>1
<1>3. [Idle EXCEPT !.purge = TRUE, !.before = before]
        \in [step : {"idle", "unlink", "delete"}, purge : BOOLEAN,
             before : 0..MaxDay, chosen : SUBSET Ids]
    BY DEF Idle
<1> QED BY <1>2, <1>3, SelectKept DEF Purge

LEMMA UnlinkKept ==
    ASSUME AuditParameters, AuditInv, NEW d \in Deleters, Unlink(d)
    PROVE  AuditInv'
<1>1. PICK t \in {[deleter[d] EXCEPT !.step = "delete"], Idle} :
         deleter' = [deleter EXCEPT ![d] = t]
    BY DEF Unlink
<1>2. deleter[d] \in [step : {"idle", "unlink", "delete"}, purge : BOOLEAN,
                      before : 0..MaxDay, chosen : SUBSET Ids]
    BY DEF AuditInv, RecordsTyped
<1>3. Idle \in [step : {"idle", "unlink", "delete"}, purge : BOOLEAN,
                before : 0..MaxDay, chosen : SUBSET Ids]
    BY DEF Idle, AuditParameters
<1>4. t \in [step : {"idle", "unlink", "delete"}, purge : BOOLEAN,
             before : 0..MaxDay, chosen : SUBSET Ids]
    BY <1>1, <1>2, <1>3
<1>5. files' \subseteq files
    BY DEF Unlink
<1>6. failures' \in 0..MaxFailures
    BY FailTyped DEF Unlink, AuditInv, RecordsTyped
<1>7. /\ purges' \in 0..MaxPurges /\ unlinked' \subseteq Ids
      /\ UNCHANGED <<queueVars, insertVars, purgeBefore, erased, deleted, rows,
                     logged, retention, now, crashes>>
    BY <1>2 DEF Unlink, AuditInv, RecordsTyped
<1> QED BY <1>1, <1>4, <1>5, <1>6, <1>7, DeleterMoves

LEMMA FailDeleteKept ==
    ASSUME AuditParameters, AuditInv, NEW d \in Deleters, FailDelete(d)
    PROVE  AuditInv'
<1>1. Idle \in [step : {"idle", "unlink", "delete"}, purge : BOOLEAN,
                before : 0..MaxDay, chosen : SUBSET Ids]
    BY DEF Idle, AuditParameters
<1>2. failures' \in 0..MaxFailures /\ purges' \in 0..MaxPurges /\ unlinked' \subseteq Ids
    BY FailTyped DEF FailDelete, AuditInv, RecordsTyped
<1> QED BY <1>1, <1>2, DeleterMoves DEF FailDelete

\* The deleted rows are remembered as such, and the boundary moves past what
\* a purge has covered, never back.
LEMMA CommitDeleteKept ==
    ASSUME AuditParameters, AuditInv, NEW d \in Deleters, CommitDelete(d)
    PROVE  AuditInv'
<1> DEFINE t == deleter[d]
           M == Matching(t)
<1>1. /\ rows' = [id \in Ids |-> IF id \in M THEN None ELSE rows[id]]
      /\ deleted' = deleted \cup {Prompt(id) : id \in M} /\ unlinked' = unlinked \ M
      /\ purgeBefore' = Boundary(t)
      /\ erased' = IF t.purge THEN erased \cup {p \in Prompts : CapturedAt[p] < t.before}
                   ELSE erased
      /\ deleter' = [deleter EXCEPT ![d] = Idle]
      /\ UNCHANGED <<queueVars, insertVars, purges, files, logged, retention,
                     now, failures, crashes>>
    BY DEF CommitDelete
<1>2. /\ t.before \in 0..MaxDay /\ t.purge \in BOOLEAN /\ purgeBefore \in 0..MaxDay
      /\ erased \subseteq Prompts /\ deleted \subseteq Prompts
    BY DEF AuditInv, RecordsTyped
<1>3. M \subseteq Ids
    BY DEF Matching
<1> HIDE DEF M, t
<1>4. QueueOK' /\ WritersOK'
    BY <1>1, QueueFrame DEF insertVars
<1>5. purgeBefore' \in 0..MaxDay /\ purgeBefore' >= purgeBefore
      /\ (t.purge => purgeBefore' >= t.before)
    BY <1>1, <1>2 DEF Boundary, AuditParameters
<1>6. RecordsTyped'
  <2>1. rows' \in [Ids -> [expires : Nat, status : Statuses] \cup {None}]
    BY <1>1, InvParts
  <2>2. deleted' \subseteq Prompts /\ erased' \subseteq Prompts /\ unlinked' \subseteq Ids
    BY <1>1, <1>2, <1>3, PromptOfId DEF AuditInv, RecordsTyped
  <2>3. deleter' \in [Deleters -> [step : {"idle", "unlink", "delete"}, purge : BOOLEAN,
                                   before : 0..MaxDay, chosen : SUBSET Ids]]
    BY <1>1 DEF AuditInv, RecordsTyped, Idle, AuditParameters
  <2> QED BY <1>1, <1>5, <2>1, <2>2, <2>3 DEF AuditInv, RecordsTyped, queueVars, insertVars
<1>7. ASSUME NEW p \in Prompts, Recorded(p)
      PROVE  Recorded(p)'
  <2>1. CASE p \in deleted
    BY <1>1, <2>1 DEF Recorded
  <2>2. CASE Exists(p)
    <3>1. PICK k \in 1..MaxAttempts : rows[<<p, k>>] # None
        BY <2>2 DEF Exists
    <3>2. <<p, k>> \in Ids /\ Prompt(<<p, k>>) = p
        BY DEF Ids, Prompt
    <3>3. CASE <<p, k>> \in M
        BY <1>1, <3>2, <3>3 DEF Recorded
    <3>4. CASE <<p, k>> \notin M
      <4>1. rows'[<<p, k>>] # None
        BY <1>1, <3>1, <3>2, <3>4
      <4> QED BY <4>1 DEF Recorded, Exists
    <3> QED BY <3>3, <3>4
  <2> QED BY <1>7, <2>1, <2>2 DEF Recorded
<1>8. ASSUME NEW i \in Ids
      PROVE  InsertOK(i)'
  <2>1. FilesOf(i)' \subseteq FilesOf(i)
    BY <1>1 DEF FilesOf
  <2>2. Recorded(Prompt(i)) => Recorded(Prompt(i))'
    BY <1>7, PromptOfId
  <2>3. step'[i] = step[i] /\ draft'[i] = draft[i] /\ (rows[i] = None => rows'[i] = None)
    BY <1>1 DEF insertVars
  <2> QED BY <2>1, <2>2, <2>3, InsertStays DEF AuditInv
<1>9. ClaimOK'
  <2>1. \A i \in Ids : Claims(i)' => Claims(i)
    BY <1>1 DEF Claims, insertVars
  <2> QED BY <2>1, ClaimStays DEF AuditInv
<1>10. PurgeOK'
  <2>1. ASSUME NEW p \in erased'
        PROVE  CapturedAt[p] < purgeBefore'
    <3>1. p \in Prompts /\ CapturedAt[p] \in Nat
        BY <1>6 DEF RecordsTyped, AuditParameters
    <3>2. CASE p \in erased
      <4>1. CapturedAt[p] < purgeBefore
        BY <3>2 DEF AuditInv, PurgeOK
      <4> QED BY <1>2, <1>5, <3>1, <4>1
    <3>3. CASE p \notin erased
      <4>1. t.purge /\ CapturedAt[p] < t.before
        BY <1>1, <2>1, <3>3
      <4> QED BY <1>2, <1>5, <3>1, <4>1
    <3> QED BY <3>2, <3>3
  <2> QED BY <2>1 DEF PurgeOK
<1>11. AckOK'
    BY <1>1, <1>7, InvParts DEF AuditInv, AckOK, insertVars
<1> QED BY <1>4, <1>6, <1>8, <1>9, <1>10, <1>11 DEF AuditInv

----------------------------------------------------------------------------
(* Single statements on the rows, and the rest of the world.                *)

\* A statement writes the expiry or the status of rows that are there.
LEMMA RowsWritten ==
    ASSUME NoneIsNoRow, AuditInv, NEW ids \in SUBSET Ids,
           NEW f \in [ids -> [expires : Nat, status : Statuses]],
           \A id \in ids : rows[id] # None,
           rows' = [id \in Ids |-> IF id \in ids THEN f[id] ELSE rows[id]],
           retention' \in [days : Retentions, apply : BOOLEAN],
           UNCHANGED <<queueVars, insertVars, deleteVars, files, logged, now,
                       failures, crashes>>
    PROVE  AuditInv'
<1>1. rows' \in [Ids -> [expires : Nat, status : Statuses] \cup {None}]
    BY InvParts
<1>2. \A i \in Ids : rows'[i] = None <=> rows[i] = None
    BY DEF NoneIsNoRow
<1>3. QueueOK' /\ WritersOK'
    BY QueueFrame DEF insertVars
<1>4. RecordsTyped'
    BY <1>1 DEF AuditInv, RecordsTyped, queueVars, insertVars, deleteVars
<1> QED BY <1>2, <1>3, <1>4, RowsStay DEF insertVars, deleteVars

LEMMA DaysTyped ==
    ASSUME AuditParameters, AuditInv
    PROVE  \A status : Days(status) \in Nat
<1>1. retention.days \in Nat \X Nat
    BY DEF AuditInv, RecordsTyped, AuditParameters
<1> QED BY <1>1 DEF Days

LEMMA ApplyKept ==
    ASSUME AuditParameters, NoneIsNoRow, AuditInv, ApplyConfiguredRetention
    PROVE  AuditInv'
<1> DEFINE f == [id \in Outdated |-> [rows[id] EXCEPT !.expires = Expiry(id)]]
<1>1. Outdated \in SUBSET Ids /\ \A id \in Outdated : rows[id] # None
    BY DEF Outdated
<1>2. ASSUME NEW id \in Outdated
      PROVE  f[id] \in [expires : Nat, status : Statuses]
  <2>1. rows[id] \in [expires : Nat, status : Statuses]
    BY <1>1, InvParts
  <2>2. CapturedAt[Prompt(id)] \in Nat
    BY <1>1, PromptOfId DEF AuditParameters
  <2>3. Expiry(id) \in Nat
    BY <2>2, DaysTyped DEF Expiry
  <2> QED BY <2>1, <2>3
<1>3. f \in [Outdated -> [expires : Nat, status : Statuses]]
    BY <1>2
<1>4. rows' = [id \in Ids |-> IF id \in Outdated THEN f[id] ELSE rows[id]]
    BY DEF ApplyConfiguredRetention
<1>5. /\ retention' \in [days : Retentions, apply : BOOLEAN]
      /\ UNCHANGED <<queueVars, insertVars, deleteVars, files, logged, now,
                     failures, crashes>>
    BY DEF ApplyConfiguredRetention, AuditInv, RecordsTyped
<1> HIDE DEF f
<1> QED BY <1>1, <1>3, <1>4, <1>5, RowsWritten

LEMMA EnrichKept ==
    ASSUME AuditParameters, NoneIsNoRow, AuditInv, Enrich
    PROVE  AuditInv'
<1> DEFINE ids == {id \in Ids : Visible(id) /\ rows[id].status = "pending" /\ Prompt(id) \in logged}
           f == [id \in ids |-> [status |-> "flagged",
                                 expires |-> CapturedAt[Prompt(id)] + Days("flagged")]]
<1>1. ids \in SUBSET Ids /\ \A id \in ids : rows[id] # None
    BY DEF Visible
<1>2. /\ rows' = [id \in Ids |-> IF id \in ids THEN f[id] ELSE rows[id]]
      /\ UNCHANGED <<queueVars, insertVars, deleteVars, files, logged, retention,
                     now, failures, crashes>>
    BY DEF Enrich
<1> HIDE DEF ids
<1>3. ASSUME NEW id \in ids
      PROVE  f[id] \in [expires : Nat, status : Statuses]
  <2>1. CapturedAt[Prompt(id)] \in Nat /\ Days("flagged") \in Nat
    BY <1>1, PromptOfId, DaysTyped DEF AuditParameters
  <2> QED BY <2>1 DEF Statuses
<1>4. f \in [ids -> [expires : Nat, status : Statuses]]
    BY <1>3
<1>5. retention' \in [days : Retentions, apply : BOOLEAN]
    BY <1>2 DEF AuditInv, RecordsTyped
<1> HIDE DEF f
<1> QED BY <1>1, <1>2, <1>4, <1>5, RowsWritten

LEMMA OthersKept ==
    ASSUME AuditParameters, AuditInv,
           \/ \E p \in Prompts : Moderate(p)
           \/ \E days \in Retentions : ConfigureRetention(days)
           \/ Tick
    PROVE  AuditInv'
<1>1. /\ UNCHANGED <<queueVars, insertVars, deleteVars, rows, files, failures, crashes>>
      /\ logged' \subseteq Prompts /\ now' \in 0..MaxDay
      /\ retention' \in [days : Retentions, apply : BOOLEAN]
  <2>1. /\ logged \subseteq Prompts /\ now \in 0..MaxDay /\ MaxDay \in Nat
        /\ retention \in [days : Retentions, apply : BOOLEAN]
    BY DEF AuditInv, RecordsTyped, AuditParameters
  <2>2. CASE \E p \in Prompts : Moderate(p)
    BY <2>1, <2>2 DEF Moderate
  <2>3. CASE \E days \in Retentions : ConfigureRetention(days)
    BY <2>1, <2>3 DEF ConfigureRetention
  <2>4. CASE Tick
    BY <2>1, <2>4 DEF Tick
  <2> QED BY <2>2, <2>3, <2>4
<1>2. QueueOK' /\ WritersOK'
    BY <1>1, QueueFrame DEF insertVars
<1>3. RecordsTyped'
    BY <1>1 DEF AuditInv, RecordsTyped, queueVars, insertVars, deleteVars
<1> QED BY <1>1, <1>2, <1>3, RowsStay DEF insertVars, deleteVars

\* A crash rolls open transactions back and leaves their files.
LEMMA CrashKept ==
    ASSUME AuditParameters, AuditInv, Crash
    PROVE  AuditInv'
<1>1. /\ queue' = <<>> /\ activeWriters' = 0
      /\ step' = [id \in Ids |-> IF step[id] \in {"none", "done"} THEN step[id] ELSE "failed"]
      /\ draft' = [id \in Ids |-> None]
      /\ deleter' = [d \in Deleters |-> Idle]
      /\ retention' = [retention EXCEPT !.apply = TRUE]
      /\ UNCHANGED <<acknowledged, purgeBefore, erased, deleted, unlinked, purges, rows,
                     files, logged, now, failures>>
      /\ crashes' \in 0..MaxCrashes
  <2>1. /\ crashes \in 0..MaxCrashes /\ MaxCrashes \in Nat
        /\ crashes < MaxCrashes /\ crashes' = crashes + 1
    BY DEF Crash, AuditInv, RecordsTyped, AuditParameters
  <2> QED BY <2>1 DEF Crash
<1>2. queue' \in Seq(Mirrored) /\ Len(queue') = 0
    BY <1>1, EmptySeq
<1>3. AtWork' = {}
    BY <1>1 DEF AtWork, Running
<1>4. QueueOK' /\ WritersOK'
    BY <1>1, <1>2, <1>3, FS_EmptySet DEF QueueOK, WritersOK, WritersCounted, AuditParameters
<1>5. RecordsTyped'
  <2>1. step' \in [Ids -> Steps] /\ draft' \in [Ids -> Nat \cup {None}]
    BY <1>1 DEF Steps
  <2>2. deleter' \in [Deleters -> [step : {"idle", "unlink", "delete"}, purge : BOOLEAN,
                                   before : 0..MaxDay, chosen : SUBSET Ids]]
    BY <1>1 DEF Idle, AuditParameters
  <2>3. retention' \in [days : Retentions, apply : BOOLEAN]
    BY <1>1 DEF AuditInv, RecordsTyped
  <2>4. 0 \in 0..Writers
    BY DEF AuditParameters
  <2> QED BY <1>1, <1>2, <2>1, <2>2, <2>3, <2>4 DEF AuditInv, RecordsTyped, Steps
<1>6. ASSUME NEW i \in Ids
      PROVE  InsertOK(i)'
  <2>1. FilesOf(i)' = FilesOf(i) /\ rows'[i] = rows[i] /\ draft'[i] = None
    BY <1>1 DEF FilesOf
  <2>2. \/ step[i] = "none" /\ step'[i] = "none"
        \/ step'[i] \in {"done", "failed"}
    BY <1>1
  <2>3. InsertOK(i)
    BY DEF AuditInv
  <2> QED BY <2>1, <2>2, <2>3 DEF InsertOK
<1>7. ClaimOK'
  <2>1. \A i \in Ids : Claims(i)' => Claims(i)
    BY <1>1 DEF Claims
  <2> QED BY <2>1, ClaimStays DEF AuditInv
<1>8. PurgeOK' /\ AckOK'
    BY <1>1 DEF AuditInv, PurgeOK, AckOK, Recorded, Exists
<1> QED BY <1>4, <1>5, <1>6, <1>7, <1>8 DEF AuditInv

----------------------------------------------------------------------------
(* The steps together.                                                      *)

LEMMA InitAudit ==
    ASSUME AuditParameters, Init
    PROVE  AuditInv
<1>1. /\ queue = <<>> /\ activeWriters = 0
      /\ step = [id \in Ids |-> "none"] /\ draft = [id \in Ids |-> None]
      /\ rows = [id \in Ids |-> None] /\ files = {} /\ logged = {}
      /\ acknowledged = {} /\ erased = {} /\ deleted = {} /\ unlinked = {}
      /\ deleter = [d \in Deleters |-> Idle]
      /\ retention \in [days : Retentions, apply : {FALSE}]
      /\ purgeBefore = 0 /\ now = 0 /\ purges = 0 /\ failures = 0 /\ crashes = 0
    BY DEF Init
<1>2. queue \in Seq(Mirrored) /\ Len(queue) = 0
    BY <1>1, EmptySeq
<1>3. AtWork = {}
    BY <1>1 DEF AtWork, Running
<1>4. QueueOK /\ WritersOK
    BY <1>1, <1>2, <1>3, FS_EmptySet DEF QueueOK, WritersOK, WritersCounted, AuditParameters
<1>5. RecordsTyped
  <2>1. /\ step \in [Ids -> Steps] /\ draft \in [Ids -> Nat \cup {None}]
        /\ rows \in [Ids -> [expires : Nat, status : Statuses] \cup {None}]
    BY <1>1 DEF Steps
  <2>2. deleter \in [Deleters -> [step : {"idle", "unlink", "delete"}, purge : BOOLEAN,
                                  before : 0..MaxDay, chosen : SUBSET Ids]]
    BY <1>1 DEF Idle, AuditParameters
  <2>3. retention \in [days : Retentions, apply : BOOLEAN]
    BY <1>1
  <2>4. /\ activeWriters \in 0..Writers /\ purgeBefore \in 0..MaxDay /\ now \in 0..MaxDay
        /\ purges \in 0..MaxPurges /\ failures \in 0..MaxFailures /\ crashes \in 0..MaxCrashes
    BY <1>1 DEF AuditParameters
  <2> QED BY <1>1, <1>2, <2>1, <2>2, <2>3, <2>4 DEF RecordsTyped, Steps
<1>6. ASSUME NEW i \in Ids
      PROVE  InsertOK(i)
  <2>1. FilesOf(i) = {}
    BY <1>1 DEF FilesOf
  <2> QED BY <1>1, <2>1, FS_EmptySet DEF InsertOK
<1>7. ClaimOK /\ PurgeOK /\ AckOK
    BY <1>1 DEF ClaimOK, Claims, PurgeOK, AckOK
<1> QED BY <1>4, <1>5, <1>6, <1>7 DEF AuditInv

LEMMA StepAudit ==
    ASSUME AuditParameters, NoneIsNoRow, AuditInv, [Next]_vars
    PROVE  AuditInv'
<1>1. CASE UNCHANGED vars
  <2>1. QueueOK' /\ WritersOK'
    BY <1>1, QueueFrame DEF vars, insertVars
  <2>2. RecordsTyped'
    BY <1>1 DEF AuditInv, RecordsTyped, vars, queueVars, insertVars, deleteVars
  <2> QED BY <1>1, <2>1, <2>2, RowsStay DEF vars, insertVars, deleteVars
<1>2. CASE \E p \in Prompts : Enqueue(p) \/ Store(p) \/ Moderate(p)
    BY <1>2, EnqueueKept, StoreKept, OthersKept
<1>3. CASE \E id \in Ids : InsertStep(id)
  <2>1. PICK id \in Ids : InsertStep(id)
    BY <1>3
  <2> QED BY <2>1, InsertRowKept, FailInsertKept, WriteImageKept, FailImageKept,
             CommitKept, FailCommitKept, UndoKept DEF InsertStep
<1>4. CASE \E d \in Deleters : DeleteStep(d) \/ \E before \in 0..MaxDay : Purge(d, before)
  <2>1. PICK d \in Deleters : DeleteStep(d) \/ \E before \in 0..MaxDay : Purge(d, before)
    BY <1>4
  <2> QED BY <2>1, CleanupKept, UnlinkKept, CommitDeleteKept, FailDeleteKept, PurgeKept
          DEF DeleteStep
<1>5. CASE (\E days \in Retentions : ConfigureRetention(days)) \/ Tick
    BY <1>5, OthersKept
<1>6. CASE ApplyConfiguredRetention
    BY <1>6, ApplyKept
<1>7. CASE Enrich
    BY <1>7, EnrichKept
<1>8. CASE Crash
    BY <1>8, CrashKept
<1> QED BY <1>1, <1>2, <1>3, <1>4, <1>5, <1>6, <1>7, <1>8 DEF Next

LEMMA SpecAudit ==
    ASSUME AuditParameters, NoneIsNoRow
    PROVE  Spec => []AuditInv
BY InitAudit, StepAudit, PTL DEF Spec

----------------------------------------------------------------------------
(* The bytes of the queue.                                                  *)

ByteSet(q) == UNION {{i} \X (1..Bytes[q[i]]) : i \in DOMAIN q}

LEMMA PromptSize ==
    ASSUME AuditParameters, NEW p \in Mirrored, NEW i
    PROVE  /\ IsFiniteSet({i} \X (1..Bytes[p])) /\ Bytes[p] \in Nat
           /\ Cardinality({i} \X (1..Bytes[p])) = Bytes[p]
<1>1. PICK n \in Nat : n = Bytes[p]
    BY DEF AuditParameters
<1>2. IsFiniteSet({i}) /\ Cardinality({i}) = 1
    BY FS_Singleton
<1>3. /\ IsFiniteSet(1..n)
      /\ Cardinality(1..n) = IF 1 > n THEN 0 ELSE n - 1 + 1
  <2>1. 1 \in Int /\ n \in Int
    OBVIOUS
  <2> QED BY ONLY <2>1, FS_Interval
<1>4. Cardinality(1..n) = n
    BY <1>3
<1>5. IsFiniteSet({i} \X (1..n))
    BY <1>2, <1>3, FS_Product
<1>6. Cardinality({i} \X (1..n)) = 1 * n
    BY <1>2, <1>3, <1>4, FS_Product
<1> QED BY <1>1, <1>5, <1>6

LEMMA BytesFinite ==
    ASSUME AuditParameters, NEW q \in Seq(Mirrored)
    PROVE  IsFiniteSet(ByteSet(q)) /\ TotalBytes(q) \in Nat
<1> DEFINE D == DOMAIN q
           T == {{i} \X (1..Bytes[q[i]]) : i \in D}
           f == [i \in D |-> {i} \X (1..Bytes[q[i]])]
<1>1. IsFiniteSet(D)
  <2>1. D = 1..Len(q) /\ Len(q) \in Int /\ 1 \in Int
    BY LenProperties
  <2> HIDE DEF D
  <2> QED BY <2>1, FS_Interval
<1>2. \A i \in D : q[i] \in Mirrored
    BY ElementOfSeq
<1>3. f \in Surjection(D, T)
    BY DEF Surjection
<1>4. \A t \in T : IsFiniteSet(t)
    BY <1>2, PromptSize
<1> HIDE DEF T, f, D
<1>5. IsFiniteSet(T)
    BY <1>1, <1>3, FS_Surjection
<1>6. IsFiniteSet(UNION T)
    BY <1>4, <1>5, FS_UNION
<1> QED BY <1>6, FS_CardinalityType DEF TotalBytes, ByteSet, T, D

LEMMA BytesOfNone == TotalBytes(<<>>) = 0
<1>1. ByteSet(<<>>) = {}
    BY DEF ByteSet
<1> QED BY <1>1, FS_EmptySet DEF TotalBytes, ByteSet

\* A prompt that is appended adds its own bytes.
LEMMA BytesOfAppend ==
    ASSUME AuditParameters, NEW q \in Seq(Mirrored), NEW p \in Mirrored
    PROVE  TotalBytes(Append(q, p)) = TotalBytes(q) + Bytes[p]
<1> DEFINE n == Len(q) + 1
           r == Append(q, p)
           B == ByteSet(q)
           P == {n} \X (1..Bytes[p])
<1>1. /\ n \in Nat /\ Len(q) \in Nat /\ DOMAIN q = 1..Len(q) /\ DOMAIN r = 1..n
      /\ r[n] = p /\ \A i \in 1..Len(q) : r[i] = q[i]
    BY AppendProperties, LenProperties
<1>2. 1..n = (1..Len(q)) \cup {n} /\ n \notin 1..Len(q)
    BY <1>1
<1> HIDE DEF n, r
<1>3. ByteSet(r) = B \cup P
    BY <1>1, <1>2 DEF ByteSet
<1>4. B \cap P = {}
    BY <1>1, <1>2 DEF ByteSet
<1>5. /\ IsFiniteSet(B) /\ IsFiniteSet(P) /\ Cardinality(P) = Bytes[p]
      /\ Cardinality(B) \in Nat /\ Bytes[p] \in Nat
    BY BytesFinite, PromptSize, FS_CardinalityType
<1> HIDE DEF B, P
<1>6. Cardinality(B \cup P) = Cardinality(B) + Cardinality(P) - Cardinality(B \cap P)
    BY <1>5, FS_Union
<1>7. Cardinality(B \cap P) = 0
    BY <1>4, FS_EmptySet
<1>8. Cardinality(B \cup P) = Cardinality(B) + Bytes[p]
    BY <1>5, <1>6, <1>7
<1> QED BY <1>3, <1>8 DEF TotalBytes, ByteSet, B, r

LEMMA RestLength ==
    ASSUME NEW k \in Nat, NEW n \in 0..k
    PROVE  (IF n + 1 <= k THEN k - (n + 1) + 1 ELSE 0) = k - n
OBVIOUS

LEMMA RestPlace ==
    ASSUME NEW k \in Nat, NEW n \in 0..k, NEW i \in 1..k - n
    PROVE  i \in 1..k - (n + 1) + 1 /\ n + 1 + i - 1 = n + i /\ n + i \in 1..k
OBVIOUS

\* What stays when writers take the first prompts has no more bytes.
LEMMA BytesOfRest ==
    ASSUME AuditParameters, NEW q \in Seq(Mirrored), NEW n \in 0..Len(q)
    PROVE  /\ SubSeq(q, n + 1, Len(q)) \in Seq(Mirrored)
           /\ TotalBytes(SubSeq(q, n + 1, Len(q))) <= TotalBytes(q)
<1> DEFINE r == SubSeq(q, n + 1, Len(q))
<1>1. Len(q) \in Nat /\ n \in Nat /\ n <= Len(q) /\ DOMAIN q = 1..Len(q)
    BY LenProperties
<1>2. /\ r \in Seq(Mirrored) /\ Len(r) = Len(q) - n
      /\ \A i \in 1..Len(r) : n + i \in 1..Len(q) /\ r[i] = q[n + i]
  <2>1. /\ n + 1 \in Int /\ Len(q) \in Int
        /\ \A i \in n + 1..Len(q) : q[i] \in Mirrored
    BY <1>1, ElementOfSeq
  <2>2. /\ r \in Seq(Mirrored)
        /\ Len(r) = IF n + 1 <= Len(q) THEN Len(q) - (n + 1) + 1 ELSE 0
        /\ \A i \in 1..Len(q) - (n + 1) + 1 : r[i] = q[n + 1 + i - 1]
    BY <2>1, SubSeqProperties
  <2> HIDE DEF r
  <2>3. Len(r) = Len(q) - n
    <3>1. (IF n + 1 <= Len(q) THEN Len(q) - (n + 1) + 1 ELSE 0) = Len(q) - n
        BY ONLY RestLength, Len(q) \in Nat, n \in 0..Len(q)
    <3> QED BY <2>2, <3>1
  <2>4. ASSUME NEW i \in 1..Len(r)
        PROVE  n + i \in 1..Len(q) /\ r[i] = q[n + i]
    <3>1. i \in 1..Len(q) - n
        BY <2>3
    <3>2. /\ i \in 1..Len(q) - (n + 1) + 1
          /\ n + 1 + i - 1 = n + i /\ n + i \in 1..Len(q)
        BY ONLY RestPlace, Len(q) \in Nat, n \in 0..Len(q), <3>1
    <3>3. r[i] = q[n + 1 + i - 1]
        BY <2>2, <3>2
    <3> QED BY <3>2, <3>3
  <2> QED BY <2>2, <2>3, <2>4
<1>3. DOMAIN r = 1..Len(r) /\ Len(r) \in Nat
    BY <1>2, LenProperties
<1> HIDE DEF r
<1>4. ASSUME NEW b \in ByteSet(r)
      PROVE  /\ b[1] \in Int /\ b = <<b[1], b[2]>>
             /\ <<b[1] + n, b[2]>> \in ByteSet(q)
  <2>1. PICK i \in 1..Len(r) : b \in {i} \X (1..Bytes[r[i]])
    BY <1>3 DEF ByteSet
  <2>2. b[1] = i /\ b = <<i, b[2]>> /\ b[2] \in 1..Bytes[r[i]]
    BY <2>1
  <2>3. i + n \in DOMAIN q /\ q[i + n] = r[i] /\ i \in Int
    BY <1>1, <1>2, <1>3
  <2>4. <<i + n, b[2]>> \in {i + n} \X (1..Bytes[q[i + n]])
    BY <2>2, <2>3
  <2> QED BY <2>2, <2>3, <2>4 DEF ByteSet
<1>5. ASSUME NEW a \in ByteSet(r), NEW b \in ByteSet(r),
             <<a[1] + n, a[2]>> = <<b[1] + n, b[2]>>
      PROVE  a = b
  <2>1. PICK i \in Int : i = a[1]
    BY <1>4
  <2>2. PICK j \in Int : j = b[1]
    BY <1>4
  <2>3. i + n = j + n /\ a[2] = b[2]
    BY <1>5, <2>1, <2>2
  <2>4. i = j
    BY <1>1, <2>3
  <2> QED BY <1>4, <2>1, <2>2, <2>3, <2>4
<1> DEFINE f == [b \in ByteSet(r) |-> <<b[1] + n, b[2]>>]
<1>6. f \in Injection(ByteSet(r), ByteSet(q))
  <2>1. f \in [ByteSet(r) -> ByteSet(q)]
    BY <1>4
  <2>2. \A a, b \in ByteSet(r) : f[a] = f[b] => a = b
    BY <1>5
  <2> QED BY <2>1, <2>2 DEF Injection, IsInjective
<1>7. IsFiniteSet(ByteSet(q))
    BY BytesFinite
<1> HIDE DEF f
<1>8. Cardinality(ByteSet(r)) <= Cardinality(ByteSet(q))
    BY <1>6, <1>7, FS_Injection
<1> QED BY <1>2, <1>8 DEF TotalBytes, ByteSet, r

LEMMA BytesStay ==
    ASSUME BytesCounted, UNCHANGED queueVars
    PROVE  BytesCounted'
BY DEF BytesCounted, queueVars

LEMMA BytesDrained ==
    ASSUME AuditParameters, NEW q \in Seq(Mirrored), NEW active \in 0..Writers,
           Drain(q, active), queuedBytes' = BytesLeft(q, active),
           TotalBytes(q) <= MaxQueueBytes
    PROVE  BytesCounted'
<1> DEFINE n == Taken(q, active)
           r == SubSeq(q, n + 1, Len(q))
<1>1. n \in 0..Len(q)
    BY TakenBounds
<1>2. queue' = r /\ queuedBytes' = TotalBytes(r)
    BY DEF Drain, BytesLeft
<1> HIDE DEF n
<1>3. r \in Seq(Mirrored) /\ TotalBytes(r) <= TotalBytes(q)
    BY <1>1, BytesOfRest
<1> HIDE DEF r
<1>4. TotalBytes(r) \in Nat /\ TotalBytes(q) \in Nat /\ MaxQueueBytes \in Nat
    BY <1>3, BytesFinite DEF AuditParameters
<1>5. TotalBytes(queue)' = TotalBytes(r)
    BY <1>2 DEF TotalBytes
<1> QED BY <1>2, <1>3, <1>4, <1>5 DEF BytesCounted

LEMMA BytesByEnd ==
    ASSUME AuditParameters, AuditInv, BytesCounted, NEW id \in Ids, step[id] \in Running,
           NEW result, End(id, result)
    PROVE  BytesCounted'
<1>1. CASE Prompt(id) \notin Mirrored
    BY <1>1, BytesStay DEF End
<1>2. CASE Prompt(id) \in Mirrored
  <2>1. /\ Drain(queue, activeWriters - 1)
        /\ queuedBytes' = BytesLeft(queue, activeWriters - 1)
    BY <1>2 DEF End
  <2>2. activeWriters - 1 \in 0..Writers
    <3>1. id \in AtWork
        BY <1>2 DEF AtWork
    <3>2. IsFiniteSet(AtWork) /\ activeWriters = Cardinality(AtWork)
        BY DEF AuditInv, WritersOK, WritersCounted
    <3>3. activeWriters # 0
        BY <3>1, <3>2, FS_EmptySet
    <3> QED BY <3>3, InvParts DEF AuditParameters
  <2>3. queue \in Seq(Mirrored) /\ TotalBytes(queue) <= MaxQueueBytes
    BY InvParts DEF BytesCounted
  <2> QED BY <2>1, <2>2, <2>3, BytesDrained
<1> QED BY <1>1, <1>2

LEMMA BytesByEnqueue ==
    ASSUME AuditParameters, AuditInv, BytesCounted, NEW p \in Prompts, Enqueue(p)
    PROVE  BytesCounted'
<1> DEFINE q == Append(queue, p)
<1>1. /\ p \in Mirrored /\ queuedBytes + Bytes[p] <= MaxQueueBytes
      /\ Drain(q, activeWriters) /\ queuedBytes' = BytesLeft(q, activeWriters)
    BY DEF Enqueue
<1>2. queue \in Seq(Mirrored) /\ activeWriters \in 0..Writers
    BY InvParts
<1>3. q \in Seq(Mirrored)
    BY <1>1, <1>2, AppendProperties
<1>4. TotalBytes(q) = TotalBytes(queue) + Bytes[p]
    BY <1>1, <1>2, BytesOfAppend
<1> HIDE DEF q
<1>5. TotalBytes(q) <= MaxQueueBytes
    BY <1>1, <1>4 DEF BytesCounted
<1> QED BY <1>1, <1>2, <1>3, <1>5, BytesDrained

LEMMA StepBytes ==
    ASSUME AuditParameters, AuditInv, BytesCounted, [Next]_vars
    PROVE  BytesCounted'
<1>1. CASE \/ UNCHANGED vars
           \/ \E p \in Prompts : Store(p) \/ Moderate(p)
           \/ \E days \in Retentions : ConfigureRetention(days)
           \/ ApplyConfiguredRetention \/ Enrich \/ Tick
    BY <1>1, BytesStay DEF vars, Store, Moderate, ConfigureRetention,
       ApplyConfiguredRetention, Enrich, Tick
<1>2. ASSUME NEW p \in Prompts, Enqueue(p)
      PROVE  BytesCounted'
    BY <1>2, BytesByEnqueue
<1>3. ASSUME NEW id \in Ids, InsertStep(id)
      PROVE  BytesCounted'
  <2>1. \/ UNCHANGED queueVars
        \/ step[id] \in Running /\ \E result : End(id, result)
    BY <1>3 DEF InsertStep, InsertRow, FailInsert, WriteImage, FailImage, Commit,
       FailCommit, Undo, Running
  <2> QED BY <2>1, BytesByEnd, BytesStay
<1>4. ASSUME NEW d \in Deleters, DeleteStep(d) \/ \E before \in 0..MaxDay : Purge(d, before)
      PROVE  BytesCounted'
  <2>1. UNCHANGED queueVars
    BY <1>4, Zenon DEF DeleteStep, Cleanup, Select, Unlink, CommitDelete, FailDelete, Purge
  <2> QED BY <2>1, BytesStay
<1>5. CASE Crash
  <2>1. queue' = <<>> /\ queuedBytes' = 0
    BY <1>5 DEF Crash
  <2>2. TotalBytes(queue)' = 0
    BY <2>1, BytesOfNone DEF TotalBytes
  <2> QED BY <2>1, <2>2 DEF BytesCounted, AuditParameters
<1> QED BY <1>1, <1>2, <1>3, <1>4, <1>5 DEF Next

LEMMA SpecBytes ==
    ASSUME AuditParameters, NoneIsNoRow
    PROVE  Spec => []BytesCounted
<1>1. Init => BytesCounted
    BY BytesOfNone DEF Init, BytesCounted, AuditParameters
<1>2. AuditInv /\ BytesCounted /\ [Next]_vars => BytesCounted'
    BY StepBytes
<1> QED BY <1>1, <1>2, SpecAudit, PTL DEF Spec

----------------------------------------------------------------------------
(* The theorems.                                                            *)

\* Type correctness of the queue, the records and all that works on them.
THEOREM AuditTyped ==
    ASSUME AuditParameters, NoneIsNoRow
    PROVE  Spec => []TypeOK
<1>1. ASSUME AuditParameters, AuditInv, BytesCounted
      PROVE  TypeOK
    BY <1>1, InvParts, BytesFinite DEF AuditInv, BytesCounted, TypeOK
<1> QED BY <1>1, SpecAudit, SpecBytes, PTL

\* The 201 that lets the outbox remove a message means a committed row
\* (service.ts, repository.ts): this request's or that of an earlier one, which
\* only a deletion takes away, whatever fails and crashes on the way.
THEOREM AcknowledgedRecorded ==
    ASSUME AuditParameters, NoneIsNoRow
    PROVE  Spec => []AcknowledgedIsRecorded
<1>1. AuditInv => AcknowledgedIsRecorded
    BY DEF AuditInv, AckOK, Recorded, AcknowledgedIsRecorded
<1> QED BY <1>1, SpecAudit, PTL

\* A prompt has one row at most, however often it is sent and however late an
\* earlier request goes on (the unique request id of repository.ts).
THEOREM RecordedAtMostOnce ==
    ASSUME AuditParameters, NoneIsNoRow
    PROVE  Spec => []RecordedOnce
<1>1. AuditInv => RecordedOnce
    BY DEF AuditInv, ClaimOK, Claims, RecordedOnce
<1> QED BY <1>1, SpecAudit, PTL

\* What a purge covered is never listed again (docs 006), also when it is
\* recorded later or purges overtake each other.
THEOREM PurgedHidden ==
    ASSUME AuditParameters, NoneIsNoRow
    PROVE  Spec => []PurgedStaysHidden
<1>1. AuditInv => PurgedStaysHidden
  <2> SUFFICES ASSUME AuditInv, NEW id \in Ids, Visible(id), Prompt(id) \in erased
               PROVE  FALSE
    BY DEF PurgedStaysHidden
  <2>1. CapturedAt[Prompt(id)] \in Nat /\ purgeBefore \in Nat
    BY PromptOfId DEF AuditInv, RecordsTyped, AuditParameters
  <2>2. CapturedAt[Prompt(id)] < purgeBefore
    BY DEF AuditInv, PurgeOK
  <2> QED BY <2>1, <2>2 DEF Visible
<1> QED BY <1>1, SpecAudit, PTL

\* The bytes that are counted are those of the prompts that wait, within the
\* limit; the writers that are counted are the inserts of mirrored prompts that
\* are under way, none is idle while a prompt waits, and the queue keeps to its
\* size (service.ts:45-73): a failed insert gives its writer back, once.
THEOREM QueueIsCounted ==
    ASSUME AuditParameters, NoneIsNoRow
    PROVE  Spec => []QueueCounted
<1>1. AuditInv /\ BytesCounted => QueueCounted
    BY DEF AuditInv, WritersOK, QueueCounted
<1> QED BY <1>1, SpecAudit, SpecBytes, PTL

----------------------------------------------------------------------------
(* The images.                                                              *)

Complete(id) == Cardinality(FilesOf(id)) = Images[Prompt(id)]

\* The images of an insert are numbered in the order of their writing, all are
\* there when it commits, and only a deletion that has locked the row takes
\* them.
FilesOK(id) ==
    /\ step[id] = "files" =>
          /\ Cardinality(FilesOf(id)) < Images[Prompt(id)]
          /\ \A f \in FilesOf(id) : f[2] \in 1..Cardinality(FilesOf(id))
    /\ step[id] = "commit" /\ draft[id] # None => Complete(id)
    /\ rows[id] # None /\ step[id] = "done" => Complete(id) \/ id \in unlinked
    /\ id \in unlinked => rows[id] # None

\* The rows that a deletion has locked are still those that it will delete.
DeleterOK(d) ==
    /\ deleter[d].chosen \subseteq Matching(deleter[d])
    /\ deleter[d].step = "idle" => deleter[d].chosen = {}

ImagesInv ==
    /\ \A id \in Ids : FilesOK(id)
    /\ \A d \in Deleters : DeleterOK(d)

LEMMA NoFail ==
    ASSUME AuditInv, MaxFailures = 0
    PROVE  ~Fail
BY DEF AuditInv, RecordsTyped, Fail

LEMMA ChosenMatch ==
    ASSUME ImagesInv, NEW id \in Chosen(Deleters)
    PROVE  id \in Ids /\ rows[id] # None
<1>1. PICK d \in Deleters : id \in deleter[d].chosen
    BY DEF Chosen
<1> QED BY <1>1 DEF ImagesInv, DeleterOK, Matching, Meets

LEMMA ImagesStay ==
    ASSUME NEW i \in Ids, FilesOK(i),
           step'[i] = step[i] \/ (step[i] = "none" /\ step'[i] = "begin"),
           draft'[i] = draft[i], FilesOf(i)' = FilesOf(i),
           rows'[i] # None => rows[i] # None /\ (i \in unlinked => i \in unlinked'),
           i \in unlinked' => rows'[i] # None
    PROVE  FilesOK(i)'
BY DEF FilesOK, Complete

LEMMA DeletersStay ==
    ASSUME ImagesInv, UNCHANGED deleter,
           \A id \in Chosen(Deleters) : rows'[id] = rows[id]
    PROVE  \A d \in Deleters : DeleterOK(d)'
<1> SUFFICES ASSUME NEW d \in Deleters
             PROVE  DeleterOK(d)'
    OBVIOUS
<1>1. DeleterOK(d)
    BY DEF ImagesInv
<1>2. ASSUME NEW id \in deleter[d].chosen
      PROVE  id \in Ids /\ Meets(id, deleter[d]) /\ rows'[id] = rows[id]
  <2>1. id \in Matching(deleter[d]) /\ id \in Chosen(Deleters)
    BY <1>1 DEF DeleterOK, Chosen
  <2> QED BY <2>1 DEF Matching
<1>3. deleter'[d] = deleter[d]
    OBVIOUS
<1> QED BY <1>1, <1>2, <1>3 DEF DeleterOK, Matching, Meets

\* One insert moves, or a few begin, and the deletions do not.
LEMMA InsertMovesFiles ==
    ASSUME ImagesInv, NEW id \in Ids, FilesOK(id)',
           \A i \in Ids \ {id} :
               /\ step'[i] = step[i] \/ (step[i] = "none" /\ step'[i] = "begin")
               /\ draft'[i] = draft[i] /\ rows'[i] = rows[i],
           rows[id] # None => rows'[id] = rows[id],
           \A f \in files' : f \in files \/ f[1] = id,
           \A f \in files : f \in files' \/ f[1] = id,
           UNCHANGED <<deleter, unlinked>>
    PROVE  ImagesInv'
<1>2. ASSUME NEW i \in Ids \ {id}
      PROVE  FilesOK(i)'
  <2>1. FilesOf(i)' = FilesOf(i)
    BY DEF FilesOf
  <2>2. FilesOK(i)
    BY DEF ImagesInv
  <2>3. i \in unlinked' => rows'[i] # None
    BY <2>2 DEF FilesOK
  <2> QED BY <2>1, <2>2, <2>3, ImagesStay
<1>3. \A i \in Chosen(Deleters) : rows'[i] = rows[i]
    BY ChosenMatch
<1> QED BY <1>2, <1>3, DeletersStay DEF ImagesInv

\* Rows keep what the deletions chose, inserts may begin.
LEMMA RowsKeepFiles ==
    ASSUME ImagesInv, UNCHANGED <<draft, files, deleter, unlinked>>,
           \A i \in Ids : step'[i] = step[i] \/ (step[i] = "none" /\ step'[i] = "begin"),
           \A i \in Ids : rows'[i] = None <=> rows[i] = None,
           \A i \in Chosen(Deleters) : rows'[i] = rows[i]
    PROVE  ImagesInv'
<1>2. ASSUME NEW i \in Ids
      PROVE  FilesOK(i)'
  <2>1. FilesOf(i)' = FilesOf(i)
    BY DEF FilesOf
  <2>2. FilesOK(i)
    BY DEF ImagesInv
  <2>3. i \in unlinked' => rows'[i] # None
    BY <2>2 DEF FilesOK
  <2> QED BY <2>1, <2>2, <2>3, ImagesStay
<1> QED BY <1>2, DeletersStay DEF ImagesInv

LEMMA EnqueueImages ==
    ASSUME AuditParameters, AuditInv, ImagesInv, NEW p \in Prompts, Enqueue(p) \/ Store(p)
    PROVE  ImagesInv'
<1>1. UNCHANGED <<draft, rows, files, deleter, unlinked>>
    BY DEF Enqueue, Store, deleteVars
<1>2. \A i \in Ids : step'[i] = step[i] \/ (step[i] = "none" /\ step'[i] = "begin")
  <2>1. CASE Enqueue(p)
    <3> DEFINE q == Append(queue, p)
               S == Started(q, activeWriters)
    <3>1. /\ p \in Mirrored /\ \A k \in 1..MaxAttempts : step[<<p, k>>] = "none"
          /\ step' = [id \in Ids |-> IF id \in S THEN "begin" ELSE step[id]]
        BY <2>1 DEF Enqueue, New
    <3>2. /\ queue \in Seq(Mirrored) /\ Len(queue) \in Nat /\ activeWriters \in 0..Writers
        BY InvParts
    <3>3. /\ q \in Seq(Mirrored) /\ Len(q) = Len(queue) + 1
          /\ \A i \in 1..Len(queue) : q[i] = queue[i]
          /\ q[Len(queue) + 1] = p
        BY <3>1, <3>2, AppendProperties
    <3> HIDE DEF q
    <3>4. Taken(q, activeWriters) \in 0..Len(q) /\ 1 \in 1..MaxAttempts
      <4>1. Taken(q, activeWriters) \in 0..Len(q)
        BY <3>2, <3>3, TakenBounds
      <4> QED BY <4>1 DEF AuditParameters
    <3>5. ASSUME NEW i \in S
          PROVE  step[i] = "none"
      <4>1. PICK k \in 1..Taken(q, activeWriters) : i = <<q[k], 1>>
        BY DEF Started
      <4>2. k \in 1..Len(queue) \/ k = Len(queue) + 1
        BY <3>2, <3>3, <3>4, <4>1
      <4> QED BY <3>1, <3>3, <3>4, <4>1, <4>2 DEF AuditInv, QueueOK
    <3> QED BY <3>1, <3>5
  <2>2. CASE Store(p)
    <3>1. PICK k \in 1..MaxAttempts : /\ step[<<p, k>>] = "none"
                                      /\ step' = [step EXCEPT ![<<p, k>>] = "begin"]
        BY <2>2 DEF Store
    <3> QED BY <3>1, InvParts
  <2> QED BY <2>1, <2>2
<1> QED BY <1>1, <1>2, RowsKeepFiles

LEMMA InsertRowImages ==
    ASSUME AuditParameters, NoneIsNoRow, AuditInv, ImagesInv, NEW id \in Ids, InsertRow(id)
    PROVE  ImagesInv'
<1>1. /\ step[id] = "begin" /\ UNCHANGED <<rows, files, deleter, unlinked>>
    BY DEF InsertRow, deleteVars
<1>2. /\ step \in [Ids -> Steps] /\ draft \in [Ids -> Nat \cup {None}]
      /\ FilesOf(id) = {} /\ draft[id] = None /\ rows[id] = None
    BY <1>1, InvParts DEF AuditInv, InsertOK
<1>7. id \notin unlinked
    BY <1>2 DEF ImagesInv, FilesOK
<1>3. FilesOf(id)' = {} /\ Cardinality(FilesOf(id)') = 0
    BY <1>1, <1>2, FS_EmptySet DEF FilesOf
<1>4. Images[Prompt(id)] \in Nat
    BY PromptOfId DEF AuditParameters
<1>5. CASE step' = [step EXCEPT ![id] = "commit"] /\ UNCHANGED draft
  <2>1. FilesOK(id)'
    BY <1>1, <1>2, <1>5, <1>7 DEF FilesOK
  <2> QED BY <1>1, <1>2, <1>5, <2>1, InsertMovesFiles
<1>6. CASE /\ draft' = [draft EXCEPT ![id] = CapturedAt[Prompt(id)] + retention.days[1]]
           /\ step' = [step EXCEPT ![id] = IF Images[Prompt(id)] = 0 THEN "commit" ELSE "files"]
  <2>1. step'[id] = IF Images[Prompt(id)] = 0 THEN "commit" ELSE "files"
    BY <1>2, <1>6
  <2>2. step'[id] = "commit" => Complete(id)'
    BY <1>3, <2>1 DEF Complete
  <2>3. step'[id] = "files" => Cardinality(FilesOf(id)') < Images[Prompt(id)]
    BY <1>3, <1>4, <2>1
  <2>4. FilesOK(id)'
    BY <1>1, <1>2, <1>3, <1>7, <2>1, <2>2, <2>3 DEF FilesOK
  <2> QED BY <1>1, <1>2, <1>6, <2>4, InsertMovesFiles
<1> QED BY <1>5, <1>6 DEF InsertRow

LEMMA WriteImageImages ==
    ASSUME AuditParameters, AuditInv, ImagesInv, NEW id \in Ids, WriteImage(id)
    PROVE  ImagesInv'
<1> DEFINE F == FilesOf(id)
           n == Cardinality(F) + 1
<1>1. /\ step[id] = "files" /\ files' = files \cup {<<id, n>>}
      /\ step' = IF n = Images[Prompt(id)] THEN [step EXCEPT ![id] = "commit"] ELSE step
      /\ UNCHANGED <<draft, rows, deleter, unlinked>>
    BY DEF WriteImage, deleteVars
<1>2. /\ step \in [Ids -> Steps] /\ IsFiniteSet(F) /\ rows[id] = None /\ id \notin unlinked
      /\ Cardinality(F) < Images[Prompt(id)]
      /\ \A f \in F : f[2] \in 1..Cardinality(F)
    BY <1>1, InvParts DEF AuditInv, InsertOK, ImagesInv, FilesOK
<1>3. Cardinality(F) \in Nat
    BY <1>2, FS_CardinalityType
<1>4. FilesOf(id)' = F \cup {<<id, n>>}
    BY <1>1 DEF FilesOf
<1>5. Images[Prompt(id)] \in Nat
    BY PromptOfId DEF AuditParameters
<1> HIDE DEF F
<1>6. <<id, n>> \notin F
  <2>1. n \notin 1..Cardinality(F)
    BY <1>3
  <2> QED BY <1>2, <2>1
<1>7. Cardinality(FilesOf(id)') = n
    BY <1>2, <1>4, <1>6, FS_AddElement
<1>8. \A f \in FilesOf(id)' : f[2] \in 1..n
    BY <1>2, <1>3, <1>4
<1>9. step'[id] = IF n = Images[Prompt(id)] THEN "commit" ELSE "files"
    BY <1>1, <1>2
<1>10. n # Images[Prompt(id)] => n < Images[Prompt(id)]
    BY <1>2, <1>3, <1>5
<1> HIDE DEF n
<1>11. FilesOK(id)'
    BY <1>1, <1>2, <1>7, <1>8, <1>9, <1>10 DEF FilesOK, Complete
<1>12. /\ \A f \in files' : f \in files \/ f[1] = id
       /\ \A f \in files : f \in files'
    BY <1>1
<1> QED BY <1>1, <1>2, <1>11, <1>12, InsertMovesFiles

LEMMA CommitImages ==
    ASSUME AuditParameters, NoneIsNoRow, AuditInv, ImagesInv, NEW id \in Ids, Commit(id)
    PROVE  ImagesInv'
<1>1. /\ step[id] = "commit" /\ End(id, "done")
      /\ rows' = IF draft[id] = None THEN rows
                 ELSE [rows EXCEPT ![id] = Row(Prompt(id), draft[id])]
      /\ UNCHANGED <<files, deleter, unlinked>>
    BY DEF Commit, deleteVars
<1>2. /\ step'[id] = "done"
      /\ \A i \in Ids : i # id => \/ step'[i] = step[i]
                                  \/ step[i] = "none" /\ step'[i] = "begin"
      /\ draft' = [draft EXCEPT ![id] = None]
    BY <1>1, EndFrame DEF Running
<1>3. \A i \in Ids \ {id} : draft'[i] = draft[i] /\ rows'[i] = rows[i]
    BY <1>1, <1>2, InvParts
<1>4. rows[id] = None /\ id \notin unlinked
    BY <1>1 DEF AuditInv, InsertOK, ImagesInv, FilesOK
<1>5. FilesOK(id)'
  <2>1. FilesOf(id)' = FilesOf(id)
    BY <1>1 DEF FilesOf
  <2>2. rows'[id] # None => draft[id] # None
    BY <1>1, <1>4
  <2>3. draft[id] # None => Complete(id)
    BY <1>1 DEF ImagesInv, FilesOK
  <2> QED BY <1>1, <1>2, <1>4, <2>1, <2>2, <2>3 DEF FilesOK, Complete
<1> QED BY <1>1, <1>2, <1>3, <1>4, <1>5, InsertMovesFiles

\* A deletion locks what it chooses, and locked rows stay as they are.
LEMMA SelectImages ==
    ASSUME AuditInv, ImagesInv, NEW d \in Deleters, NEW t, t = [Idle EXCEPT !.before = t.before,
                                                                    !.purge = t.purge],
           Select(d, t)
    PROVE  ImagesInv'
<1> DEFINE chosen == {id \in Matching(t) : Images[Prompt(id)] > 0}
           s == [t EXCEPT !.step = "unlink", !.chosen = chosen]
<1>1. /\ deleter[d].step = "idle"
      /\ deleter' = [deleter EXCEPT ![d] = s]
      /\ UNCHANGED <<draft, step, rows, files, unlinked>>
    BY DEF Select, insertVars
<1>2. chosen \subseteq Matching(t)
    OBVIOUS
<1> HIDE DEF chosen
<1>3. s.purge = t.purge /\ s.before = t.before /\ s.chosen = chosen /\ s.step = "unlink"
    BY DEF Idle
<1> HIDE DEF s
<1>4. deleter \in [Deleters -> [step : {"idle", "unlink", "delete"}, purge : BOOLEAN,
                                before : 0..MaxDay, chosen : SUBSET Ids]]
    BY DEF AuditInv, RecordsTyped
<1>5. deleter'[d] = s /\ \A e \in Deleters \ {d} : deleter'[e] = deleter[e]
    BY <1>1, <1>4
<1>7. ASSUME NEW i \in Ids
      PROVE  FilesOK(i)'
  <2>1. FilesOf(i)' = FilesOf(i)
    BY <1>1 DEF FilesOf
  <2>2. FilesOK(i)
    BY DEF ImagesInv
  <2>3. i \in unlinked' => rows'[i] # None
    BY <1>1, <2>2 DEF FilesOK
  <2> QED BY <1>1, <2>1, <2>2, <2>3, ImagesStay
<1>8. ASSUME NEW e \in Deleters
      PROVE  DeleterOK(e)'
  <2>1. CASE e = d
    <3>1. ASSUME NEW id \in chosen
          PROVE  id \in Ids /\ Meets(id, t) /\ rows'[id] = rows[id]
        BY <1>1, <1>2 DEF Matching
    <3>2. rows' = rows
        BY <1>1
    <3> QED BY <1>3, <1>5, <2>1, <3>1, <3>2 DEF DeleterOK, Matching, Meets
  <2>2. CASE e # d
    <3>1. Matching(deleter[e])' = Matching(deleter[e])
        BY <1>1, <1>5, <2>2 DEF Matching, Meets
    <3> QED BY <1>5, <2>2, <3>1 DEF ImagesInv, DeleterOK
  <2> QED BY <2>1, <2>2
<1> QED BY <1>7, <1>8 DEF ImagesInv

LEMMA UnlinkImages ==
    ASSUME AuditParameters, AuditInv, ImagesInv, NEW d \in Deleters, Unlink(d)
    PROVE  ImagesInv'
<1> DEFINE chosen == deleter[d].chosen
<1>1. /\ \A f \in files : f \in files' \/ f[1] \in chosen
      /\ files' \subseteq files /\ unlinked' = unlinked \cup chosen
      /\ UNCHANGED <<draft, step, rows>>
    BY DEF Unlink, FilesOfRows, insertVars
<1>2. PICK t \in {[deleter[d] EXCEPT !.step = "delete"], Idle} :
         deleter' = [deleter EXCEPT ![d] = t]
    BY DEF Unlink
<1>3. deleter \in [Deleters -> [step : {"idle", "unlink", "delete"}, purge : BOOLEAN,
                                before : 0..MaxDay, chosen : SUBSET Ids]]
    BY DEF AuditInv, RecordsTyped
<1>4. deleter'[d] = t /\ \A e \in Deleters \ {d} : deleter'[e] = deleter[e]
    BY <1>2, <1>3
<1>5. \/ t = Idle
      \/ /\ t.chosen = chosen /\ t.step = "delete"
         /\ t.purge = deleter[d].purge /\ t.before = deleter[d].before
    BY <1>2, <1>3
<1>6. ASSUME NEW i \in Ids
      PROVE  FilesOK(i)'
  <2>1. FilesOK(i)
    BY DEF ImagesInv
  <2>2. CASE i \in chosen
    <3>1. rows[i] # None
        BY <2>2, ChosenMatch DEF Chosen
    <3>2. step[i] \notin {"files", "commit"}
        BY <3>1 DEF AuditInv, InsertOK
    <3> QED BY <1>1, <2>2, <3>1, <3>2 DEF FilesOK
  <2>3. CASE i \notin chosen
    <3>1. FilesOf(i)' = FilesOf(i)
        BY <1>1, <2>3 DEF FilesOf
    <3>2. i \in unlinked' => rows'[i] # None
        BY <1>1, <2>1, <2>3 DEF FilesOK
    <3> QED BY <1>1, <2>1, <3>1, <3>2, ImagesStay
  <2> QED BY <2>2, <2>3
<1>7. ASSUME NEW e \in Deleters
      PROVE  DeleterOK(e)'
  <2>1. DeleterOK(e)
    BY DEF ImagesInv
  <2>2. CASE e = d /\ t = Idle
    BY <1>4, <2>2 DEF DeleterOK, Idle
  <2>3. CASE e # d \/ t # Idle
    <3>1. /\ deleter'[e].chosen = deleter[e].chosen
          /\ deleter'[e].purge = deleter[e].purge /\ deleter'[e].before = deleter[e].before
          /\ deleter'[e].step = "idle" => deleter[e].step = "idle"
        BY <1>4, <1>5, <2>3
    <3> QED BY <1>1, <2>1, <3>1 DEF DeleterOK, Matching, Meets
  <2> QED BY <2>2, <2>3
<1> QED BY <1>6, <1>7 DEF ImagesInv

\* A deletion that is given up leaves what it has removed so far.
LEMMA FailDeleteImages ==
    ASSUME AuditInv, ImagesInv, NEW d \in Deleters, FailDelete(d)
    PROVE  ImagesInv'
<1>1. /\ deleter' = [deleter EXCEPT ![d] = Idle]
      /\ UNCHANGED <<draft, step, rows, files, unlinked>>
    BY DEF FailDelete, insertVars
<1>2. deleter'[d] = Idle /\ \A e \in Deleters \ {d} : deleter'[e] = deleter[e]
    BY <1>1 DEF AuditInv, RecordsTyped
<1>3. ASSUME NEW i \in Ids
      PROVE  FilesOK(i)'
  <2>1. FilesOf(i)' = FilesOf(i)
    BY <1>1 DEF FilesOf
  <2> QED BY <1>1, <2>1 DEF ImagesInv, FilesOK, Complete
<1>4. ASSUME NEW e \in Deleters
      PROVE  DeleterOK(e)'
  <2>1. CASE e = d
    BY <1>2, <2>1 DEF DeleterOK, Idle
  <2>2. CASE e # d
    BY <1>1, <1>2, <2>2 DEF ImagesInv, DeleterOK, Matching, Meets
  <2> QED BY <2>1, <2>2
<1> QED BY <1>3, <1>4 DEF ImagesInv

\* A crash ends what was open; the rows keep their images.
LEMMA CrashImages ==
    ASSUME AuditInv, ImagesInv, Crash
    PROVE  ImagesInv'
<1>1. /\ step' = [id \in Ids |-> IF step[id] \in {"none", "done"} THEN step[id] ELSE "failed"]
      /\ deleter' = [d \in Deleters |-> Idle]
      /\ UNCHANGED <<rows, files, unlinked>>
    BY DEF Crash
<1>2. ASSUME NEW i \in Ids
      PROVE  FilesOK(i)'
  <2>1. FilesOf(i)' = FilesOf(i) /\ FilesOK(i)
    BY <1>1 DEF FilesOf, ImagesInv
  <2>2. step'[i] \notin {"files", "commit"} /\ (step'[i] = "done" => step[i] = "done")
    BY <1>1
  <2> QED BY <1>1, <2>1, <2>2 DEF FilesOK, Complete
<1> QED BY <1>1, <1>2 DEF ImagesInv, DeleterOK, Idle

\* An insert that fails takes only its own images with it.
LEMMA FailImages ==
    ASSUME AuditParameters, AuditInv, ImagesInv, NEW id \in Ids,
           FailInsert(id) \/ FailImage(id) \/ Undo(id)
    PROVE  ImagesInv'
<1>1. /\ step[id] \in Running /\ End(id, "failed")
      /\ UNCHANGED <<rows, deleter, unlinked>>
    BY DEF FailInsert, FailImage, Undo, Running, deleteVars
<1>2. /\ step'[id] = "failed"
      /\ \A i \in Ids : i # id => \/ step'[i] = step[i]
                                  \/ step[i] = "none" /\ step'[i] = "begin"
      /\ draft' = [draft EXCEPT ![id] = None]
    BY <1>1, EndFrame
<1>3. \A i \in Ids \ {id} : draft'[i] = draft[i] /\ rows'[i] = rows[i]
    BY <1>1, <1>2, InvParts
<1>4. /\ \A f \in files' : f \in files
      /\ \A f \in files : f \in files' \/ f[1] = id
    BY DEF FailInsert, FailImage, Undo, StoredSoFar, FilesOf
<1>5. FilesOK(id)'
    BY <1>1, <1>2 DEF ImagesInv, FilesOK
<1> QED BY <1>1, <1>2, <1>3, <1>4, <1>5, InsertMovesFiles

LEMMA FailCommitImages ==
    ASSUME AuditInv, ImagesInv, NEW id \in Ids, FailCommit(id)
    PROVE  ImagesInv'
<1>1. /\ step[id] = "commit"
      /\ rows' = rows \/ rows' = [rows EXCEPT ![id] = Row(Prompt(id), draft[id])]
      /\ step' = [step EXCEPT ![id] = "undo"] /\ draft' = [draft EXCEPT ![id] = None]
      /\ UNCHANGED <<files, deleter, unlinked>>
    BY DEF FailCommit, deleteVars
<1>2. rows[id] = None /\ id \notin unlinked
    BY <1>1 DEF AuditInv, InsertOK, ImagesInv, FilesOK
<1>3. step'[id] = "undo"
    BY <1>1, InvParts
<1>4. FilesOK(id)'
    BY <1>1, <1>2, <1>3 DEF FilesOK
<1>5. \A i \in Ids \ {id} : step'[i] = step[i] /\ draft'[i] = draft[i] /\ rows'[i] = rows[i]
    BY <1>1, InvParts
<1> QED BY <1>1, <1>2, <1>4, <1>5, InsertMovesFiles

\* The rows of a deletion go with their locks, and those of another one wait.
LEMMA CommitDeleteImages ==
    ASSUME AuditInv, ImagesInv, NEW d \in Deleters, CommitDelete(d)
    PROVE  ImagesInv'
<1> DEFINE M == Matching(deleter[d])
<1>1. /\ M \cap Chosen(Deleters \ {d}) = {}
      /\ rows' = [id \in Ids |-> IF id \in M THEN None ELSE rows[id]]
      /\ deleter' = [deleter EXCEPT ![d] = Idle]
      /\ unlinked' = unlinked \ M
      /\ UNCHANGED <<draft, step, files>>
    BY DEF CommitDelete, Locked, insertVars
<1>2. deleter \in [Deleters -> [step : {"idle", "unlink", "delete"}, purge : BOOLEAN,
                                before : 0..MaxDay, chosen : SUBSET Ids]]
    BY DEF AuditInv, RecordsTyped
<1>3. deleter[d].chosen \subseteq M
    BY DEF ImagesInv, DeleterOK
<1> HIDE DEF M
<1>4. deleter'[d] = Idle /\ \A e \in Deleters \ {d} : deleter'[e] = deleter[e]
    BY <1>1, <1>2
<1>5. \A i \in Ids : rows'[i] # None => rows'[i] = rows[i] /\ i \notin M
    BY <1>1
<1>6. ASSUME NEW i \in Ids
      PROVE  FilesOK(i)'
  <2>1. FilesOf(i)' = FilesOf(i) /\ FilesOK(i)
    BY <1>1 DEF FilesOf, ImagesInv
  <2>2. rows'[i] # None => rows[i] # None /\ (i \in unlinked => i \in unlinked')
    BY <1>1, <1>5
  <2>3. i \in unlinked' => rows'[i] # None
    BY <1>1, <2>1 DEF FilesOK
  <2> QED BY <1>1, <2>1, <2>2, <2>3, ImagesStay
<1>7. ASSUME NEW e \in Deleters
      PROVE  DeleterOK(e)'
  <2>1. CASE e = d
    BY <1>4, <2>1 DEF DeleterOK, Idle
  <2>2. CASE e # d
    <3>1. DeleterOK(e) /\ deleter'[e] = deleter[e]
        BY <1>4, <2>2 DEF ImagesInv
    <3>2. ASSUME NEW id \in deleter[e].chosen
          PROVE  id \in Ids /\ Meets(id, deleter[e]) /\ rows'[id] = rows[id]
      <4>1. id \in Matching(deleter[e]) /\ id \in Chosen(Deleters \ {d})
        BY <2>2, <3>1 DEF DeleterOK, Chosen
      <4>2. id \in Ids /\ id \notin M
        BY <1>1, <4>1 DEF Matching
      <4> QED BY <1>1, <4>1, <4>2 DEF Matching
    <3> QED BY <3>1, <3>2 DEF DeleterOK, Matching, Meets
  <2> QED BY <2>1, <2>2
<1> QED BY <1>6, <1>7 DEF ImagesInv

LEMMA StatementImages ==
    ASSUME AuditParameters, NoneIsNoRow, AuditInv, ImagesInv,
           ApplyConfiguredRetention \/ Enrich
    PROVE  ImagesInv'
<1>1. PICK ids \in SUBSET Ids :
          /\ ids \cap Chosen(Deleters) = {}
          /\ \A id \in ids : rows[id] # None /\ rows'[id] # None
          /\ \A id \in Ids \ ids : rows'[id] = rows[id]
  <2>1. CASE ApplyConfiguredRetention
    <3>1. Outdated \in SUBSET Ids /\ Outdated \cap Chosen(Deleters) = {}
        BY <2>1 DEF ApplyConfiguredRetention, Unlocked, Locked, Outdated
    <3>2. /\ \A id \in Outdated : rows'[id] = [rows[id] EXCEPT !.expires = Expiry(id)]
          /\ \A id \in Ids \ Outdated : rows'[id] = rows[id]
        BY <2>1, <3>1 DEF ApplyConfiguredRetention
    <3>3. ASSUME NEW id \in Outdated
          PROVE  rows[id] # None /\ rows'[id] # None
      <4>1. rows[id] # None /\ rows[id] \in [expires : Nat, status : Statuses]
        BY <3>1, InvParts DEF Outdated
      <4>2. CapturedAt[Prompt(id)] \in Nat
        BY <3>1, PromptOfId DEF AuditParameters
      <4>3. Expiry(id) \in Nat
        BY <4>2, DaysTyped DEF Expiry
      <4>4. [rows[id] EXCEPT !.expires = Expiry(id)] \in [expires : Nat, status : Statuses]
        BY <4>1, <4>3
      <4> QED BY <3>2, <4>1, <4>4 DEF NoneIsNoRow
    <3> QED BY <3>1, <3>2, <3>3
  <2>2. CASE Enrich
    <3> DEFINE ids == {id \in Ids : Visible(id) /\ rows[id].status = "pending"
                                    /\ Prompt(id) \in logged}
               flagged(id) == [status |-> "flagged",
                               expires |-> CapturedAt[Prompt(id)] + Days("flagged")]
    <3>1. ids \in SUBSET Ids /\ \A id \in ids : rows[id] # None
        BY DEF Visible
    <3>2. /\ ids \cap Chosen(Deleters) = {}
          /\ rows' = [id \in Ids |-> IF id \in ids THEN flagged(id) ELSE rows[id]]
        BY <2>2 DEF Enrich, Unlocked, Locked
    <3> HIDE DEF ids
    <3>3. ASSUME NEW id \in ids
          PROVE  rows'[id] # None
      <4>1. CapturedAt[Prompt(id)] + Days("flagged") \in Nat
        BY <3>1, PromptOfId, DaysTyped DEF AuditParameters
      <4>2. flagged(id) \in [expires : Nat, status : Statuses]
        BY <4>1 DEF Statuses
      <4> QED BY <3>1, <3>2, <4>2 DEF NoneIsNoRow
    <3>4. \A id \in Ids \ ids : rows'[id] = rows[id]
        BY <3>2
    <3> QED BY <3>1, <3>2, <3>3, <3>4
  <2> QED BY <2>1, <2>2
<1>2. UNCHANGED <<draft, step, files, deleter, unlinked>>
    BY DEF ApplyConfiguredRetention, Enrich, insertVars, deleteVars
<1>3. \A i \in Ids : rows'[i] = None <=> rows[i] = None
    BY <1>1
<1>4. \A i \in Chosen(Deleters) : rows'[i] = rows[i]
    BY <1>1, ChosenMatch
<1> QED BY <1>2, <1>3, <1>4, RowsKeepFiles

LEMMA StepImages ==
    ASSUME AuditParameters, NoneIsNoRow, AuditInv, ImagesInv, [Next]_vars
    PROVE  ImagesInv'
<1>1. CASE UNCHANGED <<step, draft, rows, files, deleter, unlinked>>
    BY <1>1, RowsKeepFiles
<1>2. CASE \E p \in Prompts : Enqueue(p) \/ Store(p)
    BY <1>2, EnqueueImages
<1>3. CASE \E id \in Ids : InsertStep(id)
    BY <1>3, InsertRowImages, WriteImageImages, CommitImages, FailImages, FailCommitImages
       DEF InsertStep
<1>4. CASE \E d \in Deleters : DeleteStep(d) \/ \E before \in 0..MaxDay : Purge(d, before)
  <2>1. PICK d \in Deleters : DeleteStep(d) \/ \E before \in 0..MaxDay : Purge(d, before)
    BY <1>4
  <2>2. CASE Cleanup(d)
    <3>1. PICK t : t = [Idle EXCEPT !.before = now]
        OBVIOUS
    <3>2. t = [Idle EXCEPT !.before = t.before, !.purge = t.purge]
        BY <3>1 DEF Idle
    <3> QED BY <2>2, <3>1, <3>2, SelectImages DEF Cleanup
  <2>3. CASE \E before \in 0..MaxDay : Purge(d, before)
    <3>1. PICK before \in 0..MaxDay : Purge(d, before)
        BY <2>3
    <3>2. PICK t : t = [Idle EXCEPT !.purge = TRUE, !.before = before]
        OBVIOUS
    <3>3. t = [Idle EXCEPT !.before = t.before, !.purge = t.purge]
        BY <3>2 DEF Idle
    <3> QED BY <3>1, <3>2, <3>3, SelectImages DEF Purge
  <2> QED BY <2>1, <2>2, <2>3, UnlinkImages, CommitDeleteImages, FailDeleteImages
          DEF DeleteStep
<1>5. CASE ApplyConfiguredRetention \/ Enrich
    BY <1>5, StatementImages
<1>6. CASE \/ \E p \in Prompts : Moderate(p)
           \/ \E days \in Retentions : ConfigureRetention(days)
           \/ Tick \/ UNCHANGED vars
    BY <1>1, <1>6 DEF Moderate, ConfigureRetention, Tick, vars, insertVars, deleteVars
<1>7. CASE Crash
    BY <1>7, CrashImages
<1> QED BY <1>2, <1>3, <1>4, <1>5, <1>6, <1>7 DEF Next

LEMMA SpecImages ==
    ASSUME AuditParameters, NoneIsNoRow
    PROVE  Spec => []ImagesInv
<1>1. Init => ImagesInv
  <2> SUFFICES ASSUME Init
               PROVE  ImagesInv
    OBVIOUS
  <2>1. /\ step = [id \in Ids |-> "none"] /\ rows = [id \in Ids |-> None]
        /\ deleter = [d \in Deleters |-> Idle] /\ unlinked = {}
    BY DEF Init
  <2> QED BY <2>1 DEF ImagesInv, FilesOK, DeleterOK, Idle
<1>2. AuditInv /\ ImagesInv /\ [Next]_vars => ImagesInv'
    BY StepImages
<1> QED BY <1>1, <1>2, SpecAudit, PTL DEF Spec

\* A listed record has all its images until a deletion that has locked it
\* begins to remove them (docs 006): the row comes after its images, however
\* inserts, deletions and changes of the retention interleave, and whatever
\* fails or crashes.  Only the row whose commit lost its answer is undone.
THEOREM ImagesAreKept ==
    ASSUME AuditParameters, NoneIsNoRow
    PROVE  Spec => []ImagesKept
<1>1. ImagesInv => ImagesKept
    BY DEF ImagesInv, FilesOK, Complete, ImagesKept, Visible
<1> QED BY <1>1, SpecImages, PTL

\* While nothing fails, no insert fails, and a deletion that has begun goes on
\* to its commit.
Undisturbed ==
    /\ \A id \in Ids : step[id] \notin {"undo", "failed"}
    /\ unlinked \subseteq Chosen(Deleters)

LEMMA StepUndisturbed ==
    ASSUME AuditParameters, MaxFailures = 0, MaxCrashes = 0,
           AuditInv, ImagesInv, Undisturbed, [Next]_vars
    PROVE  Undisturbed'
<1>1. ASSUME UNCHANGED <<deleter, unlinked>>
      PROVE  (unlinked \subseteq Chosen(Deleters))'
    BY <1>1 DEF Undisturbed, Chosen
<1>2. CASE \E p \in Prompts : Enqueue(p) \/ Store(p)
  <2>1. PICK p \in Prompts : Enqueue(p) \/ Store(p)
    BY <1>2
  <2>2. \A id \in Ids : step'[id] \in {step[id], "begin"}
    BY <2>1, InvParts DEF Enqueue, Store
  <2> QED BY <1>1, <2>1, <2>2 DEF Undisturbed, Enqueue, Store, deleteVars
<1>3. CASE \E id \in Ids : InsertStep(id)
  <2>1. PICK id \in Ids : InsertStep(id)
    BY <1>3
  <2>2. InsertRow(id) \/ WriteImage(id) \/ Commit(id)
    BY <2>1, NoFail DEF InsertStep, FailInsert, FailImage, FailCommit, Undo, Undisturbed
  <2>3. UNCHANGED <<deleter, unlinked>>
    BY <2>2 DEF InsertRow, WriteImage, Commit, deleteVars
  <2>4. CASE InsertRow(id) \/ WriteImage(id)
    <3>1. \A i \in Ids : step'[i] \in {step[i], "files", "commit"}
        BY <2>4, InvParts DEF InsertRow, WriteImage
    <3> QED BY <1>1, <2>3, <3>1 DEF Undisturbed
  <2>5. CASE Commit(id)
    <3>1. \A i \in Ids : step'[i] \in {step[i], "begin", "done"}
        BY <2>5 DEF Commit, End
    <3> QED BY <1>1, <2>3, <3>1 DEF Undisturbed
  <2> QED BY <2>2, <2>4, <2>5
<1>4. CASE \E d \in Deleters : DeleteStep(d) \/ \E before \in 0..MaxDay : Purge(d, before)
  <2>1. PICK d \in Deleters : DeleteStep(d) \/ \E before \in 0..MaxDay : Purge(d, before)
    BY <1>4
  <2>2. step' = step
    BY <2>1 DEF DeleteStep, Cleanup, Purge, Select, Unlink, CommitDelete, FailDelete, insertVars
  <2>3. deleter \in [Deleters -> [step : {"idle", "unlink", "delete"}, purge : BOOLEAN,
                                  before : 0..MaxDay, chosen : SUBSET Ids]]
    BY DEF AuditInv, RecordsTyped
  <2>4. ASSUME NEW t, Select(d, t)
        PROVE  (unlinked \subseteq Chosen(Deleters))'
    <3>1. /\ deleter[d].step = "idle" /\ unlinked' = unlinked
          /\ \A e \in Deleters \ {d} : deleter'[e] = deleter[e]
        BY <2>3, <2>4 DEF Select
    <3>2. deleter[d].chosen = {}
        BY <3>1 DEF ImagesInv, DeleterOK
    <3>3. ASSUME NEW id \in unlinked'
          PROVE  id \in Chosen(Deleters)'
      <4>1. PICK e \in Deleters : id \in deleter[e].chosen
        BY <3>1, <3>3 DEF Undisturbed, Chosen
      <4>2. e # d
        BY <3>2, <4>1
      <4> QED BY <3>1, <4>1, <4>2 DEF Chosen
    <3> QED BY <3>3
  <2>5. CASE Unlink(d)
    <3>1. /\ deleter' = [deleter EXCEPT ![d].step = "delete"]
          /\ unlinked' = unlinked \cup deleter[d].chosen
        BY <2>5, NoFail DEF Unlink, Removable
    <3>2. \A e \in Deleters : deleter'[e].chosen = deleter[e].chosen
        BY <2>3, <3>1
    <3>3. Chosen(Deleters)' = Chosen(Deleters) /\ deleter[d].chosen \subseteq Chosen(Deleters)
        BY <3>2 DEF Chosen
    <3> QED BY <2>2, <3>1, <3>3 DEF Undisturbed
  <2>6. CASE CommitDelete(d)
    <3>1. /\ unlinked' = unlinked \ Matching(deleter[d])
          /\ \A e \in Deleters \ {d} : deleter'[e] = deleter[e]
        BY <2>3, <2>6 DEF CommitDelete
    <3>2. deleter[d].chosen \subseteq Matching(deleter[d])
        BY DEF ImagesInv, DeleterOK
    <3>3. ASSUME NEW id \in unlinked'
          PROVE  id \in Chosen(Deleters)'
      <4>1. PICK e \in Deleters : id \in deleter[e].chosen
        BY <3>1, <3>3 DEF Undisturbed, Chosen
      <4>2. e # d
        BY <3>1, <3>2, <3>3, <4>1
      <4> QED BY <3>1, <4>1, <4>2 DEF Chosen
    <3> QED BY <2>2, <3>3 DEF Undisturbed
  <2>7. ~FailDelete(d)
    BY NoFail DEF FailDelete
  <2> QED BY <2>1, <2>2, <2>4, <2>5, <2>6, <2>7 DEF Undisturbed, DeleteStep, Cleanup, Purge
<1>5. CASE UNCHANGED <<step, deleter, unlinked>>
    BY <1>1, <1>5 DEF Undisturbed
<1>6. CASE \/ ApplyConfiguredRetention \/ Enrich
           \/ \E p \in Prompts : Moderate(p)
           \/ \E days \in Retentions : ConfigureRetention(days)
           \/ Tick \/ UNCHANGED vars
    BY <1>5, <1>6 DEF ApplyConfiguredRetention, Enrich, Moderate, ConfigureRetention, Tick,
                      vars, insertVars, deleteVars
<1>7. ~Crash
    BY DEF Crash, AuditInv, RecordsTyped
<1> QED BY <1>2, <1>3, <1>4, <1>6, <1>7 DEF Next

\* While nothing fails, a listed record has all its images, unless it is just
\* being deleted (docs 006).
THEOREM ImagesAreReadable ==
    ASSUME AuditParameters, NoneIsNoRow, MaxFailures = 0, MaxCrashes = 0
    PROVE  Spec => []ImagesReadable
<1>1. Init => Undisturbed
    BY DEF Init, Undisturbed
<1>2. AuditInv /\ ImagesInv /\ Undisturbed /\ [Next]_vars => Undisturbed'
    BY StepUndisturbed
<1>3. AuditInv /\ ImagesInv /\ Undisturbed => ImagesReadable
  <2> SUFFICES ASSUME AuditInv, ImagesInv, Undisturbed, NEW id \in Ids,
                      Visible(id), id \notin Chosen(Deleters)
               PROVE  Complete(id)
    BY DEF ImagesReadable, Complete
  <2>1. rows[id] # None /\ id \notin unlinked
    BY DEF Visible, Undisturbed
  <2>2. step[id] = "done"
    BY <2>1, InvParts DEF AuditInv, InsertOK, Undisturbed, Steps
  <2> QED BY <2>1, <2>2 DEF ImagesInv, FilesOK
<1> QED BY <1>1, <1>2, <1>3, SpecAudit, SpecImages, PTL DEF Spec

----------------------------------------------------------------------------
(* What an insert that failed leaves behind.                                *)

\* A failed insert has no files, and one that is undone had a failure.
FailedOK ==
    /\ FailedInsertLeavesNoFile
    /\ \A id \in Ids : step[id] = "undo" => failures >= 1

LEMMA FailedStays ==
    ASSUME FailedOK, failures \in Nat, failures' \in Nat, failures' >= failures,
           \A id \in Ids : /\ step'[id] = "failed" => FilesOf(id)' = {} \/ step[id] = "failed"
                           /\ step[id] = "failed" => FilesOf(id)' \subseteq FilesOf(id)
                           /\ step'[id] = "undo" => step[id] = "undo" \/ failures' >= 1
    PROVE  FailedOK'
<1>1. ASSUME NEW id \in Ids, step'[id] = "failed"
      PROVE  FilesOf(id)' = {}
    BY <1>1 DEF FailedOK, FailedInsertLeavesNoFile
<1>2. ASSUME NEW id \in Ids, step'[id] = "undo"
      PROVE  failures' >= 1
    BY <1>2 DEF FailedOK
<1> QED BY <1>1, <1>2 DEF FailedOK, FailedInsertLeavesNoFile

\* An insert ends as failed: its files are gone.
LEMMA FailedEnds ==
    ASSUME AuditParameters, AuditInv, FailedOK, NEW id \in Ids, step[id] \in Running,
           NEW result \in {"done", "failed"}, End(id, result),
           result = "failed" => FilesOf(id)' = {},
           files' \subseteq files, failures' \in Nat, failures' >= failures
    PROVE  FailedOK'
<1>1. /\ step'[id] = result
      /\ \A i \in Ids : i # id => \/ step'[i] = step[i]
                                  \/ step[i] = "none" /\ step'[i] = "begin"
    BY EndFrame
<1>2. \A i \in Ids : FilesOf(i)' \subseteq FilesOf(i)
    BY DEF FilesOf
<1>3. failures \in Nat
    BY DEF AuditInv, RecordsTyped, AuditParameters
<1>4. ASSUME NEW i \in Ids
      PROVE  /\ step'[i] = "failed" => FilesOf(i)' = {} \/ step[i] = "failed"
             /\ step[i] = "failed" => FilesOf(i)' \subseteq FilesOf(i)
             /\ step'[i] = "undo" => step[i] = "undo" \/ failures' >= 1
    BY <1>1, <1>2
<1> QED BY <1>3, <1>4, FailedStays

LEMMA StepFailed ==
    ASSUME AuditParameters, NoneIsNoRow, MaxFailures <= 1, MaxCrashes = 0,
           AuditInv, FailedOK, [Next]_vars
    PROVE  FailedOK'
<1>1. failures \in Nat /\ step \in [Ids -> Steps]
  <2>1. failures \in Nat
    BY DEF AuditInv, RecordsTyped, AuditParameters
  <2> QED BY <2>1, InvParts
<1>2. failures' \in Nat /\ failures' >= failures
  <2>1. failures' = failures \/ failures' = failures + 1
    BY DEF Next, vars, InsertStep, DeleteStep, Fail, Enqueue, Store, Moderate, InsertRow,
           FailInsert, WriteImage, FailImage, Commit, FailCommit, Undo, Cleanup, Purge,
           Select, Unlink, CommitDelete, FailDelete, ConfigureRetention,
           ApplyConfiguredRetention, Enrich, Tick, Crash
  <2> QED BY <1>1, <2>1
<1>3. CASE UNCHANGED step /\ files' \subseteq files
  <2>1. \A i \in Ids : FilesOf(i)' \subseteq FilesOf(i)
    BY <1>3 DEF FilesOf
  <2> QED BY <1>1, <1>2, <1>3, <2>1, FailedStays
<1>4. CASE \E p \in Prompts : Enqueue(p) \/ Store(p)
  <2>1. PICK p \in Prompts : Enqueue(p) \/ Store(p)
    BY <1>4
  <2>2. \A i \in Ids : FilesOf(i)' = FilesOf(i)
    BY <2>1 DEF Enqueue, Store, FilesOf
  <2>3. \A i \in Ids : step'[i] = step[i] \/ step'[i] = "begin"
    BY <1>1, <2>1 DEF Enqueue, Store
  <2> QED BY <1>1, <1>2, <2>2, <2>3, FailedStays
<1>5. CASE \E id \in Ids : InsertStep(id)
  <2>1. PICK id \in Ids : InsertStep(id)
    BY <1>5
  <2>2. CASE InsertRow(id)
    <3>1. \A i \in Ids : FilesOf(i)' = FilesOf(i)
        BY <2>2 DEF InsertRow, FilesOf
    <3>2. \A i \in Ids : step'[i] = step[i] \/ step'[i] \in {"commit", "files"}
        BY <1>1, <2>2 DEF InsertRow
    <3> QED BY <1>1, <1>2, <3>1, <3>2, FailedStays
  <2>3. CASE WriteImage(id)
    <3>1. \A i \in Ids : step'[i] = step[i] \/ step'[i] = "commit"
        BY <1>1, <2>3 DEF WriteImage
    <3>2. ASSUME NEW i \in Ids, step[i] = "failed"
          PROVE  FilesOf(i)' = FilesOf(i)
      <4>1. i # id /\ \A f \in files' : f \in files \/ f[1] = id
        BY <2>3, <3>2 DEF WriteImage
      <4>2. files \subseteq files'
        BY <2>3 DEF WriteImage
      <4> QED BY <4>1, <4>2 DEF FilesOf
    <3> QED BY <1>1, <1>2, <3>1, <3>2, FailedStays
  <2>4. CASE Commit(id)
    <3>1. End(id, "done") /\ files' = files /\ step[id] \in Running
        BY <2>4 DEF Commit, Running
    <3> QED BY <1>2, <3>1, FailedEnds
  <2>5. CASE FailInsert(id)
    <3>1. End(id, "failed") /\ files' = files /\ step[id] = "begin" /\ step[id] \in Running
        BY <2>5 DEF FailInsert, Running
    <3>2. FilesOf(id)' = {}
        BY <3>1 DEF AuditInv, InsertOK, FilesOf
    <3> QED BY <1>2, <3>1, <3>2, FailedEnds
  <2>6. CASE FailImage(id)
    <3>1. End(id, "failed") /\ files' = files \ FilesOf(id) /\ step[id] \in Running
        BY <2>6 DEF FailImage, StoredSoFar, Running
    <3>2. FilesOf(id)' = {}
        BY <3>1 DEF FilesOf
    <3> QED BY <1>2, <3>1, <3>2, FailedEnds
  <2>7. CASE FailCommit(id)
    <3>1. /\ failures' = failures + 1 /\ \A i \in Ids : FilesOf(i)' = FilesOf(i)
        BY <2>7 DEF FailCommit, Fail, FilesOf
    <3>2. failures' >= 1
        BY <1>1, <3>1
    <3>3. \A i \in Ids : step'[i] = step[i] \/ step'[i] = "undo"
        BY <1>1, <2>7 DEF FailCommit
    <3> QED BY <1>1, <1>2, <3>1, <3>2, <3>3, FailedStays
  <2>8. CASE Undo(id)
    <3>1. End(id, "failed") /\ step[id] = "undo" /\ step[id] \in Running
        BY <2>8 DEF Undo, Running
    <3>2. ~Fail
      <4>1. failures >= 1
        BY <3>1 DEF FailedOK
      <4> QED BY <1>1, <4>1 DEF Fail, AuditParameters
    <3>3. files' = files \ FilesOf(id)
        BY <2>8, <3>2 DEF Undo
    <3>4. FilesOf(id)' = {}
        BY <3>3 DEF FilesOf
    <3> QED BY <1>2, <3>1, <3>3, <3>4, FailedEnds
  <2> QED BY <2>1, <2>2, <2>3, <2>4, <2>5, <2>6, <2>7, <2>8 DEF InsertStep
<1>6. ~Crash
    BY DEF Crash, AuditInv, RecordsTyped
<1>7. CASE \/ \E p \in Prompts : Moderate(p)
           \/ \E days \in Retentions : ConfigureRetention(days)
           \/ ApplyConfiguredRetention \/ Enrich \/ Tick \/ UNCHANGED vars
  <2>1. UNCHANGED step /\ files' = files
    BY <1>7 DEF Moderate, ConfigureRetention, ApplyConfiguredRetention, Enrich, Tick, vars,
                insertVars
  <2> QED BY <1>3, <2>1
<1>8. CASE \E d \in Deleters : DeleteStep(d) \/ \E before \in 0..MaxDay : Purge(d, before)
  <2>1. PICK d \in Deleters : DeleteStep(d) \/ \E before \in 0..MaxDay : Purge(d, before)
    BY <1>8
  <2>2. UNCHANGED step /\ files' \subseteq files
    <3>1. CASE Cleanup(d) \/ \E before \in 0..MaxDay : Purge(d, before)
        BY <3>1 DEF Cleanup, Purge, Select, insertVars
    <3>2. CASE Unlink(d)
        BY <3>2 DEF Unlink, insertVars
    <3>3. CASE CommitDelete(d)
        BY <3>3 DEF CommitDelete, insertVars
    <3>4. CASE FailDelete(d)
        BY <3>4 DEF FailDelete, insertVars
    <3> QED BY <2>1, <3>1, <3>2, <3>3, <3>4 DEF DeleteStep
  <2> QED BY <1>3, <2>2
<1> QED BY <1>4, <1>5, <1>6, <1>7, <1>8 DEF Next

\* An insert that failed leaves no image behind, whichever image, statement or
\* commit failed (repository.ts), as long as its clean-up does not fail as well
\* and the process goes on.
THEOREM FailuresLeaveNoFile ==
    ASSUME AuditParameters, NoneIsNoRow, MaxFailures <= 1, MaxCrashes = 0
    PROVE  Spec => []FailedInsertLeavesNoFile
<1>1. Init => FailedOK
    BY DEF Init, FailedOK, FailedInsertLeavesNoFile
<1>2. AuditInv /\ FailedOK /\ [Next]_vars => FailedOK'
    BY StepFailed
<1>3. FailedOK => FailedInsertLeavesNoFile
    BY DEF FailedOK
<1> QED BY <1>1, <1>2, <1>3, SpecAudit, PTL DEF Spec

----------------------------------------------------------------------------
(* The list.  Its rows are ordered by time, and every finite set of rows    *)
(* has a first and a last one; that is all the induction there is.          *)

CONSTANTS
    Turns, Connection, Kind, Content, JoinBack, JoinAhead, DuplicateGap,
    NormalDays, RiskDays, Verdicts, MaxDelay, MaxTime

VARIABLES captured, expires, enriched, log, listPurge, listPurges, listNow

Listing == INSTANCE PromptList WITH
    purgeBefore <- listPurge, purges <- listPurges, now <- listNow

LEMMA SameCardinality ==
    ASSUME NEW S
    PROVE  Listing!Cardinality(S) = Cardinality(S) /\ Listing!IsFiniteSet(S) = IsFiniteSet(S)
<1>1. Listing!Cardinality(S) = Cardinality(S)
    BY DEF Listing!Cardinality, Cardinality
<1>2. Listing!IsFiniteSet(S) = IsFiniteSet(S)
    BY DEF Listing!IsFiniteSet, IsFiniteSet
<1> QED BY <1>1, <1>2

\* Of finitely many elements in a total order one is the first: a smallest set
\* without a first one would have one when any other element is put aside.
LEMMA LeastElement ==
    ASSUME NEW S, IsFiniteSet(S), S # {}, NEW R,
           \A x, y \in S : x # y => <<x, y>> \in R \/ <<y, x>> \in R,
           \A x, y, z \in S : <<x, y>> \in R /\ <<y, z>> \in R => <<x, z>> \in R
    PROVE  \E x \in S : \A y \in S \ {x} : <<x, y>> \in R
<1> DEFINE Has(U) == \E x \in U : \A y \in U \ {x} : <<x, y>> \in R
           Wrong == {U \in SUBSET S : U # {} /\ ~Has(U)}
           Smaller == StrictSubsetOrdering(S)
           Finite == FiniteSubsetsOf(S)
<1>1. SUFFICES ASSUME Wrong # {} PROVE FALSE
    BY Zenon
<1>2. IsWellFoundedOn(Smaller, Finite)
    BY FS_StrictSubsetOrderingWellFounded
<1>3. Wrong \subseteq Finite
    BY FS_Subset DEF FiniteSubsetsOf
<1> HIDE DEF Smaller, Finite
<1>4. PICK U \in Wrong : \A V \in Wrong : <<V, U>> \notin Smaller
    <2> HIDE DEF Wrong
    <2> QED BY <1>1, <1>2, <1>3, WFMin
<1>5. PICK x \in U : TRUE
    BY <1>4
<1>6. PICK y \in U \ {x} : <<x, y>> \notin R
    BY <1>4, <1>5
<1>7. U \ {x} \notin Wrong
    <2>1. <<U \ {x}, U>> \in Smaller
        BY <1>4, <1>5 DEF Smaller, StrictSubsetOrdering
    <2> QED BY <2>1, <1>4
<1>8. PICK z \in U \ {x} : \A v \in (U \ {x}) \ {z} : <<z, v>> \in R
    BY <1>4, <1>6, <1>7
<1>9. CASE <<x, z>> \in R
    <2>1. \A v \in U \ {x} : <<x, v>> \in R
        BY <1>4, <1>5, <1>8, <1>9
    <2> QED BY <2>1, <1>4, <1>5
<1>10. CASE <<z, x>> \in R
    <2>1. \A v \in U \ {z} : <<z, v>> \in R
        BY <1>4, <1>5, <1>8, <1>10
    <2> QED BY <2>1, <1>4, <1>8
<1> QED BY <1>4, <1>5, <1>8, <1>9, <1>10

\* Rows of a table: source and turn are their key.
Table(table) ==
    /\ IsFiniteSet(table)
    /\ \A r \in table : /\ r.at \in Int /\ r.turn \in Int
                        /\ r.source \in {"reviewed", "captured"}
    /\ \A r, q \in table : r.source = q.source /\ r.turn = q.turn => r = q

LEMMA BeforeOrders ==
    ASSUME NEW table, Table(table), NEW a \in table, NEW b \in table
    PROVE  /\ a # b => Listing!Before(a, b) \/ Listing!Before(b, a)
           /\ Listing!Before(a, b) => ~Listing!Before(b, a) /\ a # b /\ a.at <= b.at
           /\ \A c \in table : Listing!Before(a, b) /\ Listing!Before(b, c) => Listing!Before(a, c)
<1>1. \A r \in {a, b} : r.at \in Int /\ r.turn \in Int /\ r.source \in {"reviewed", "captured"}
    BY DEF Table
<1>2. a.source = b.source /\ a.turn = b.turn => a = b
    BY DEF Table
<1>3. a # b => Listing!Before(a, b) \/ Listing!Before(b, a)
    BY <1>1, <1>2 DEF Listing!Before
<1>4. Listing!Before(a, b) => ~Listing!Before(b, a) /\ a # b /\ a.at <= b.at
    BY <1>1 DEF Listing!Before
<1>5. ASSUME NEW c \in table, Listing!Before(a, b), Listing!Before(b, c)
      PROVE  Listing!Before(a, c)
    <2>1. c.at \in Int /\ c.turn \in Int /\ c.source \in {"reviewed", "captured"}
        BY DEF Table
    <2> QED BY <2>1, <1>1, <1>5 DEF Listing!Before
<1> QED BY <1>3, <1>4, <1>5

LEMMA LastRow ==
    ASSUME NEW table, Table(table), NEW some \in SUBSET table, some # {}
    PROVE  \E r \in some : \A q \in some \ {r} : Listing!Before(q, r)
<1> DEFINE R == {p \in some \X some : Listing!Before(p[2], p[1])}
<1>1. \A x, y \in some : <<x, y>> \in R <=> Listing!Before(y, x)
    OBVIOUS
<1>2. IsFiniteSet(some)
    BY FS_Subset DEF Table
<1> HIDE DEF R
<1>3. \A x, y \in some : x # y => <<x, y>> \in R \/ <<y, x>> \in R
    BY <1>1, BeforeOrders
<1>4. \A x, y, z \in some : <<x, y>> \in R /\ <<y, z>> \in R => <<x, z>> \in R
    BY <1>1, BeforeOrders
<1>5. \E x \in some : \A y \in some \ {x} : <<x, y>> \in R
    BY <1>2, <1>3, <1>4, LeastElement
<1> QED BY <1>1, <1>5

LEMMA EarlierRows ==
    ASSUME NEW table, NEW r
    PROVE  Listing!Earlier(r, table) =
             {q \in table : q.identity = r.identity /\ Listing!Before(q, r)}
BY DEF Listing!Earlier, Listing!Same

\* The greatest time is that of the last row: a row begins a group when every
\* earlier one of its identity is farther away than the gap.
LEMMA BeginsMeans ==
    ASSUME Listing!ListParameters, NEW table, Table(table), NEW r \in table
    PROVE  Listing!Begins(r, table) <=>
             \A q \in Listing!Earlier(r, table) : r.at - q.at > DuplicateGap
<1> DEFINE earlier == Listing!Earlier(r, table)
<1>1. earlier \subseteq table
    BY EarlierRows
<1>2. CASE earlier = {}
    BY <1>2 DEF Listing!Begins
<1>3. CASE earlier # {}
    <2>1. PICK l \in earlier : \A q \in earlier \ {l} : Listing!Before(q, l)
        BY <1>1, <1>3, LastRow
    <2>2. \A q \in earlier : q.at \in Int /\ q.at <= l.at
        BY <1>1, <2>1, BeforeOrders DEF Table
    <2> HIDE DEF earlier
    <2> DEFINE times == {q.at : q \in earlier}
    <2>3. l.at \in times /\ \A t \in times : t \in Int /\ l.at >= t
        BY <2>1, <2>2
    <2>4. Listing!Max(times) = l.at
        <3> HIDE DEF times
        <3>1. \A m \in times : (\A t \in times : m >= t) => m = l.at
            BY <2>3
        <3> QED BY <2>3, <3>1 DEF Listing!Max
    <2>5. Listing!Begins(r, table) <=> r.at - l.at > DuplicateGap
        BY <1>3, <2>4 DEF Listing!Begins, earlier
    <2>6. r.at \in Int /\ DuplicateGap \in Int
        BY DEF Table, Listing!ListParameters
    <2>7. (\A q \in earlier : r.at - q.at > DuplicateGap) <=> r.at - l.at > DuplicateGap
        BY <2>1, <2>2, <2>6
    <2> QED BY <2>5, <2>7 DEF earlier
<1> QED BY <1>2, <1>3

LEMMA NumberOf ==
    ASSUME NEW table, NEW r
    PROVE  Listing!GroupNumber(r, table) =
             Cardinality({q \in Listing!Earlier(r, table) \cup {r} : Listing!Begins(q, table)})
BY SameCardinality DEF Listing!GroupNumber

\* Two repeats within the gap have one number, since no row between them begins
\* a group.
LEMMA NearInOneGroup ==
    ASSUME Listing!ListParameters, NEW table, Table(table), NEW q \in table, NEW r \in table,
           q.identity = r.identity, Listing!Before(q, r), r.at - q.at <= DuplicateGap
    PROVE  Listing!GroupNumber(q, table) = Listing!GroupNumber(r, table)
<1> DEFINE Upto(x) == Listing!Earlier(x, table) \cup {x}
<1>1. ASSUME NEW x \in Upto(q) PROVE x \in Upto(r)
    BY <1>1, EarlierRows, BeforeOrders
<1>2. ASSUME NEW x \in Upto(r), Listing!Begins(x, table) PROVE x \in Upto(q)
    <2>1. x \in table /\ x.identity = q.identity
        BY <1>2, EarlierRows
    <2>2. SUFFICES ASSUME x # q, ~Listing!Before(x, q) PROVE FALSE
        BY <2>1, EarlierRows
    <2>3. q \in Listing!Earlier(x, table)
        BY <2>1, <2>2, EarlierRows, BeforeOrders
    <2>4. x.at - q.at > DuplicateGap
        BY <1>2, <2>1, <2>3, BeginsMeans
    <2>5. x.at <= r.at
        BY <1>2, <2>1, EarlierRows, BeforeOrders DEF Table
    <2>6. x.at \in Int /\ q.at \in Int /\ r.at \in Int /\ DuplicateGap \in Int
        BY <2>1 DEF Table, Listing!ListParameters
    <2> QED BY <2>4, <2>5, <2>6
<1>3. {x \in Upto(q) : Listing!Begins(x, table)} = {x \in Upto(r) : Listing!Begins(x, table)}
    BY <1>1, <1>2
<1> QED BY <1>3, NumberOf

\* Rows of one identity that are not in one group are farther apart than the gap.
LEMMA Apart ==
    ASSUME Listing!ListParameters, NEW table, Table(table), NEW r \in table,
           NEW q \in Listing!Same(r, table) \ Listing!Group(r, table)
    PROVE  r.at - q.at > DuplicateGap \/ q.at - r.at > DuplicateGap
<1>1. q \in table /\ q.identity = r.identity
    BY DEF Listing!Same
<1>2. Listing!GroupNumber(q, table) # Listing!GroupNumber(r, table)
    BY DEF Listing!Group
<1>3. Listing!Before(q, r) \/ Listing!Before(r, q)
    BY <1>1, <1>2, BeforeOrders
<1>4. q.at \in Int /\ r.at \in Int /\ DuplicateGap \in Int
    BY <1>1 DEF Table, Listing!ListParameters
<1> QED BY <1>1, <1>2, <1>3, <1>4, NearInOneGroup

LEMMA GroupIsClass ==
    ASSUME NEW table, NEW r \in table
    PROVE  /\ r \in Listing!Group(r, table) /\ Listing!Group(r, table) \subseteq table
           /\ \A q \in Listing!Group(r, table) : Listing!Group(q, table) = Listing!Group(r, table)
BY DEF Listing!Group, Listing!Same

\* Every group has one row that stands for it: the most severe, the latest of
\* these.
LEMMA SeverityTyped ==
    ASSUME NEW r
    PROVE  /\ Listing!Severity(r) \in 0..2
           /\ Listing!Severity(r) = 2 <=> r.status = "flagged"
BY DEF Listing!Severity

LEMMA OneRepresents ==
    ASSUME NEW table, Table(table), NEW r \in table
    PROVE  \E q \in Listing!Group(r, table) :
             /\ Listing!Represents(q, table)
             /\ Listing!Severity(r) <= Listing!Severity(q)
<1> DEFINE group == Listing!Group(r, table)
           Beats(x, y) == \/ Listing!Severity(x) > Listing!Severity(y)
                          \/ Listing!Severity(x) = Listing!Severity(y) /\ Listing!Before(y, x)
           R == {p \in group \X group : Beats(p[1], p[2])}
<1>1. \A x, y \in group : <<x, y>> \in R <=> Beats(x, y)
    OBVIOUS
<1>2. group \subseteq table /\ r \in group
    BY GroupIsClass
<1>3. IsFiniteSet(group)
    BY <1>2, FS_Subset DEF Table
<1>4. \A x \in group : Listing!Severity(x) \in Int
    BY SeverityTyped
<1> HIDE DEF R, group
<1>5. \A x, y \in group : x # y => Beats(x, y) \/ Beats(y, x)
    BY <1>2, <1>4, BeforeOrders
<1>6. ASSUME NEW x \in group, NEW y \in group, NEW z \in group, Beats(x, y), Beats(y, z)
      PROVE  Beats(x, z)
    <2>1. /\ Listing!Severity(x) \in Int /\ Listing!Severity(y) \in Int
          /\ Listing!Severity(z) \in Int
        BY <1>4
    <2>2. Listing!Before(z, y) /\ Listing!Before(y, x) => Listing!Before(z, x)
        BY <1>2, BeforeOrders
    <2> QED BY <1>6, <2>1, <2>2
<1> HIDE DEF Beats
<1>7. \E q \in group : \A y \in group \ {q} : <<q, y>> \in R
    BY <1>1, <1>2, <1>3, <1>5, <1>6, LeastElement
<1>8. PICK q \in group : \A y \in group \ {q} : Beats(q, y)
    BY <1>1, <1>7
<1>9. Listing!Group(q, table) = group
    BY <1>8, GroupIsClass DEF group
<1>10. Listing!Represents(q, table)
    <2>1. \A y \in Listing!Group(q, table) \ {q} :
              \/ Listing!Severity(q) > Listing!Severity(y)
              \/ Listing!Severity(q) = Listing!Severity(y) /\ Listing!Before(y, q)
        BY <1>8, <1>9, Zenon DEF Beats
    <2>2. \A x : Listing!Severity(x) \in Int
        BY SeverityTyped
    <2> HIDE DEF Beats
    <2> QED BY <2>1, <2>2 DEF Listing!Represents
<1>11. Listing!Severity(r) <= Listing!Severity(q)
    BY <1>2, <1>4, <1>8 DEF Beats
<1> QED BY <1>8, <1>10, <1>11 DEF group

LEMMA OnlyOneRepresents ==
    ASSUME NEW table, Table(table), NEW r \in Listing!Deduped(table), NEW q \in Listing!Deduped(table),
           Listing!Group(r, table) = Listing!Group(q, table)
    PROVE  r = q
<1>1. r \in table /\ q \in table /\ Listing!Represents(r, table) /\ Listing!Represents(q, table)
    BY DEF Listing!Deduped
<1>2. r \in Listing!Group(q, table) /\ q \in Listing!Group(r, table)
    BY <1>1, GroupIsClass
<1>3. SUFFICES ASSUME r # q PROVE FALSE
    OBVIOUS
<1>4. Listing!Severity(r) \in Int /\ Listing!Severity(q) \in Int
    BY SeverityTyped
<1>5. ~(Listing!Before(r, q) /\ Listing!Before(q, r))
    BY <1>1, BeforeOrders
<1> QED BY <1>1, <1>2, <1>3, <1>4, <1>5 DEF Listing!Represents

\* The sum of the occurrences: over any of the rows that are listed it is the
\* number of the rows that they stand for.
RowsOf(some, table) == {q \in table : \E r \in some : q \in Listing!Group(r, table)}

LEMMA RowsOfOneMore ==
    ASSUME NEW table, Table(table), NEW some \in SUBSET Listing!Deduped(table), NEW r \in some
    PROVE  Cardinality(RowsOf(some, table)) =
             Listing!Occurrences(r, table) + Cardinality(RowsOf(some \ {r}, table))
<1> DEFINE group == Listing!Group(r, table)
           others == RowsOf(some \ {r}, table)
<1>1. r \in table /\ some \subseteq table
    BY DEF Listing!Deduped
<1>2. group \subseteq table
    BY <1>1, GroupIsClass
<1>3. others \subseteq table
    BY DEF RowsOf
<1>4. group \cap others = {}
    <2>1. SUFFICES ASSUME NEW q \in group, NEW p \in some \ {r}, q \in Listing!Group(p, table)
                   PROVE  FALSE
        BY DEF RowsOf
    <2>2. Listing!Group(q, table) = Listing!Group(r, table)
        BY <1>1, <2>1, GroupIsClass
    <2>3. Listing!Group(q, table) = Listing!Group(p, table)
        BY <1>1, <2>1, GroupIsClass
    <2> QED BY <2>1, <2>2, <2>3, OnlyOneRepresents
<1>5. RowsOf(some, table) = group \cup others
    BY <1>2 DEF RowsOf
<1>6. IsFiniteSet(group) /\ IsFiniteSet(others) /\ IsFiniteSet({})
    BY <1>2, <1>3, FS_Subset, FS_EmptySet DEF Table
<1>7. Cardinality({}) = 0 /\ Cardinality(group) \in Nat /\ Cardinality(others) \in Nat
    BY <1>6, FS_EmptySet, FS_CardinalityType
<1>8. Listing!Occurrences(r, table) = Cardinality(group)
    BY SameCardinality DEF Listing!Occurrences
<1> HIDE DEF group, others
<1>9. Cardinality(group \cup others) = Cardinality(group) + Cardinality(others)
    BY <1>4, <1>6, <1>7, FS_Union
<1> QED BY <1>5, <1>8, <1>9 DEF others

\* The fold of MapThenSumSet is this function of the sets of listed rows: it
\* satisfies the equation of the fold, and a smallest set on which another
\* solution differed would have a smaller one.
LEMMA OccurrencesAddUp ==
    ASSUME NEW table, Table(table)
    PROVE  Listing!MapThenSumSet(LAMBDA r : Listing!Occurrences(r, table), Listing!Deduped(table))
             = Cardinality(table)
<1> DEFINE S == Listing!Deduped(table)
           C(T) == CHOOSE x \in T : TRUE
           F(r) == Listing!Occurrences(r, table)
           Fold(g) == [T \in SUBSET S |-> IF T = {} THEN 0 ELSE F(C(T)) + g[T \ {C(T)}]]
           G == [T \in SUBSET S |-> Cardinality(RowsOf(T, table))]
           g == CHOOSE h : h = Fold(h)
<1>1. S \subseteq table /\ IsFiniteSet(S)
    BY FS_Subset DEF Table, Listing!Deduped
<1>2. \A T \in SUBSET S : T # {} => C(T) \in T
    OBVIOUS
<1>3. Listing!MapThenSumSet(LAMBDA r : Listing!Occurrences(r, table), S) = g[S]
    BY DEF Listing!MapThenSumSet, Listing!MapThenFoldSet
<1> HIDE DEF C, F, S
<1>4. \A T \in SUBSET S : G[T] = IF T = {} THEN 0 ELSE F(C(T)) + G[T \ {C(T)}]
    <2>1. TAKE T \in SUBSET S
    <2>2. CASE T = {}
        <3>1. RowsOf(T, table) = {}
            BY <2>2 DEF RowsOf
        <3> QED BY <2>2, <3>1, FS_EmptySet
    <2>3. CASE T # {}
        <3>1. C(T) \in T /\ T \ {C(T)} \in SUBSET S
            BY <1>2, <2>3
        <3>2. Cardinality(RowsOf(T, table)) = F(C(T)) + Cardinality(RowsOf(T \ {C(T)}, table))
            BY <3>1, RowsOfOneMore DEF F, S
        <3> QED BY <2>3, <3>1, <3>2
    <2> QED BY <2>2, <2>3
<1>5. G = Fold(G)
    <2> HIDE DEF G
    <2>1. G = [T \in SUBSET S |-> G[T]]
        BY DEF G
    <2> QED BY <1>4, <2>1
<1>6. g = Fold(g)
    <2> HIDE DEF Fold, G
    <2> QED BY <1>5, Zenon
<1>7. \A T \in SUBSET S : g[T] = IF T = {} THEN 0 ELSE F(C(T)) + g[T \ {C(T)}]
    <2> HIDE DEF g
    <2> QED BY <1>6, Zenon
<1>8. \A T \in SUBSET S : g[T] = G[T]
  <2> DEFINE Wrong == {T \in SUBSET S : g[T] # G[T]}
             Smaller == StrictSubsetOrdering(S)
             Finite == FiniteSubsetsOf(S)
  <2> HIDE DEF g, G
  <2>1. SUFFICES ASSUME Wrong # {} PROVE FALSE
      OBVIOUS
  <2>2. IsWellFoundedOn(Smaller, Finite)
      BY FS_StrictSubsetOrderingWellFounded
  <2>3. Wrong \subseteq Finite
      BY <1>1, FS_Subset DEF FiniteSubsetsOf
  <2> HIDE DEF Smaller, Finite
  <2>4. PICK T \in Wrong : \A V \in Wrong : <<V, T>> \notin Smaller
      <3> HIDE DEF Wrong
      <3> QED BY <2>1, <2>2, <2>3, WFMin
  <2>5. CASE T = {}
      BY <2>4, <2>5, <1>4, <1>7
  <2>6. CASE T # {}
      <3>1. C(T) \in T
          BY <2>4, <2>6, <1>2
      <3>2. <<T \ {C(T)}, T>> \in Smaller
          BY <3>1, <2>4 DEF Smaller, StrictSubsetOrdering
      <3>3. g[T \ {C(T)}] = G[T \ {C(T)}]
          BY <3>2, <2>4
      <3> QED BY <3>3, <2>4, <2>6, <1>4, <1>7
  <2> QED BY <2>5, <2>6
<1>9. RowsOf(S, table) = table
    <2>1. ASSUME NEW r \in table PROVE \E q \in S : r \in Listing!Group(q, table)
        <3>1. PICK q \in Listing!Group(r, table) : Listing!Represents(q, table)
            BY OneRepresents
        <3>2. q \in S /\ r \in Listing!Group(q, table)
            BY <3>1, GroupIsClass DEF S, Listing!Deduped
        <3> QED BY <3>2
    <2> QED BY <2>1 DEF RowsOf
<1>10. g[S] = Cardinality(table)
    <2> HIDE DEF g
    <2> QED BY <1>8, <1>9
<1> QED BY <1>3, <1>10 DEF S

\* The tables that the queries read.
LEMMA ListInit ==
    ASSUME Listing!ListParameters, MaxPurges \in Nat, Listing!Init
    PROVE  Listing!TypeOK
<1>1. listPurge \in 0..listNow /\ listPurges \in 0..MaxPurges /\ listNow \in 0..MaxTime
    BY DEF Listing!Init, Listing!ListParameters
<1>2. /\ captured \in [Turns -> (-MaxDelay)..MaxTime \cup {None}]
      /\ expires \in [Turns -> Int] /\ enriched \in [Turns -> BOOLEAN]
      /\ log \in [Turns -> [verdict : Verdicts, at : 0..MaxTime] \cup {None}]
    BY DEF Listing!Init
<1>3. Listing!Prompts = {}
    BY DEF Listing!Init, Listing!Prompts
<1> QED BY <1>1, <1>2, <1>3 DEF Listing!TypeOK

LEMMA ListNext ==
    ASSUME Listing!ListParameters, MaxPurges \in Nat, Listing!TypeOK,
           [Listing!Next]_Listing!vars
    PROVE  Listing!TypeOK'
<1> USE DEF Listing!Prompts
<1>1. ASSUME NEW t \in Turns, Listing!Capture(t) PROVE Listing!TypeOK'
    <2>1. PICK delay \in 0..MaxDelay :
              /\ captured' = [captured EXCEPT ![t] = listNow - delay]
              /\ expires' = [expires EXCEPT ![t] = listNow - delay + NormalDays]
        BY <1>1 DEF Listing!Capture
    <2>2. listNow \in 0..MaxTime /\ captured \in [Turns -> (-MaxDelay)..MaxTime \cup {None}]
          /\ expires \in [Turns -> Int]
        BY DEF Listing!TypeOK
    <2>3. listNow - delay \in (-MaxDelay)..MaxTime /\ listNow - delay + NormalDays \in Int
          /\ (listNow - delay + NormalDays) - (listNow - delay) = NormalDays
        BY <2>1, <2>2 DEF Listing!ListParameters
    <2>4. captured' \in [Turns -> (-MaxDelay)..MaxTime \cup {None}] /\ expires' \in [Turns -> Int]
        BY <2>1, <2>2, <2>3
    <2>5. \A p \in Turns : captured'[p] # None => expires'[p] - captured'[p] \in {NormalDays, RiskDays}
        <3>1. TAKE p \in Turns
        <3>2. CASE p = t
            BY <2>1, <2>2, <2>3, <3>2
        <3>3. CASE p # t
            BY <2>1, <2>2, <3>3 DEF Listing!TypeOK
        <3> QED BY <3>2, <3>3
    <2>6. UNCHANGED <<enriched, log, listPurge, listPurges, listNow>>
        BY <1>1 DEF Listing!Capture
    <2> QED BY <2>4, <2>5, <2>6 DEF Listing!TypeOK
<1>2. ASSUME NEW t \in Turns, Listing!Moderate(t) PROVE Listing!TypeOK'
    <2>1. log' \in [Turns -> [verdict : Verdicts, at : 0..MaxTime] \cup {None}]
        <3>1. PICK v \in Verdicts : log' = [log EXCEPT ![t] = [verdict |-> v, at |-> listNow]]
            BY <1>2 DEF Listing!Moderate
        <3>2. [verdict |-> v, at |-> listNow] \in [verdict : Verdicts, at : 0..MaxTime]
            BY DEF Listing!TypeOK
        <3>3. log \in [Turns -> [verdict : Verdicts, at : 0..MaxTime] \cup {None}]
            BY DEF Listing!TypeOK
        <3> QED BY <3>1, <3>2, <3>3
    <2>2. UNCHANGED <<captured, expires, enriched, listPurge, listPurges, listNow>>
        BY <1>2 DEF Listing!Moderate
    <2> QED BY <2>1, <2>2 DEF Listing!TypeOK
<1>3. ASSUME NEW p \in Turns, Listing!Enrich(p) PROVE Listing!TypeOK'
    <2>1. PICK risky \in BOOLEAN : expires' = [expires EXCEPT ![p] = Listing!Deadline(p, risky)]
        BY <1>3 DEF Listing!Enrich
    <2>2. captured \in [Turns -> (-MaxDelay)..MaxTime \cup {None}] /\ expires \in [Turns -> Int]
        BY DEF Listing!TypeOK
    <2>3. captured[p] \in Int
        BY <1>3, <2>2 DEF Listing!Enrich, Listing!VisiblePrompts, Listing!ListParameters
    <2>4. /\ Listing!Deadline(p, risky) \in Int
          /\ Listing!Deadline(p, risky) - captured[p] \in {NormalDays, RiskDays}
        BY <2>3 DEF Listing!Deadline, Listing!Days, Listing!ListParameters
    <2>5. UNCHANGED <<captured, log, listPurge, listPurges, listNow>>
        BY <1>3 DEF Listing!Enrich
    <2>6. \A q \in Turns : captured[q] # None => expires'[q] - captured[q] \in {NormalDays, RiskDays}
        <3>1. TAKE q \in Turns
        <3>2. CASE q = p
            BY <2>1, <2>2, <2>4, <3>2
        <3>3. CASE q # p
            BY <2>1, <2>2, <3>3 DEF Listing!TypeOK
        <3> QED BY <3>2, <3>3
    <2>7. expires' \in [Turns -> Int]
        BY <2>1, <2>2, <2>4
    <2>8. enriched' \in [Turns -> BOOLEAN]
        BY <1>3 DEF Listing!Enrich, Listing!TypeOK
    <2> QED BY <2>5, <2>6, <2>7, <2>8 DEF Listing!TypeOK
<1>4. CASE Listing!Purge
    <2>1. listPurge' \in 0..listNow /\ listPurges' \in 0..MaxPurges
        BY <1>4 DEF Listing!Purge, Listing!TypeOK
    <2>2. UNCHANGED <<captured, expires, enriched, log, listNow>>
        BY <1>4 DEF Listing!Purge
    <2> QED BY <2>1, <2>2 DEF Listing!TypeOK
<1>5. CASE Listing!Tick
    <2>1. listNow' \in 0..MaxTime /\ listPurge \in 0..listNow'
        BY <1>5 DEF Listing!Tick, Listing!TypeOK, Listing!ListParameters
    <2>2. UNCHANGED <<captured, expires, enriched, log, listPurge, listPurges>>
        BY <1>5 DEF Listing!Tick
    <2> QED BY <2>1, <2>2 DEF Listing!TypeOK
<1>6. CASE UNCHANGED Listing!vars
    BY <1>6 DEF Listing!vars, Listing!TypeOK
<1> QED BY <1>1, <1>2, <1>3, <1>4, <1>5, <1>6 DEF Listing!Next

LEMMA TablesTyped ==
    ASSUME Listing!ListParameters, Listing!TypeOK
    PROVE  /\ \A t \in Listing!Prompts : /\ t \in Turns /\ captured[t] \in Int
                                         /\ captured[t] >= -MaxDelay
           /\ \A t \in Listing!Logs : /\ t \in Turns /\ log[t].verdict \in Verdicts
                                      /\ log[t].at \in Nat
           /\ \A S \in SUBSET Turns : IsFiniteSet(S)
<1>1. \A t \in Listing!Prompts : t \in Turns /\ captured[t] \in Int /\ captured[t] >= -MaxDelay
    BY DEF Listing!Prompts, Listing!TypeOK, Listing!ListParameters
<1>2. \A t \in Listing!Logs : t \in Turns /\ log[t].verdict \in Verdicts /\ log[t].at \in Nat
    BY DEF Listing!Logs, Listing!TypeOK, Listing!ListParameters
<1>3. IsFiniteSet(Turns)
    BY SameCardinality DEF Listing!ListParameters
<1>4. \A S \in SUBSET Turns : IsFiniteSet(S)
    BY <1>3, FS_Subset
<1> QED BY <1>1, <1>2, <1>4

\* The nearest of some turns is one of them.
LEMMA NearestIsOne ==
    ASSUME Listing!ListParameters, NEW S \in SUBSET Turns, NEW distance \in [S -> Int]
    PROVE  /\ Listing!Nearest(distance) \in S \cup {None}
           /\ S # {} => /\ Listing!Nearest(distance) \in S
                        /\ \A u \in S : distance[Listing!Nearest(distance)] <= distance[u]
<1> DEFINE R == {p \in S \X S : distance[p[1]] <= distance[p[2]]}
           near == {t \in S : \A u \in S : distance[t] <= distance[u]}
           Above == {p \in near \X near : p[1] > p[2]}
<1>1. SUFFICES ASSUME S # {}
              PROVE  /\ Listing!Nearest(distance) \in S
                     /\ \A u \in S : distance[Listing!Nearest(distance)] <= distance[u]
    BY DEF Listing!Nearest
<1>2. IsFiniteSet(S)
    <2>1. IsFiniteSet(Turns)
        BY SameCardinality DEF Listing!ListParameters
    <2> QED BY <2>1, FS_Subset
<1>3. \A x, y \in S : <<x, y>> \in R <=> distance[x] <= distance[y]
    OBVIOUS
<1>4. \A x \in S : distance[x] \in Int
    OBVIOUS
<1> HIDE DEF R
<1>5. \E x \in S : \A y \in S \ {x} : <<x, y>> \in R
    <2>1. \A x, y \in S : x # y => <<x, y>> \in R \/ <<y, x>> \in R
        BY <1>3, <1>4
    <2>2. \A x, y, z \in S : <<x, y>> \in R /\ <<y, z>> \in R => <<x, z>> \in R
        BY <1>3, <1>4
    <2> QED BY <1>1, <1>2, <2>1, <2>2, LeastElement
<1>6. near # {} /\ near \subseteq S /\ \A t \in near : t \in Int
    <2>1. \A x \in S : distance[x] <= distance[x]
        BY <1>4
    <2>2. PICK x \in S : \A y \in S \ {x} : <<x, y>> \in R
        BY <1>5
    <2>3. x \in near
        BY <1>3, <2>1, <2>2
    <2>4. \A t \in S : t \in Int
        BY DEF Listing!ListParameters
    <2> QED BY <2>3, <2>4
<1>7. IsFiniteSet(near)
    BY <1>2, <1>6, FS_Subset
<1>8. DOMAIN distance = S
    OBVIOUS
<1> HIDE DEF near
<1>9. \A x, y \in near : <<x, y>> \in Above <=> x > y
    OBVIOUS
<1> HIDE DEF Above
<1>10. \E x \in near : \A y \in near \ {x} : <<x, y>> \in Above
    <2>1. \A x, y \in near : x # y => <<x, y>> \in Above \/ <<y, x>> \in Above
        BY <1>6, <1>9
    <2>2. \A x, y, z \in near : <<x, y>> \in Above /\ <<y, z>> \in Above => <<x, z>> \in Above
        BY <1>6, <1>9
    <2>3. near # {}
        BY <1>6
    <2> QED BY <1>7, <2>1, <2>2, <2>3, LeastElement
<1>11. \E x \in near : \A y \in near : x >= y
    <2>1. PICK x \in near : \A y \in near \ {x} : <<x, y>> \in Above
        BY <1>10
    <2>2. \A y \in near \ {x} : x > y
        BY <1>9, <2>1
    <2>3. \A y \in near : x >= y
        BY <1>6, <2>1, <2>2
    <2> QED BY <2>1, <2>3
<1>12. Listing!Max(near) \in near
    BY <1>11 DEF Listing!Max
<1>13. Listing!Nearest(distance) = Listing!Max(near)
    BY <1>1, <1>8 DEF Listing!Nearest, near
<1> QED BY <1>6, <1>12, <1>13 DEF near

LEMMA JoinedIsCandidate ==
    ASSUME Listing!ListParameters, Listing!TypeOK, NEW l \in Listing!Logs
    PROVE  /\ Listing!Joined(l) \in Listing!Candidates(l) \cup {None}
           /\ \A p \in Listing!Candidates(l) :
                  /\ Listing!Joined(l) \in Listing!Candidates(l)
                  /\ Listing!Distance(Listing!Joined(l), l) <= Listing!Distance(p, l)
<1> DEFINE S == Listing!Candidates(l)
           distance == [p \in S |-> Listing!Distance(p, l)]
<1>1. \A p \in S : p \in Listing!Prompts /\ p \in Turns
    BY TablesTyped DEF Listing!Candidates, Listing!VisiblePrompts
<1>2. \A p \in S : Listing!Distance(p, l) \in Int
    BY <1>1, TablesTyped DEF Listing!Distance
<1> HIDE DEF S
<1>3. distance \in [S -> Int]
    BY <1>2
<1>4. /\ Listing!Nearest(distance) \in S \cup {None}
      /\ S # {} => /\ Listing!Nearest(distance) \in S
                   /\ \A u \in S : distance[Listing!Nearest(distance)] <= distance[u]
    BY <1>1, <1>3, NearestIsOne
<1>5. Listing!Joined(l) = Listing!Nearest(distance)
    BY DEF Listing!Joined, S
<1>6. \A p \in S : distance[p] = Listing!Distance(p, l)
    OBVIOUS
<1> HIDE DEF distance
<1> QED BY <1>4, <1>5, <1>6 DEF S

\* What a row of each half is.
LEMMA RowsAre ==
    ASSUME Listing!ListParameters, Listing!TypeOK, NEW start \in Int,
           NEW r \in Listing!Records(start)
    PROVE  \/ /\ r.source = "reviewed" /\ r.turn \in Listing!Logs
              /\ r = Listing!ReviewedRow(r.turn, Listing!Joined(r.turn))
              /\ r.at = log[r.turn].at /\ r.prompt = Listing!Joined(r.turn)
              /\ r \in Listing!Reviewed(start)
           \/ /\ r.source = "captured" /\ r.turn \in Listing!Prompts
              /\ r = Listing!CapturedRow(r.turn)
              /\ r.at = captured[r.turn] /\ r.prompt = r.turn
              /\ r \in Listing!Captured(start)
<1>1. CASE r \in Listing!Reviewed(start)
    <2>1. PICK l \in Listing!Logs : r = Listing!ReviewedRow(l, Listing!Joined(l))
        BY <1>1 DEF Listing!Reviewed, Listing!VisibleLogs
    <2> QED BY <1>1, <2>1 DEF Listing!ReviewedRow
<1>2. CASE r \in Listing!Captured(start)
    <2>1. PICK p \in Listing!VisiblePrompts : r = Listing!CapturedRow(p)
        BY <1>2 DEF Listing!Captured
    <2>2. p \in Listing!Prompts
        BY <2>1 DEF Listing!VisiblePrompts
    <2> QED BY <1>2, <2>1, <2>2 DEF Listing!CapturedRow
<1> QED BY <1>1, <1>2 DEF Listing!Records

LEMMA RecordsAreTable ==
    ASSUME Listing!ListParameters, Listing!TypeOK, NEW start \in Int
    PROVE  Table(Listing!Records(start))
<1> DEFINE rs == Listing!Records(start)
           key == [r \in rs |-> <<r.source, r.turn>>]
           Keys == {"reviewed", "captured"} \X Turns
<1>1. \A r \in rs : /\ r.at \in Int /\ r.turn \in Turns /\ r.turn \in Int
                    /\ r.source \in {"reviewed", "captured"}
    <2>1. \A t \in Turns : t \in Int
        BY DEF Listing!ListParameters
    <2>2. TAKE r \in rs
    <2>3. CASE r.source = "reviewed"
        BY <2>1, <2>3, RowsAre, TablesTyped
    <2>4. CASE r.source # "reviewed"
        BY <2>1, <2>4, RowsAre, TablesTyped
    <2> QED BY <2>3, <2>4
<1>2. \A r, q \in rs : r.source = q.source /\ r.turn = q.turn => r = q
    BY RowsAre
<1> HIDE DEF rs
<1>3. key \in Injection(rs, Keys)
    BY <1>1, <1>2 DEF Injection, IsInjective
<1>4. IsFiniteSet(Keys)
    <2>1. IsFiniteSet({"reviewed", "captured"})
        <3>1. IsFiniteSet({"reviewed"} \cup {"captured"})
            BY FS_Singleton, FS_AddElement
        <3> QED BY <3>1
    <2>2. IsFiniteSet(Turns)
        BY TablesTyped
    <2> QED BY <2>1, <2>2, FS_Product
<1>5. IsFiniteSet(rs)
    <2> HIDE DEF key, Keys
    <2> QED BY <1>3, <1>4, FS_Injection
<1> QED BY <1>1, <1>2, <1>5 DEF Table, rs

LEMMA WithinAlways ==
    ASSUME Listing!ListParameters, Listing!TypeOK, NEW start \in 0..listNow
    PROVE  /\ start \in Int /\ Listing!Always \in Int
           /\ Listing!Records(start) \subseteq Listing!Records(Listing!Always)
<1>1. start \in Int /\ Listing!Always \in Int /\ Listing!Always <= start
    BY DEF Listing!Always, Listing!ListParameters
<1>2. Listing!Reviewed(start) \subseteq Listing!Reviewed(Listing!Always)
    BY <1>1, TablesTyped DEF Listing!Reviewed, Listing!VisibleLogs
<1>3. Listing!Captured(start) \subseteq Listing!Captured(Listing!Always)
    BY <1>1, TablesTyped DEF Listing!Captured, Listing!VisiblePrompts
<1> QED BY <1>1, <1>2, <1>3 DEF Listing!Records

LEMMA AllStatuses ==
    ASSUME Listing!ListParameters, Listing!TypeOK, NEW start \in Int
    PROVE  Listing!List(start, Listing!Statuses) = Listing!Deduped(Listing!Records(start))
<1>1. \A r \in Listing!Records(start) : r.status \in Listing!Statuses
    <2>1. TAKE r \in Listing!Records(start)
    <2>2. CASE r.source = "reviewed"
        <3>1. r.turn \in Listing!Logs /\ r.status = Listing!Status(r.turn, Listing!Joined(r.turn))
            BY <2>2, RowsAre DEF Listing!ReviewedRow
        <3>2. log[r.turn].verdict \in {"clear", "error", "flagged"}
            BY <3>1, TablesTyped DEF Listing!ListParameters
        <3> QED BY <3>1, <3>2 DEF Listing!Status, Listing!Statuses
    <2>3. CASE r.source # "reviewed"
        BY <2>3, RowsAre DEF Listing!CapturedRow, Listing!Statuses
    <2> QED BY <2>2, <2>3
<1>2. {r \in Listing!Records(start) : r.status \in Listing!Statuses} = Listing!Records(start)
    BY <1>1
<1> QED BY <1>2 DEF Listing!List

\* What every state of the list's tables satisfies, for any query.
LEMMA ListInvariant ==
    ASSUME Listing!ListParameters, MaxPurges \in Nat
    PROVE  Listing!Spec => []Listing!TypeOK
<1>1. Listing!Init => Listing!TypeOK
    BY ListInit
<1>2. Listing!TypeOK /\ [Listing!Next]_Listing!vars => Listing!TypeOK'
    BY ListNext
<1> QED BY <1>1, <1>2, PTL DEF Listing!Spec

\* The two halves of the query never list one prompt twice over: the window of a
\* log in which its prompt is looked for is the mirror of the window in which a
\* prompt's log is missed (recordsCte in repository.ts; docs 006).
THEOREM EachListedOnce ==
    ASSUME Listing!ListParameters, MaxPurges \in Nat
    PROVE  Listing!Spec => []Listing!ListedOnce
<1>1. Listing!TypeOK => Listing!ListedOnce
  <2>1. SUFFICES ASSUME Listing!TypeOK, NEW c,
                        NEW r \in Listing!Session(c), NEW q \in Listing!Session(c),
                        r.source = "reviewed", q.source = "captured", r.prompt = q.prompt
                 PROVE  FALSE
      BY DEF Listing!ListedOnce
  <2>2. Listing!Always \in Int
      BY DEF Listing!Always, Listing!ListParameters
  <2> DEFINE l == r.turn
             p == q.turn
  <2>3. /\ r \in Listing!Records(Listing!Always) /\ q \in Listing!Records(Listing!Always)
        /\ r.prompt # None
      BY DEF Listing!Session
  <2>4. l \in Listing!Logs /\ r.prompt = Listing!Joined(l)
      BY <2>1, <2>2, <2>3, RowsAre
  <2>5. p \in Listing!Prompts /\ q.prompt = p /\ q \in Listing!Captured(Listing!Always)
      BY <2>1, <2>2, <2>3, RowsAre
  <2>6. p \in Listing!Candidates(l)
      BY <2>1, <2>3, <2>4, <2>5, JoinedIsCandidate
  <2>7. Connection[p] = Connection[l] /\ Listing!LogNear(p, l)
      <3>1. captured[p] \in Int /\ log[l].at \in Int
          BY <2>1, <2>4, <2>5, TablesTyped
      <3>2. Connection[p] = Connection[l] /\ Listing!PromptNear(p, l)
          BY <2>6 DEF Listing!Candidates
      <3> QED BY <3>1, <3>2 DEF Listing!PromptNear, Listing!LogNear, Listing!ListParameters
  <2>8. ~\E k \in Listing!Logs : Connection[p] = Connection[k] /\ Listing!LogNear(p, k)
      <3>1. PICK o \in Listing!VisiblePrompts :
                /\ q = Listing!CapturedRow(o)
                /\ ~\E k \in Listing!Logs : Connection[o] = Connection[k] /\ Listing!LogNear(o, k)
          BY <2>5 DEF Listing!Captured
      <3> QED BY <3>1 DEF Listing!CapturedRow
  <2> QED BY <2>4, <2>7, <2>8
<1> QED BY <1>1, ListInvariant, PTL

\* Merging never hides a verdict: a flagged row is in a group that a flagged row
\* stands for, whatever repeats came after it (dedupedRecordsCte; docs 006).
THEOREM RiskStaysShown ==
    ASSUME Listing!ListParameters, MaxPurges \in Nat
    PROVE  Listing!Spec => []Listing!RiskShown
<1>1. Listing!TypeOK => Listing!RiskShown
  <2>1. SUFFICES ASSUME Listing!TypeOK, NEW start \in 0..listNow,
                        NEW r \in Listing!Records(start), r.status = "flagged"
                 PROVE  \E q \in Listing!Group(r, Listing!Records(start)) :
                            /\ q \in Listing!List(start, Listing!Statuses)
                            /\ q.status = "flagged"
      BY DEF Listing!RiskShown
  <2> DEFINE table == Listing!Records(start)
  <2>2. start \in Int
      BY <2>1, WithinAlways
  <2>3. Table(table)
      BY <2>1, <2>2, RecordsAreTable
  <2>4. PICK q \in Listing!Group(r, table) :
            Listing!Represents(q, table) /\ Listing!Severity(r) <= Listing!Severity(q)
      BY <2>1, <2>3, OneRepresents
  <2>5. q \in table
      BY <2>1, <2>4, GroupIsClass
  <2>6. q.status = "flagged"
      <3>1. Listing!Severity(r) = 2 /\ Listing!Severity(q) \in 0..2
          BY <2>1, SeverityTyped
      <3>2. Listing!Severity(q) = 2
          BY <2>4, <3>1
      <3> QED BY <3>2, SeverityTyped
  <2>7. q \in Listing!List(start, Listing!Statuses)
      BY <2>1, <2>2, <2>4, <2>5, AllStatuses DEF Listing!Deduped
  <2> QED BY <2>4, <2>6, <2>7
<1> QED BY <1>1, ListInvariant, PTL

\* Calls that repeat within the gap are merged, however long their chain is: rows
\* of different groups are farther apart (dedupedRecordsCte; docs 006).
THEOREM RepeatsAreMerged ==
    ASSUME Listing!ListParameters, MaxPurges \in Nat
    PROVE  Listing!Spec => []Listing!RepeatsMerged
<1>1. Listing!TypeOK => Listing!RepeatsMerged
  <2>1. SUFFICES ASSUME Listing!TypeOK PROVE Listing!RepeatsMerged
      OBVIOUS
  <2>2. Listing!Always \in Int
      BY DEF Listing!Always, Listing!ListParameters
  <2>3. Table(Listing!Records(Listing!Always))
      BY <2>1, <2>2, RecordsAreTable
  <2> QED BY <2>3, Apart DEF Listing!RepeatsMerged
<1> QED BY <1>1, ListInvariant, PTL

\* No row of the range is counted twice and none is left out of the counts: the
\* occurrences of the listed records add up to the rows they stand for
\* (dedupedRecordsCte; docs 006).
THEOREM RepeatsAreCounted ==
    ASSUME Listing!ListParameters, MaxPurges \in Nat
    PROVE  Listing!Spec => []Listing!RepeatsCounted
<1>1. Listing!TypeOK => Listing!RepeatsCounted
  <2>1. SUFFICES ASSUME Listing!TypeOK, NEW start \in 0..listNow
                 PROVE  LET table == Listing!Records(start)
                        IN  Listing!MapThenSumSet(LAMBDA r : Listing!Occurrences(r, table),
                                                  Listing!List(start, Listing!Statuses))
                                = Listing!Cardinality(table)
      BY DEF Listing!RepeatsCounted
  <2> DEFINE table == Listing!Records(start)
  <2>2. start \in Int
      BY <2>1, WithinAlways
  <2>3. Table(table)
      BY <2>1, <2>2, RecordsAreTable
  <2>4. Listing!List(start, Listing!Statuses) = Listing!Deduped(table)
      BY <2>1, <2>2, AllStatuses
  <2>5. Listing!MapThenSumSet(LAMBDA r : Listing!Occurrences(r, table), Listing!Deduped(table))
          = Cardinality(table)
      BY <2>3, OccurrencesAddUp
  <2>6. Listing!Cardinality(table) = Cardinality(table)
      BY SameCardinality
  <2> HIDE DEF table
  <2> QED BY <2>4, <2>5, <2>6 DEF table
<1> QED BY <1>1, ListInvariant, PTL

\* A prompt that may be seen is in a row, waiting or reviewed, unless a log of its
\* connection is close to it that is hidden itself, or that stands with a prompt
\* which is no farther from it: the two halves of the query look through the same
\* window, one from the prompt and one from the log (recordsCte; docs 006).
THEOREM NoneIsLost ==
    ASSUME Listing!ListParameters, MaxPurges \in Nat
    PROVE  Listing!Spec => []Listing!NoneLost
<1>1. Listing!TypeOK => Listing!NoneLost
  <2>1. SUFFICES ASSUME Listing!TypeOK, NEW p \in Listing!VisiblePrompts,
                        ~\E r \in Listing!Records(Listing!Always) : r.prompt = p
                 PROVE  \E l \in Listing!Logs :
                            /\ Connection[l] = Connection[p] /\ Listing!LogNear(p, l)
                            /\ \/ l \notin Listing!VisibleLogs
                               \/ /\ Listing!Joined(l) # None
                                  /\ Listing!Distance(Listing!Joined(l), l)
                                       <= Listing!Distance(p, l)
      BY DEF Listing!NoneLost
  <2>2. p \in Listing!Prompts /\ captured[p] \in Int /\ captured[p] >= Listing!Always
      BY <2>1, TablesTyped DEF Listing!VisiblePrompts, Listing!Always
  <2>3. PICK l \in Listing!Logs : Connection[p] = Connection[l] /\ Listing!LogNear(p, l)
    <3>1. SUFFICES ASSUME ~\E l \in Listing!Logs : /\ Connection[p] = Connection[l]
                                                   /\ Listing!LogNear(p, l)
                   PROVE  FALSE
        OBVIOUS
    <3>2. Listing!CapturedRow(p) \in Listing!Captured(Listing!Always)
        BY <2>1, <2>2, <3>1 DEF Listing!Captured
    <3> QED BY <2>1, <3>2 DEF Listing!CapturedRow, Listing!Records
  <2>4. p \in Listing!Candidates(l)
    <3>1. log[l].at \in Int
        BY <2>1, TablesTyped
    <3>2. Listing!PromptNear(p, l)
        BY <2>2, <2>3, <3>1 DEF Listing!PromptNear, Listing!LogNear, Listing!ListParameters
    <3> QED BY <2>1, <2>3, <3>2 DEF Listing!Candidates
  <2>5. Listing!Joined(l) \in Listing!Candidates(l)
        /\ Listing!Distance(Listing!Joined(l), l) <= Listing!Distance(p, l)
      BY <2>1, <2>4, JoinedIsCandidate
  <2>6. Listing!Joined(l) # None
      BY <2>1, <2>5, TablesTyped DEF Listing!Candidates, Listing!VisiblePrompts,
         Listing!ListParameters
  <2> QED BY <2>3, <2>5, <2>6
<1> QED BY <1>1, ListInvariant, PTL

\* The detail of a listed record is the record that was listed, though the list
\* restricts both tables in time and the detail does not (detail in repository.ts).
THEOREM DetailAsListed ==
    ASSUME Listing!ListParameters, MaxPurges \in Nat
    PROVE  Listing!Spec => []Listing!DetailIsListed
<1>1. Listing!TypeOK => Listing!DetailIsListed
  <2>1. SUFFICES ASSUME Listing!TypeOK, NEW start \in 0..listNow,
                        NEW r \in Listing!List(start, Listing!Statuses)
                 PROVE  Listing!Detail(r.source, r.turn) = {r}
      BY DEF Listing!DetailIsListed
  <2>2. /\ start \in Int /\ Listing!Always \in Int
        /\ Listing!Records(start) \subseteq Listing!Records(Listing!Always)
      BY <2>1, WithinAlways
  <2>3. r \in Listing!Records(Listing!Always)
      BY <2>1, <2>2, AllStatuses DEF Listing!Deduped
  <2>4. Table(Listing!Records(Listing!Always))
      BY <2>1, <2>2, RecordsAreTable
  <2> QED BY <2>3, <2>4 DEF Listing!Detail, Table
<1> QED BY <1>1, ListInvariant, PTL
=============================================================================
