------------------------------ MODULE MCServices ------------------------------
(* The services beside Sub2API share neither state nor calls: the prompt audit, *)
(* its list and its parser, the policy of the request limits and the gate.  One *)
(* run explores them one after the other: part names the component whose steps  *)
(* are taken, and the others stay at their initial state.  The gate is extended *)
(* and keeps its names, the others are instances.                               *)
EXTENDS RequestGate, TLC

VARIABLES
    part,
    queue, queuedBytes, activeWriters, step, draft, rows, files, logged,    \* PromptAudit
    acknowledged, deleter, retention, purgeBefore, erased, deleted, unlinked, now,
    purges, auditFailures, auditCrashes,
    captured, expires, enriched, log, listPurge, listPurges, listNow,       \* PromptList
    request, answer, record,                                                \* PromptParser
    policy, saveQueue, saveStage, recorded, data, polled, edited, answers,  \* RequestLimits
    saves, saveFailures, saveCrashes

-----------------------------------------------------------------------------
(* The audit: a mirrored prompt and one of a WebSocket, both with an image,     *)
(* while two deletions and changes of the retention go on; then one prompt that *)
(* is sent twice, with failures, a crash and two purges; then a full queue.     *)

Message == {"w1"}
Mirror == {"h1"}
Mirrors == {"h1", "h2", "h3"}
Both == Message \cup Mirror
BothZero == [p \in Both |-> 0]
BothOne == [p \in Both |-> 1]
MessageZero == [p \in Message |-> 0]
MessageOne == [p \in Message |-> 1]
MirrorsZero == [p \in Mirrors |-> 0]
MirrorsOne == [p \in Mirrors |-> 1]
MirrorsTwo == [p \in Mirrors |-> 2]
OneDeleter == {"d1"}
TwoDeleters == {"d1", "d2"}
Fixed == {<<1, 2>>}
Long == {<<3, 3>>}
Weeks == Fixed \cup Long

Deleting == INSTANCE PromptAudit WITH
    Prompts <- Both, Mirrored <- Mirror, Risky <- Mirror,
    CapturedAt <- BothZero, Images <- BothOne,
    Bytes <- BothOne, Deleters <- TwoDeleters,
    Retentions <- Weeks, MaxQueueSize <- 1, MaxQueueBytes <- 1, Writers <- 2,
    MaxAttempts <- 1, MaxDay <- 3, MaxPurges <- 0, MaxFailures <- 0, MaxCrashes <- 0,
    failures <- auditFailures, crashes <- auditCrashes

Purging == INSTANCE PromptAudit WITH
    Prompts <- Message, Mirrored <- {}, Risky <- {},
    CapturedAt <- MessageZero, Images <- MessageOne,
    Bytes <- MessageOne, Deleters <- TwoDeleters,
    Retentions <- Long, MaxQueueSize <- 1, MaxQueueBytes <- 1, Writers <- 2,
    MaxAttempts <- 2, MaxDay <- 1, MaxPurges <- 2, MaxFailures <- 1, MaxCrashes <- 1,
    failures <- auditFailures, crashes <- auditCrashes

Mirroring == INSTANCE PromptAudit WITH
    Prompts <- Mirrors, Mirrored <- Mirrors, Risky <- {},
    CapturedAt <- MirrorsZero, Images <- MirrorsTwo,
    Bytes <- MirrorsOne, Deleters <- OneDeleter,
    Retentions <- Fixed, MaxQueueSize <- 1, MaxQueueBytes <- 1, Writers <- 2,
    MaxAttempts <- 1, MaxDay <- 2, MaxPurges <- 0, MaxFailures <- 1, MaxCrashes <- 0,
    failures <- auditFailures, crashes <- auditCrashes

-----------------------------------------------------------------------------
(* The list: three turns of one connection, the second a continuation; then     *)
(* three repeats of one tool result on two connections.                         *)

Turns == 1..3
Mixed == <<"user", "tool", "user">>
Calls == <<"tool", "tool", "tool">>
Alternating == <<"same", "other", "same">>
Same == <<"same", "same", "same">>
OneConnection == <<"c", "c", "c">>
TwoConnections == <<"c", "d", "d">>
Clear == {"clear"}
Flagged == {"flagged"}

Turning == INSTANCE PromptList WITH
    Turns <- Turns, Connection <- OneConnection,
    Kind <- Mixed, Content <- Alternating,
    JoinBack <- 2, JoinAhead <- 1, DuplicateGap <- 1, NormalDays <- 3, RiskDays <- 5,
    Verdicts <- Clear, MaxDelay <- 0, MaxPurges <- 1, MaxTime <- 2,
    purgeBefore <- listPurge, purges <- listPurges, now <- listNow

Repeating == INSTANCE PromptList WITH
    Turns <- Turns, Connection <- TwoConnections,
    Kind <- Calls, Content <- Same,
    JoinBack <- 1, JoinAhead <- 1, DuplicateGap <- 1, NormalDays <- 3, RiskDays <- 5,
    Verdicts <- Flagged, MaxDelay <- 0, MaxPurges <- 0, MaxTime <- 2,
    purgeBefore <- listPurge, purges <- listPurges, now <- listNow

-----------------------------------------------------------------------------
(* The parser: all shapes of a last item, and all ways the request around it is *)
(* wrong.                                                                       *)

Texts == {<<"a">>, <<"a", "key1", "key2">>, <<"a", "a", "a", "key1", "key2", "a">>,
          <<"a", "system-reminder">>, <<"blob">>, <<>>}
Image(declared, actual, bytes, hash) ==
    [declared |-> declared, actual |-> actual, bytes |-> bytes, hash |-> hash]
SomeImages == {Image("png", "png", 2, "h1"), Image("jpeg", "jpeg", 3, "h2"),
               Image("gif", "gif", 1, "h3"), Image("png", "gif", 1, "h4"),
               Image("webp", "webp", 4, "h5")}

Part(type, text, image) == [type |-> type, text |-> text, image |-> image]
TextParts == {Part("input_text", t, None) : t \in Texts} \cup {Part("reasoning", <<"a">>, None)}
ImageParts == {Part("input_image", <<>>, i) : i \in SomeImages}
PartLists == {<<>>} \cup {<<p>> : p \in TextParts} \cup {<<p, q, r>> : p, q, r \in ImageParts}
                \cup {<<p, q>> : p \in TextParts, q \in ImageParts}

Item(role, type, text, image, parts) ==
    [role |-> role, type |-> type, text |-> text, image |-> image, parts |-> parts]
Items ==
    {Item(role, "message", <<>>, None, parts) :
        role \in {"user", "assistant", "developer", "tool"}, parts \in PartLists}
    \cup {Item(role, type, text, None, <<>>) :
        role \in {"", "user"}, type \in {"function_call", "function_call_output", "mcp_call", "input_text", "text", ""},
        text \in Texts}
    \cup {Item("", "", <<>>, None, <<p>>) : p \in ImageParts}
    \cup {Item("", "input_image", <<>>, i, <<>>) : i \in SomeImages}

Old == Item("user", "message", <<>>, None, <<Part("input_text", <<"old">>, None),
                                             Part("input_image", <<>>, Image("png", "png", 1, "h9"))>>)
Bodies ==
    {[string |-> None, items |-> <<Old, item>>] : item \in Items}
    \cup {[string |-> t, items |-> <<>>] : t \in Texts}
    \cup {[string |-> None, items |-> <<>>]}

ManyRequests ==
    {[endpoint |-> e, secret |-> TRUE, declared |-> 1, named |-> TRUE, json |-> TRUE,
      dated |-> TRUE, message |-> [type |-> "response.create", body |-> b]] :
        e \in {"http", "ws"}, b \in Bodies}
    \cup [endpoint : {"http", "ws"}, secret : BOOLEAN, declared : {None, 1, 2},
          named : BOOLEAN, json : BOOLEAN, dated : BOOLEAN,
          message : {[type |-> t, body |-> [string |-> <<"a">>, items |-> <<>>]] :
                        t \in {"response.append", "response.cancel"}}]
AnyRequest == CHOOSE r \in ManyRequests : TRUE

Parsing == INSTANCE PromptParser WITH
    Requests <- ManyRequests, MaxBody <- 1, MaxCharacters <- 4, MaxImages <- 2,
    MaxImageBytes <- 3, MaxTotalBytes <- 4

-----------------------------------------------------------------------------
(* The limits: two panels and two settings.  The gate: two large requests and a *)
(* socket of two users, one of whom has an allowance of its own, under two      *)
(* policies.                                                                    *)

Panels == {"p1", "p2"}
Settings == {"s1", "s2"}

Limits == INSTANCE RequestLimits WITH
    Panels <- Panels, Settings <- Settings, InitialSettings <- "s1",
    MaxSaves <- 2, MaxFailures <- 1, MaxCrashes <- 1,
    queue <- saveQueue, stage <- saveStage, draft <- edited,
    failures <- saveFailures, crashes <- saveCrashes

Wide == [default |-> 2, overrides |-> ("u" :> 3), threshold |-> 1, concurrent |-> 2]
Small == [default |-> 3, overrides |-> ("u" :> 1), threshold |-> 2, concurrent |-> 1]

Arriving == {"r1", "r2"}
Socket == {"c1"}
Streaming == {"r1"}
Declaring == {"r2"}
UserOf == [r1 |-> "u", r2 |-> "v", c1 |-> "u"]
BodyOf == [r1 |-> 2, r2 |-> 2]
SomePolicies == {Wide, Small}

\* What the components assume of their parameters.
ASSUME ServiceParameters ==
    /\ Deleting!AuditParameters /\ Purging!AuditParameters /\ Mirroring!AuditParameters
    /\ Purging!NoneIsNoRow
    /\ Turning!ListParameters /\ Repeating!ListParameters
    /\ Limits!LimitsParameters /\ GateParameters

-----------------------------------------------------------------------------
auditVars == <<queue, queuedBytes, activeWriters, step, draft, rows, files, logged,
               acknowledged, deleter, retention, purgeBefore, erased, deleted, unlinked, now,
               purges, auditFailures, auditCrashes>>
listVars == <<captured, expires, enriched, log, listPurge, listPurges, listNow>>
parserVars == <<request, answer, record>>
limitsVars == <<policy, saveQueue, saveStage, recorded, data, polled, edited, answers,
                saves, saveFailures, saveCrashes>>
serviceVars == <<part, auditVars, listVars, parserVars, limitsVars, vars>>

Audits == {"deleting", "purging", "mirroring"}
Lists == {"turning", "repeating"}

ServiceInit ==
    /\ part \in Audits \cup Lists \cup {"parsing", "limits", "gate"}
    /\ CASE part = "purging" -> Purging!Init
         [] part = "mirroring" -> Mirroring!Init
         [] part = "deleting" -> Deleting!Init
         [] OTHER -> Purging!Init
    /\ Turning!Init
    /\ Parsing!Init /\ (part # "parsing" => request = AnyRequest)
    /\ Limits!Init
    /\ Init /\ (part # "gate" => policies = <<Wide>>)

\* A step of one part; the components of the others do not move.
Alone(p, Step) ==
    /\ part = p /\ Step /\ UNCHANGED part
    /\ p \notin Audits => UNCHANGED auditVars
    /\ p \notin Lists => UNCHANGED listVars
    /\ p # "parsing" => UNCHANGED parserVars
    /\ p # "limits" => UNCHANGED limitsVars
    /\ p # "gate" => UNCHANGED vars

ServiceNext ==
    \/ Alone("deleting", Deleting!Next) \/ Alone("purging", Purging!Next)
    \/ Alone("mirroring", Mirroring!Next)
    \/ Alone("turning", Turning!Next) \/ Alone("repeating", Repeating!Next)
    \/ Alone("parsing", Parsing!Next)
    \/ Alone("limits", Limits!Next) \/ Alone("gate", Next)

Services == ServiceInit /\ [][ServiceNext]_serviceVars

-----------------------------------------------------------------------------
(* Properties: those of the gate are its own, the others joined by component.   *)

TypesOK ==
    /\ part = "deleting" => Deleting!TypeOK
    /\ part = "purging" => Purging!TypeOK
    /\ part = "mirroring" => Mirroring!TypeOK
    /\ part = "turning" => Turning!TypeOK
    /\ part = "repeating" => Repeating!TypeOK
    /\ part = "parsing" => Parsing!TypeOK
    /\ part = "limits" => Limits!TypeOK
    /\ TypeOK

\* What was acknowledged was committed, and no prompt twice; an insert that
\* failed leaves no image, the queue's counters are those of what waits, and a
\* listed record has all its images (service.ts, repository.ts; docs 006): while
\* nothing fails until its deletion, with failures and restarts until a deletion
\* has begun to remove them, if its insert did not end with an error.
RecordsComplete ==
    /\ part = "deleting" => Deleting!ImagesReadable /\ Deleting!AcknowledgedIsRecorded
    /\ part = "purging" => /\ Purging!AcknowledgedIsRecorded /\ Purging!RecordedOnce
                           /\ Purging!ImagesKept
    /\ part = "mirroring" => /\ Mirroring!FailedInsertLeavesNoFile /\ Mirroring!QueueCounted
                             /\ Mirroring!ImagesKept

\* What a purge covered is never listed again, also when the outbox delivers it
\* later or purges overtake each other (repository.ts; docs 006).
PurgedStaysHidden == part = "purging" => Purging!PurgedStaysHidden

\* A prompt is in a row unless a log close to it is hidden or stands with one no
\* farther away, and it is not waiting in one row while it is reviewed in
\* another; flagged rows are shown, exactly the repeats within five minutes are
\* merged, each row is counted once, and the listed rows open (repository.ts;
\* docs 006).
ListFaithful ==
    /\ part = "turning" => Turning!NoneLost /\ Turning!ListedOnce /\ Turning!DetailIsListed
    /\ part = "repeating" => /\ Repeating!RiskShown /\ Repeating!RepeatsMerged
                             /\ Repeating!RepeatsCounted

\* Only the latest input is recorded, within its limits and without credentials,
\* and exactly the user's is reviewed, all of it (parser.ts; docs 006).
CaptureWithinRules == part = "parsing" =>
    /\ Parsing!OnlyLatestInput /\ Parsing!UserInputReviewed
    /\ Parsing!NoCredentialStored /\ Parsing!ImagesBounded /\ Parsing!OversizeSkipped

\* A panel replaces only the policy that its administrator saw, every revision
\* is a change, and every audit record names one (policy.ts, routes.ts; docs 012).
NoLostUpdate ==
    /\ Limits!NoLostUpdate /\ Limits!ChangesAreReal
    /\ [](part = "limits" => Limits!RecordsAreChanges)
=============================================================================
