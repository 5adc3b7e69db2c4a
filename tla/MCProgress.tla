------------------------------ MODULE MCProgress ------------------------------
(* What must happen in the end: in the gate, the panel of the limits, the       *)
(* scheduler, the runtime manager, the audit and the proxy cache; and the browser: *)
(* its session, the dialogs and the confirmations.  One run explores them one   *)
(* after the other: part names the component whose steps are taken, and the     *)
(* others stay at their initial state.  The session is extended and keeps its    *)
(* names, the others are instances.                                             *)
EXTENDS Session, TLC

CONSTANTS None, Root, Body, Nobody

VARIABLES
    part,
    policies, arrived, stage, identity, held, active, spool, gone,          \* RequestGate
    response, upstream, gateFailures, gateCrashes,
    policy, saveQueue, saveStage, recorded, data, polled, edited, answers,  \* RequestLimits
    panelSaves, panelFailures, panelCrashes,
    up, doomed, broken, file, config, timer, orphans, running, run, ending, \* Scheduler
    saves, saving, answered, sent, period, limits, userTimer, userOrphans,
    userQueue, pending, manual, turns, failures, crashes,
    compose, container, job, jobFile, backup, step, overlapped, version,    \* RuntimeControl
    edits, raced, jobs, callFailures, saveFailures, managerCrashes,
    queue, queuedBytes, activeWriters, inserting, unborn, rows, files,      \* PromptAudit
    logged, acknowledged, deleter, retention, purgeBefore, erased, deleted, unlinked,
    now, purges, auditFailures, auditCrashes,
    accounts, configSaves, key, value, age, refreshing, asked, shown,       \* InfrastructureCache
    stack, inert, overflow, focus, below, saved, trigger, closing, busy,    \* Dialogs
    target, targetClosing, typed, status, variable, inFlight, observed,     \* Confirmation
    requests

-----------------------------------------------------------------------------
(* A large request and a socket of a user with an allowance, a failure and a    *)
(* crash; a panel whose answers overtake each other or are lost; a proxy cache  *)
(* of three sets of accounts.                                                   *)

Request == {"r1"}
Socket == {"c1"}
UserOf == [r1 |-> "u", c1 |-> "u"]
BodyOf == [r1 |-> 2]
SomePolicies == {[default |-> 2, overrides |-> ("u" :> 3), threshold |-> 1, concurrent |-> 2],
                 [default |-> 3, overrides |-> ("u" :> 1), threshold |-> 2, concurrent |-> 1]}

Gate == INSTANCE RequestGate WITH
    Requests <- Request, Sockets <- Socket, User <- UserOf, Body <- BodyOf,
    Declared <- {}, Streams <- Request, Policies <- SomePolicies, MaxPolicies <- 2,
    MaxFailures <- 1, MaxCrashes <- 1, failures <- gateFailures, crashes <- gateCrashes

Panels == {"p1", "p2"}
Settings == {"s1", "s2"}

Panel == INSTANCE RequestLimits WITH
    Panels <- Panels, Settings <- Settings, InitialSettings <- "s1",
    MaxSaves <- 2, MaxFailures <- 0, MaxCrashes <- 0,
    queue <- saveQueue, stage <- saveStage, draft <- edited, saves <- panelSaves,
    failures <- panelFailures, crashes <- panelCrashes

AccountSets == {"a", "b", "c"}

Proxies == INSTANCE InfrastructureCache WITH
    MaxAge <- 2, MaxSaves <- 3, saves <- configSaves, pending <- refreshing, polled <- asked

-----------------------------------------------------------------------------
(* The user limits with an exempt user, and two jobs with a store that breaks;  *)
(* a task of the runtime manager that is cut off twice.                         *)

TwoJobs == {"reset", "capacity"}
TwoUsers == {"u", "x"}
Spared == {"x"}

Peak == INSTANCE Scheduler WITH
    Kinds <- {}, Users <- TwoUsers, Exempt <- Spared, MaxSaves <- 1, MaxManual <- 1,
    MaxTurns <- 1, MaxFailures <- 1, MaxCrashes <- 1, MaxOrphans <- 2

Storing == INSTANCE Scheduler WITH
    Kinds <- TwoJobs, Users <- {}, Exempt <- {}, MaxSaves <- 0, MaxManual <- 2,
    MaxTurns <- 0, MaxFailures <- 1, MaxCrashes <- 1, MaxOrphans <- 2

TwoValues == {1, 2}
OneValue == {1}

Runtime == INSTANCE RuntimeControl WITH
    Connections <- TwoValues, Memory <- OneValue, Old <- "old", New <- "new",
    MaxJobs <- 1, MaxEdits <- 0, MaxFailures <- 1, MaxSaveFailures <- 0, MaxCrashes <- 2,
    failures <- callFailures, crashes <- managerCrashes

\* A flagged message of two images, a deletion that fails and a crash.
Message == {"w1"}
DayZero == [w1 |-> 0]
OneByte == [w1 |-> 1]
TwoImages == [w1 |-> 2]
OneRetention == {<<1, 2>>}
OneDeleter == {"d1"}

Audit == INSTANCE PromptAudit WITH
    Prompts <- Message, Mirrored <- {}, Risky <- Message, CapturedAt <- DayZero,
    Images <- TwoImages, Bytes <- OneByte, Deleters <- OneDeleter,
    Retentions <- OneRetention, MaxQueueSize <- 1, MaxQueueBytes <- 1, Writers <- 2,
    MaxAttempts <- 1, MaxDay <- 3, MaxPurges <- 0, MaxFailures <- 1, MaxCrashes <- 1,
    step <- inserting, draft <- unborn, failures <- auditFailures, crashes <- auditCrashes

-----------------------------------------------------------------------------
(* A browser with one request at a time; dialogs that are removed together or   *)
(* one after the other; confirmations with and without an animation.            *)

SomeOffers == {{}, {"refresh", "expiry"}}

Layers == INSTANCE Dialogs WITH Together <- TRUE
Singles == INSTANCE Dialogs WITH Together <- FALSE

UsersOrAll == {"u1", "u2", "all"}
Purges == {"all", "before"}
OnlyAll == {"all"}

Animated == INSTANCE Confirmation WITH
    Targets <- UsersOrAll, Typed <- OnlyAll, Exclusive <- {}, ReducedMotion <- FALSE,
    MaxSent <- 3, closing <- targetClosing, value <- typed, sent <- requests

Still == INSTANCE Confirmation WITH
    Targets <- Purges, Typed <- OnlyAll, Exclusive <- OnlyAll, ReducedMotion <- TRUE,
    MaxSent <- 5, closing <- targetClosing, value <- typed, sent <- requests

\* What the components assume of their parameters.
ASSUME ProgressParameters ==
    /\ Gate!GateParameters /\ Panel!LimitsParameters
    /\ Peak!SchedulerParameters /\ Storing!SchedulerParameters
    /\ Audit!AuditParameters /\ SessionParameters
    /\ Layers!DialogParameters /\ Singles!DialogParameters
    /\ Animated!ConfirmationParameters /\ Still!ConfirmationParameters
    /\ Runtime!RuntimeParameters

-----------------------------------------------------------------------------
gateVars == <<policies, arrived, stage, identity, held, active, spool, gone,
              response, upstream, gateFailures, gateCrashes>>
panelVars == <<policy, saveQueue, saveStage, recorded, data, polled, edited, answers,
               panelSaves, panelFailures, panelCrashes>>
schedulerVars == <<up, doomed, broken, file, config, timer, orphans, running, run, ending,
                   saves, saving, answered, sent, period, limits, userTimer, userOrphans,
                   userQueue, pending, manual, turns, failures, crashes>>
runtimeVars == <<compose, container, job, jobFile, backup, step, overlapped, version,
                 edits, raced, jobs, callFailures, saveFailures, managerCrashes>>
auditVars == <<queue, queuedBytes, activeWriters, inserting, unborn, rows, files, logged,
               acknowledged, deleter, retention, purgeBefore, erased, deleted, unlinked, now,
               purges, auditFailures, auditCrashes>>
proxyVars == <<accounts, configSaves, key, value, age, refreshing, asked, shown>>
dialogVars == <<stack, inert, overflow, focus, below, saved, trigger, closing, busy>>
confirmVars == <<target, targetClosing, typed, status, variable, inFlight, observed, requests>>
progressVars == <<part, gateVars, panelVars, schedulerVars, runtimeVars, auditVars, proxyVars,
                  vars, dialogVars, confirmVars>>

Schedulers == {"peak", "storing"}
Modals == {"layers", "singles"}
Confirmations == {"animated", "still"}
Others == {"gate", "panel", "runtime", "audit", "proxies", "browser"}

ProgressInit ==
    /\ part \in Schedulers \cup Modals \cup Confirmations \cup Others
    /\ Gate!Init /\ (part # "gate" => policies[1].default = 2)
    /\ Panel!Init
    /\ IF part = "peak" THEN Peak!Init
       ELSE Storing!Init /\ (part # "storing" => file = <<TRUE>> /\ period = "peak")
    /\ Runtime!Init
    /\ part # "runtime" => /\ compose.db = 1 /\ compose.mem = 1
                           /\ container.db = 1 /\ container.mem = 1 /\ container.binary = "old"
    /\ Audit!Init
    /\ Proxies!Init /\ (part # "proxies" => accounts = "a")
    /\ Init
    /\ Layers!Init
    /\ Still!Init

\* A step of one part; the components of the others do not move.
Alone(p, Step) ==
    /\ part = p /\ Step /\ UNCHANGED part
    /\ p # "gate" => UNCHANGED gateVars
    /\ p # "panel" => UNCHANGED panelVars
    /\ p \notin Schedulers => UNCHANGED schedulerVars
    /\ p # "runtime" => UNCHANGED runtimeVars
    /\ p # "audit" => UNCHANGED auditVars
    /\ p # "proxies" => UNCHANGED proxyVars
    /\ p # "browser" => UNCHANGED vars
    /\ p \notin Modals => UNCHANGED dialogVars
    /\ p \notin Confirmations => UNCHANGED confirmVars

ProgressNext ==
    \/ Alone("gate", Gate!Next) \/ Alone("panel", Panel!Next)
    \/ Alone("peak", Peak!Next) \/ Alone("storing", Storing!Next)
    \/ Alone("runtime", Runtime!Next) \/ Alone("audit", Audit!Next)
    \/ Alone("proxies", Proxies!Next) \/ Alone("browser", Next)
    \/ Alone("layers", Layers!Next) \/ Alone("singles", Singles!Next)
    \/ Alone("animated", Animated!Next) \/ Alone("still", Still!Next)

\* The fairness that each component states.
GateFairness ==
    /\ WF_progressVars(Alone("gate", Gate!RequestStep("r1")))
    /\ WF_progressVars(Alone("gate", Gate!AuthorizeUpgrade("c1") \/ Gate!Upgrade("c1")
                                        \/ Gate!Handshake("c1")))
    /\ WF_progressVars(Alone("gate", stage["c1"] = "refused" /\ Gate!SocketCloses("c1")))
PanelFairness ==
    /\ WF_progressVars(Alone("panel", Panel!StoreStep))
    /\ \A p \in Panels : /\ WF_progressVars(Alone("panel", Panel!Poll(p)))
                         /\ WF_progressVars(Alone("panel", Panel!PollArrives(p)))
PeakFairness ==
    /\ WF_progressVars(Alone("peak", Peak!UserTimerFires))
    /\ WF_progressVars(Alone("peak", Peak!Reconcile \/ Peak!WriteBatch))
    /\ WF_progressVars(Alone("peak", Peak!SaveStep))
    /\ WF_progressVars(Alone("peak", Peak!Exit))
    /\ WF_progressVars(Alone("peak", Peak!Restart))
StoringFairness ==
    /\ \A k \in TwoJobs :
          /\ WF_progressVars(Alone("storing", Storing!TimerFires(k)))
          /\ WF_progressVars(Alone("storing", Storing!Finished(k)))
          /\ \A by \in {"timer", "manual"} :
                /\ WF_progressVars(Alone("storing", Storing!Started(k, by)))
                /\ WF_progressVars(Alone("storing", Storing!Synced(k, by)))
    /\ WF_progressVars(Alone("storing", Storing!Exit))
    /\ WF_progressVars(Alone("storing", Storing!Restart))
RuntimeFairness ==
    /\ WF_progressVars(Alone("runtime", Runtime!ApplyStep \/ Runtime!RollbackStep))
    /\ WF_progressVars(Alone("runtime", Runtime!Recover))
AuditFairness ==
    /\ \A id \in Audit!Ids : WF_progressVars(Alone("audit", Audit!InsertStep(id)))
    /\ WF_progressVars(Alone("audit", Audit!DeleteStep("d1")))
    /\ WF_progressVars(Alone("audit", Audit!ApplyConfiguredRetention))
    /\ WF_progressVars(Alone("audit", Audit!Tick))
ProxyFairness ==
    /\ WF_progressVars(Alone("proxies", Proxies!Poll))
    /\ WF_progressVars(Alone("proxies", Proxies!Respond))
    /\ WF_progressVars(Alone("proxies", Proxies!Read))
    /\ WF_progressVars(Alone("proxies", Proxies!Tick))
BrowserFairness ==
    /\ WF_progressVars(Alone("browser", Served("r1")))
    /\ \A p \in 1..3 : WF_progressVars(Alone("browser", Age(p)))
    /\ WF_progressVars(Alone("browser", Bootstrap("r1")))
    /\ WF_progressVars(Alone("browser", Poll("r1")))
ModalFairness ==
    /\ \A d \in Layers!Dialogs : WF_progressVars(Alone("layers", Layers!CloseTimer(d)))
    /\ WF_progressVars(Alone("layers", Layers!Answer))
ConfirmationFairness ==
    /\ WF_progressVars(Alone("animated", Animated!CloseTimer))
    /\ WF_progressVars(Alone("animated", Animated!Answer))

Progress ==
    /\ ProgressInit /\ [][ProgressNext]_progressVars
    /\ GateFairness /\ PanelFairness /\ PeakFairness /\ StoringFairness /\ RuntimeFairness
    /\ AuditFairness /\ ProxyFairness /\ BrowserFairness /\ ModalFairness /\ ConfirmationFairness

-----------------------------------------------------------------------------
(* Properties: those of the session are its own, the others joined.             *)

TypesOK ==
    /\ TypeOK
    /\ part = "gate" => Gate!TypeOK
    /\ part = "panel" => Panel!TypeOK
    /\ part = "peak" => Peak!TypeOK
    /\ part = "storing" => Storing!TypeOK
    /\ part = "runtime" => Runtime!TypeOK
    /\ part = "audit" => Audit!TypeOK
    /\ part = "proxies" => Proxies!TypeOK
    /\ part = "layers" => Layers!TypeOK
    /\ part = "singles" => Singles!TypeOK
    /\ part = "animated" => Animated!TypeOK
    /\ part = "still" => Still!TypeOK

\* Whatever layers come and go, the page behind them takes no input and is given
\* back with its scrolling and its focus; a confirmation is sent for the target
\* it shows, once at a time, and answers for its own (Dialog.tsx, the pages'
\* confirmations; docs 008).
DialogsHold ==
    /\ [](/\ part = "layers" => Layers!BackgroundLocked /\ Layers!BackgroundReleased
          /\ part = "singles" => Singles!ScrollRestored
          /\ part = "still" => Still!NoRepeat)
    /\ [][part = "singles" => Singles!FocusGivenBack]_progressVars
    /\ Animated!SentAsConfirmed
    /\ [][part = "still" => Still!AnswerItsOwn]_progressVars

\* Slots and requests end; a panel shows the policy in force again; the user
\* limits follow the hour; a broken store is replaced; a task of the runtime
\* manager comes to its result; an expired record of the audit is deleted; and
\* the proxies of the configured accounts are shown and read again.
ServersProgress ==
    /\ Gate!EverySlotReturned /\ Gate!EveryRequestEnds
    /\ \A p \in Panels : []<>(data[p] = policy)
    /\ \A time \in {"peak", "idle"} :
          <>[](part = "peak" /\ Peak!StaysOn(time)) => <>[](part = "peak" => Peak!InForce(time))
    /\ []<>(part = "storing" => ~broken)
    /\ Runtime!ApplyingEnds
    /\ \A id \in Audit!Ids : []<>(part = "audit" => ~Audit!Expired(id))
    /\ \A a \in AccountSets :
          []<>(part = "proxies" /\ accounts = a => shown = [accounts |-> a, value |-> a])
    /\ []<>(part = "proxies" => refreshing # Nobody)

\* An administrator who is one no more loses the console, an outage ends, a
\* layer that was dismissed goes away, and a submission comes to its end.
BrowserProgress ==
    /\ RevokedLeaves /\ OutageEnds
    /\ \A d \in Layers!Dialogs : []<>(part = "layers" => d \notin closing)
    /\ []<>(part = "animated" => status # "pending")
=============================================================================
