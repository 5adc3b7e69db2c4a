------------------------------ MODULE MCConsole ------------------------------
(* The console's server beside the ledger: its state store, its scheduler, its  *)
(* estimates, its configuration, the cycles and subscriptions of a reset, the   *)
(* shared reports and the runtime manager; and two pages before it, the form of *)
(* the settings and the list of the inputs.  One run explores them one after    *)
(* the other: part names the component whose steps are taken, and the others    *)
(* stay at their initial state.  The runtime manager is extended and keeps its  *)
(* names, the others are instances.                                             *)
EXTENDS RuntimeControl, TLC

CONSTANTS Nothing, Nobody

VARIABLES
    part,
    state, storeFile, storeQueue, writing, rejecting, resolved, rejected,   \* StateStore
    storeFailures, storeCrashes,
    up, doomed, broken, file, config, timer, orphans, running, run, ending, \* Scheduler
    saves, saving, answered, sent, period, limits, userTimer, userOrphans,
    userQueue, pending, manual, turns, jobFailures, serverCrashes,
    window, account, estimated, recorded, tuned,                            \* Estimation
    settings, settingsFile,                                                 \* Config
    quota, reset, seen, capacity, cycles,                                   \* ResetCycles
    list, throughout, at, page, found, completed, resets,                   \* SubscriptionPages
    groupsOf, client, answer, reads, reading, results, connection, queries, \* AnalyticsCache
    accounts, configSaves, readFor, value, age, refreshing, asked, shown,   \* InfrastructureCache
    draft, savedConfig, sending, failed, options, changes,                  \* SettingsForm
    range, pageShown, queryRevision, filter, time, applied, entry, previous \* PromptPage

-----------------------------------------------------------------------------
(* The store: an account is configured, removed and added again, while updates  *)
(* of it and audit events are in the queue.                                     *)

Updates == 1..6
Stored == {"a", "b"}
Call == <<[name |-> "ensure", accounts |-> {"a", "b"}],
          [name |-> "ensure", accounts |-> {"b"}],
          [name |-> "account", key |-> "a"],
          [name |-> "event"], [name |-> "event"], [name |-> "event"]>>

Store == INSTANCE StateStore WITH
    Accounts <- Stored, MAX_EVENTS <- 2, MaxFailures <- 1, MaxCrashes <- 1,
    file <- storeFile, queue <- storeQueue, broken <- rejecting,
    failures <- storeFailures, crashes <- storeCrashes

-----------------------------------------------------------------------------
(* The scheduler: the timers of a job while the configuration is saved; then    *)
(* the user limits, with an exempt user, while peak and idle time alternate.    *)

OneJob == {"reset"}
OneUser == {"u"}
TwoUsers == {"u", "x"}
Spared == {"x"}

Timing == INSTANCE Scheduler WITH
    Kinds <- OneJob, Users <- OneUser, Exempt <- {}, MaxSaves <- 2, MaxManual <- 1,
    MaxTurns <- 0, MaxFailures <- 1, MaxCrashes <- 0, MaxOrphans <- 2,
    failures <- jobFailures, crashes <- serverCrashes

Limiting == INSTANCE Scheduler WITH
    Kinds <- {}, Users <- TwoUsers, Exempt <- Spared, MaxSaves <- 3, MaxManual <- 2,
    MaxTurns <- 2, MaxFailures <- 0, MaxCrashes <- 0, MaxOrphans <- 2,
    failures <- jobFailures, crashes <- serverCrashes

-----------------------------------------------------------------------------
(* Estimates: four percentages of three buckets, the one at the minimum with a   *)
(* report below and one above it, one of two costs; and settings that differ in *)
(* the shares or in the reserve.                                                *)

Percentages == {50, 54, 60, 75}
CostsAt == [u \in Percentages |-> IF u = 60 THEN {100, 140} ELSE {2 * u}]
Splits == {[share |-> 3, percent |-> FALSE, value |-> 301],
           [share |-> 2, percent |-> FALSE, value |-> 301],
           [share |-> 3, percent |-> TRUE, value |-> 125]}
FirstSplit == CHOOSE a \in Splits : a.percent

Estimating == INSTANCE Estimation WITH
    Used <- Percentages, Costs <- CostsAt, Settings <- Splits, Minimum <- 52, Scale <- 2700,
    MaxSamples <- 3, EstimateWindow <- 3, MaxWindows <- 2, MaxEdits <- 1,
    capacity <- estimated, cycles <- recorded, edits <- tuned

-----------------------------------------------------------------------------
(* Files and forms around one valid configuration, in which every number is     *)
(* another one: the accounts and fixed groups vary, or the peak windows, or     *)
(* the numbers at their bounds.                                                 *)

Texts == {"k1", " k1", "k2", "one", " one", "UTC", "a", "A", "b", "k"}
TrimmedTexts == [t \in Texts |-> CASE t = " k1" -> "k1" [] t = " one" -> "one" [] OTHER -> t]
LowerTexts == [t \in Texts |-> IF t = "A" THEN "a" ELSE t]
SomeKeys == {"k1", "k2"}
SomeLabels == {"one"}
SomeEmails == {"a", "A", "b"}
SomeTimezones == {"UTC"}

Account(key, email, groups) ==
    [key |-> key, email |-> email, label |-> " one", shareCount |-> 3,
     redistributionEnabled |-> TRUE, reserveMode |-> "usd", reserveValue |-> 140,
     targetGroupIds |-> groups, enabled |-> FALSE]

Window(a, b) == [start |-> a, end |-> b]
Base ==
    [fixedGroupIds |-> <<9>>,
     resetSync |-> [intervalSeconds |-> 180, requestTimeoutSeconds |-> 25,
         resetAtToleranceSeconds |-> 300, usageDropTolerancePercent |-> 5],
     capacitySync |-> [intervalSeconds |-> 600, minimumUsedPercent |-> 50, minimumChangeUsd |-> 1],
     promptAudit |-> [maxRequestBodyMiB |-> 10, normalRetentionDays |-> 30, riskRetentionDays |-> 60],
     userConcurrencySchedule |-> [enabled |-> TRUE, timezone |-> "UTC",
         peakWindows |-> <<Window(<<11, 0>>, <<12, 0>>)>>, exemptUserIds |-> <<7, 8>>,
         peakConcurrency |-> 3, idleConcurrency |-> 5, peakRpm |-> 30, idleRpm |-> 40],
     accounts |-> <<Account("k1", "a", <<1>>)>>]

SomeAccounts == {Account(k, e, g) : k \in {"k1", " k1", "k2"}, e \in {"a", "A", "b"},
                                    g \in {<<1>>, <<2>>, <<1, 1>>, <<2, 3>>}}
FirstAccounts == {Account("k1", "a", <<1>>), Account(" k1", "A", <<2, 3>>)}
OfAccounts == {[Base EXCEPT !.accounts = a, !.fixedGroupIds = f] :
                  a \in {<<x>> : x \in SomeAccounts}
                          \cup {<<x, y>> : x \in FirstAccounts, y \in SomeAccounts},
                  f \in {<<9>>, <<3, 3>>}}

\* Half an hour apart, so that hours alone do not tell them.
Windows == {Window(a, b) : a, b \in {<<11, 0>>, <<11, 30>>, <<12, 0>>}}
Lists(n) == IF n < 3 THEN [1..n -> Windows]
            ELSE {<<Window(<<11, 0>>, <<11, 30>>), v, w>> : v, w \in Windows}
OfWindows(n) == {[Base EXCEPT !.userConcurrencySchedule.peakWindows = w] :
                  w \in UNION {Lists(k) : k \in 0..n}}

OfNumbers ==
    {[Base EXCEPT !.promptAudit.riskRetentionDays = n] : n \in {29, 30, 3650, 3651}}
    \cup {[Base EXCEPT !.userConcurrencySchedule.peakRpm = n] : n \in {0, 1, 40, 41}}
    \cup {[Base EXCEPT !.userConcurrencySchedule.exemptUserIds = u] : u \in {<<>>, <<7, 7>>, <<0>>}}
    \cup {[Base EXCEPT !.accounts = <<[Account("k1", "a", <<1>>) EXCEPT
              !.reserveMode = m, !.reserveValue = v, !.shareCount = n]>>] :
              m \in {"usd", "percent"}, v \in {0, 100, 101, 1000000}, n \in {0, 1, 100}}
    \cup {[Base EXCEPT !.accounts = <<Account("k", "a", <<1>>)>>],
          [Base EXCEPT !.accounts = <<>>], [Base EXCEPT !.userConcurrencySchedule.timezone = "k"]}

SomeForms == OfAccounts \cup OfNumbers \cup OfWindows(2)
SomeWritten == OfAccounts \cup OfNumbers \cup OfWindows(3)

Configuring == INSTANCE Config WITH
    Forms <- SomeForms, Written <- SomeWritten, Trimmed <- TrimmedTexts, Lower <- LowerTexts,
    Keys <- SomeKeys, Labels <- SomeLabels, Emails <- SomeEmails, Timezones <- SomeTimezones,
    config <- settings, file <- settingsFile

-----------------------------------------------------------------------------
(* The cycles of three windows, of which one may end early; and a list of        *)
(* subscriptions that moves, or that gets shorter, while its pages are read.    *)

OneEarly == {3}
LittleJitter == {0, 1}

Offering == INSTANCE ResetCycles WITH
    Week <- 8, Match <- 1, Tolerance <- 1, Jitter <- LittleJitter, EarlyResets <- OneEarly,
    MaxHistory <- 2, MaxWindows <- 3

Five == {"s1", "s2", "s3", "s4", "s5"}
Four == {"s1", "s2", "s3", "s4"}
WantedThree == {"s1", "s2", "s3"}
WantedTwo == {"s1", "s2"}

Moving == INSTANCE SubscriptionPages WITH
    Subscriptions <- Five, Wanted <- WantedThree, PageSize <- 2, Ending <- FALSE

Ending == INSTANCE SubscriptionPages WITH
    Subscriptions <- Four, Wanted <- WantedTwo, PageSize <- 2, Ending <- TRUE

-----------------------------------------------------------------------------
(* Reports on one account whose groups become others, or change their order;    *)
(* and the runtime manager with two values of each parameter.                   *)

Browsers == {"c1", "c2"}
Reported == {"a1"}
OtherGroups == {<<1, 2>>, <<2>>}
OtherOrders == {<<1, 2>>, <<2, 1>>}
TwoReads == 1..2
ThreeReads == 1..3

Reports == INSTANCE AnalyticsCache WITH
    Clients <- Browsers, Accounts <- Reported, GroupLists <- OtherGroups, Shared <- 1,
    Wait <- 1, Statement <- 1, MaxResults <- 1, Reads <- TwoReads,
    config <- groupsOf, pending <- reading, queue <- queries

Orders == INSTANCE AnalyticsCache WITH
    Clients <- Browsers, Accounts <- Reported, GroupLists <- OtherOrders, Shared <- 1,
    Wait <- 1, Statement <- 1, MaxResults <- 1, Reads <- ThreeReads,
    config <- groupsOf, pending <- reading, queue <- queries

TwoValues == {1, 2}

-----------------------------------------------------------------------------
(* A proxy cache of three sets of accounts; a form opened with one account, its *)
(* group and a fixed group; and a list with filters, one of which is refused.   *)

AccountSets == {"a", "b", "c"}

Proxies == INSTANCE InfrastructureCache WITH
    MaxAge <- 2, MaxSaves <- 3, saves <- configSaves, key <- readFor,
    pending <- refreshing, polled <- asked

TwoGroups == {1, 2}
ThreeEmails == {"a", "b", "c"}
TwoActive == {"a", "b"}
OneAccount ==
    [accounts |-> <<[key |-> "account-1", email |-> "a", groups |-> {1},
                     percent |-> FALSE, value |-> 500]>>,
     fixed |-> {2}, windows |-> <<"noon">>]

Form == INSTANCE SettingsForm WITH
    Groups <- TwoGroups, Emails <- ThreeEmails, Active <- TwoActive, Opened <- OneAccount,
    MaxAccounts <- 2, MaxEdits <- 4, edits <- changes

TwoRanges == {"day", "week"}
TwoFilters == {"all", "long"}
LongText == {"long"}
CustomTime == {"custom"}

Page == INSTANCE PromptPage WITH
    Ranges <- TwoRanges, Filters <- TwoFilters, Refusals <- LongText, Times <- CustomTime,
    MaxPages <- 2, MaxRevision <- 1, MaxEntries <- 2, page <- pageShown

\* What the components assume of their parameters.
ASSUME ConsoleParameters ==
    /\ Store!StoreParameters /\ Timing!SchedulerParameters /\ Limiting!SchedulerParameters
    /\ Timing!NoneIsNoLimit /\ Limiting!NoneIsNoLimit
    /\ Estimating!EstimationParameters
    /\ RuntimeParameters /\ Page!PageParameters
    /\ Reports!ReportParameters /\ Orders!ReportParameters /\ Form!FormParameters
    /\ Configuring!ConfigParameters
    /\ Moving!SubscriptionParameters /\ Ending!SubscriptionParameters

-----------------------------------------------------------------------------
storeVars == <<state, storeFile, storeQueue, writing, rejecting, resolved, rejected,
               storeFailures, storeCrashes>>
schedulerVars == <<up, doomed, broken, file, config, timer, orphans, running, run, ending,
                   saves, saving, answered, sent, period, limits, userTimer, userOrphans,
                   userQueue, pending, manual, turns, jobFailures, serverCrashes>>
estimateVars == <<window, account, estimated, recorded, tuned>>
configVars == <<settings, settingsFile>>
cycleVars == <<quota, reset, seen, capacity, cycles>>
pageVars == <<list, throughout, at, page, found, completed, resets>>
reportVars == <<groupsOf, client, answer, reads, reading, results, connection, queries>>
proxyVars == <<accounts, configSaves, readFor, value, age, refreshing, asked, shown>>
formVars == <<draft, savedConfig, sending, failed, options, changes>>
listVars == <<range, pageShown, queryRevision, filter, time, applied, entry, previous>>
consoleVars == <<part, storeVars, schedulerVars, estimateVars, configVars, cycleVars,
                 pageVars, reportVars, vars, proxyVars, formVars, listVars>>

Schedulers == {"timing", "limiting"}
Pagings == {"moving", "ending"}
Reportings == {"reports", "orders"}

Others == {"store", "estimating", "configuring", "offering", "runtime", "proxies", "form", "list"}

ConsoleInit ==
    /\ part \in Schedulers \cup Pagings \cup Reportings \cup Others
    /\ Store!Init
    /\ IF part = "limiting" THEN Limiting!Init
       ELSE Timing!Init /\ (part # "timing" => file = <<TRUE>> /\ period = "peak")
    /\ Estimating!Init /\ (part # "estimating" => account = FirstSplit)
    /\ Configuring!Init
    /\ part # "configuring" => settingsFile = Configuring!ToRaw(Base)
    /\ Offering!Init
    /\ IF part = "moving" THEN Moving!Init
       ELSE Ending!Init /\ (part # "ending" => list = <<"s1">>)
    /\ IF part = "reports" THEN Reports!Init
       ELSE Orders!Init /\ (part # "orders" => groupsOf["a1"] = <<2, 1>>)
    /\ Init
    /\ part # "runtime" => /\ compose.db = 1 /\ compose.mem = 1
                           /\ container.db = 1 /\ container.mem = 1 /\ container.binary = "old"
    /\ Proxies!Init /\ (part # "proxies" => accounts = "a")
    /\ Form!Init
    /\ Page!Init

\* A step of one part; the components of the others do not move.
Alone(p, Step) ==
    /\ part = p /\ Step /\ UNCHANGED part
    /\ p # "store" => UNCHANGED storeVars
    /\ p \notin Schedulers => UNCHANGED schedulerVars
    /\ p # "estimating" => UNCHANGED estimateVars
    /\ p # "configuring" => UNCHANGED configVars
    /\ p # "offering" => UNCHANGED cycleVars
    /\ p \notin Pagings => UNCHANGED pageVars
    /\ p \notin Reportings => UNCHANGED reportVars
    /\ p # "runtime" => UNCHANGED vars
    /\ p # "proxies" => UNCHANGED proxyVars
    /\ p # "form" => UNCHANGED formVars
    /\ p # "list" => UNCHANGED listVars

ConsoleNext ==
    \/ Alone("store", Store!Next)
    \/ Alone("timing", Timing!Next) \/ Alone("limiting", Limiting!Next)
    \/ Alone("estimating", Estimating!Next)
    \/ Alone("configuring", Configuring!Next)
    \/ Alone("offering", Offering!Next)
    \/ Alone("moving", Moving!Next) \/ Alone("ending", Ending!Next)
    \/ Alone("reports", Reports!Next) \/ Alone("orders", Orders!Next)
    \/ Alone("runtime", Next) \/ Alone("proxies", Proxies!Next)
    \/ Alone("form", Form!Next) \/ Alone("list", Page!Next)

Console == ConsoleInit /\ [][ConsoleNext]_consoleVars

-----------------------------------------------------------------------------
(* Properties: those of the runtime manager are its own, the others joined by    *)
(* component.                                                                   *)

TypesOK ==
    /\ TypeOK
    /\ part = "store" => Store!TypeOK
    /\ part = "timing" => Timing!TypeOK
    /\ part = "limiting" => Limiting!TypeOK
    /\ part = "estimating" => Estimating!TypeOK
    /\ part = "configuring" => Configuring!TypeOK
    /\ part = "offering" => Offering!TypeOK
    /\ part = "moving" => Moving!TypeOK
    /\ part = "ending" => Ending!TypeOK
    /\ part = "reports" => Reports!TypeOK
    /\ part = "orders" => Orders!TypeOK
    /\ part = "proxies" => Proxies!TypeOK
    /\ part = "form" => Form!TypeOK
    /\ part = "list" => Page!TypeOK

\* A caller that was told so has its update in the file, one that was refused
\* does not, memory is never more than one update ahead of the file, a removed
\* account starts anew, and the newest events are kept (store.ts).
StoreHonest == part = "store" =>
    /\ Store!ResolvedIsStored /\ Store!RejectedStaysOut /\ Store!AheadByOne
    /\ Store!ForgottenIsForgotten /\ Store!NewestEvents

\* Runs of a job do not overlap, however saves and runs by hand interleave with
\* its timers; no timer is lost while the process is well; a schedule that is
\* switched off writes no limit; and an estimate is a median of the reports that
\* count, kept within a bucket, and split as the settings of its last run say
\* (engine.ts, estimation.ts; docs 002, 003 and 009).
EngineSound ==
    /\ [](/\ part = "timing" => Timing!RunsDoNotOverlap /\ Timing!TimersAlive
          /\ part = "limiting" => Limiting!DisabledIsIdle
          /\ part = "estimating" => Estimating!SettingsFollowed)
    /\ Estimating!MedianOfSamples /\ Estimating!StableWithinBucket

\* A configuration that was accepted is read back as it is, and put back it
\* changes nothing; no group has two owners, no account two entries, no minute
\* two peak windows, in what the server accepts and in what the form lets an
\* operator edit, which shows as saved only what was accepted (config.ts,
\* contracts, SettingsPage.tsx).
SettingsSound ==
    /\ part = "configuring" => /\ Configuring!Reloads /\ Configuring!PutBackIsNeutral
                               /\ Configuring!OneOwner /\ Configuring!OneEntryPerAccount
                               /\ Configuring!OneWindow
    /\ part = "form" => /\ Form!GroupsApart /\ Form!EmailsApart
                        /\ Form!Editable /\ Form!SavedWasAccepted

\* A cycle that the history offers finds its window, a window has one cycle, and
\* a choice stays answered by the same window when the history moves on
\* (engine.ts, routes.ts, AccountAnalyticsPanel.tsx; docs 005).  A reset reaches
\* each subscription that was active throughout its pages, and none twice, also
\* when the list moves while it is read (sub2api-client.ts; docs 002).
ResetsHold ==
    /\ [](/\ part = "offering" => Offering!OfferedIsAnswered /\ Offering!OneCyclePerWindow
          /\ part = "moving" => Moving!EachResetOnce
          /\ part = "ending" => Ending!NoneResetTwice)
    /\ Offering!ChoiceStaysAnswered

\* A report answers the groups it was asked for, is not older than what may be
\* shared, and one read serves all who ask meanwhile (analytics.ts; docs 005);
\* the proxies beside the accounts are those of these accounts (routes.ts).
ReportsShared ==
    /\ part = "reports" => Reports!OwnAnswer /\ Reports!Fresh /\ Reports!OneReadPerKey
    /\ part = "orders" => Orders!OwnAnswer /\ Orders!OneReadPerKey
    /\ part = "proxies" => Proxies!ShownBelongs

\* Once nothing is being fetched, the list shows the range, the filters and the
\* page that the operator sees, or a failure; other filters begin at their first
\* page, and a page is turned only to one that is there (InputHealthPage.tsx).
ListShowsAsked ==
    /\ [](part = "list" => Page!ShownIsAsked)
    /\ Page!FirstPage /\ Page!TurnedWithinAnswer
=============================================================================
