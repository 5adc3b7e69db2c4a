# Verification of sub2api-ops

TLA+ modules, TLC configurations and TLAPS proofs for sub2api-ops, the service
that runs beside a Sub2API gateway: it resets members' weekly usage when an
upstream OpenAI account enters a new window, keeps the weekly limits of groups
in line with the account's estimated capacity, relays and audits WebSocket
traffic, limits request sizes and applies runtime parameters.  Paths below are
relative to `src/`.

1. [Inventory](#1-inventory)
2. [The modules and the code](#2-the-modules-and-the-code)
3. [Runs](#3-runs)
4. [Proofs](#4-proofs)
5. [Where the code and the documents differ](#5-where-the-code-and-the-documents-differ)
6. [Plan](#6-plan)
7. [Not modelled](#7-not-modelled)

## 1. Inventory

| component | state it keeps | operations | talks to |
|---|---|---|---|
| cycle reset (`server/automation/engine.ts`) | per account: baseline observation, last handled window, pending event with targets, completed and limits to restore | `syncReset`, `completeReset`, `disableRedistributionForReset` | state store, configuration, Sub2API |
| capacity sync (`engine.ts`) | per account: estimate of the window, samples, group allocations | `syncCapacity`, `saveCapacity`, `redistribute` | Sub2API groups, state store |
| quota redistribution (`server/automation/redistribution.ts`) | per account: ledger of the window (base limit, issued limits, watermark, round in flight) | `run` | groups, state store, live configuration |
| estimation (`server/automation/estimation.ts`) | none | window predicates, samples, median, reserve, shares | - |
| scheduler and configuration writes (`engine.ts`, `server/config.ts`) | timers, running flags, account queues, configuration in memory and on disk | `start`, `stop`, `schedule`, `run`, `replaceConfig`, `writeConfig` | both jobs, routes |
| user concurrency schedule (`engine.ts`, `user-concurrency-schedule.ts`) | its own queue and timer | `reconcileUserConcurrency` | Sub2API users |
| state store (`server/store.ts`) | one JSON document in memory and on disk, an update queue | `update`, `updateAccount`, `ensureAccounts`, `startJob`, `finishJob` | everything in the service |
| WebSocket relay (`server/ws-relay/server.ts`, `heartbeat.ts`) | connections, pending bytes (all, small, per connection), sequence numbers, heartbeat | `upgrade`, `bridge`, message and close handlers | outbox, guard, upstream |
| audit outbox and delivery (`server/ws-relay/outbox.ts`) | files, byte counter, operation queue, retry delay, drain in flight | `persist`, `entries`, `remove`, `wake`, `drain`, `deliver` | relay, capture endpoint |
| prompt audit (`server/prompt-audit/`) | rows, media files, bounded queue with two writers, purge watermark | `enqueue`, `store`, `insert`, `enrich`, `cleanup`, `purge`, `close` | PostgreSQL, file system, relay |
| request limits (`server/request-limits/`) | policy file with revision, count of large requests, spool directories | `authorize`, `acquire`, `save`, the HTTP gateway, keep-alive | relay, upstream, routes |
| runtime control (`deploy/runtime-control/controller.py`, `server/runtime-control/`) | compose file, job file, backups, container | `start`, `apply`, `rollback`, `recover`, `status` | docker, administrator |
| resource monitor (`deploy/resource-monitor/`, `server/resource-monitor/`) | samples | collect, read | PostgreSQL |
| authentication (`server/auth.ts`) | session cookie with tokens | `login`, `validate`, `refresh`, `logout` | Sub2API |
| analytics and infrastructure caches (`server/analytics.ts`, `server/routes.ts`) | results with an age, requests in flight | `get`, `refreshInfrastructure` | PostgreSQL, Sub2API |
| web interface (`web/src/`) | a copy of the configuration in the settings page | render, save | routes |

The engine is the core.  Its two jobs run from timers and by hand.  All jobs of
one account pass through that account's queue, so a reset and a capacity
synchronisation of the account never run at the same time; the administrator's
`PUT /config`, the upstream and the clock run at any point between two of their
steps.  A step that reaches the state store survives a restart; a step that
reaches Sub2API may take effect although its answer is lost.

What is hard, and what makes each part correct:

* **cycle reset** - a window is noticed from reports that jitter; a stored event
  is resumed after failures and restarts.  One event per window, every target
  reset before the event is closed, progress that never runs ahead of what was
  done, redistribution off and base limits restored before usage is reset, every
  new window handled in the end.
* **redistribution** - rounds write several groups and are interrupted and
  resumed while estimates, managed groups and switches change.  No raise is
  applied twice, a window hands out at most its allocatable amount, issued
  limits stay in force within the window.
* **state store, scheduler, configuration** - one failure must not end all later
  work; timers must neither stop nor multiply.
* **relay and outbox** - nothing is forwarded that is not stored; everything
  stored is delivered in the end and recorded once; counters return to zero.
* **prompt audit** - rows and files agree over failed commits, crashes, purges;
  the queue stays within its bounds.
* **request limits** - a slot is released once; concurrent saves do not lose one
  another's change.
* **runtime control** - an application succeeds, is rolled back, or says that it
  could not be; an operator's edit survives.
* **authentication** - concurrent requests refresh a session without losing it.

`PROJECT.json` lists the hazards one by one, each at the line where it bites,
with the properties that cover it.

## 2. The modules and the code

| module | contents |
|---|---|
| `AccountState` | one account: constants, variables, types, `Init`; the upstream and the administrator; the account's queue (`StartTask`, `Abort`); the predicates of `estimation.ts` |
| `ResetSync` | the steps of `syncReset` and `completeReset` |
| `CapacitySync` | the steps of `syncCapacity`, `redistribute` and `QuotaRedistributor.run` |
| `AccountSync` | composition of the two jobs with their surroundings, fairness, properties |
| `AccountSyncProofs` | the theorems about the types, the redistribution switch and the reset event, about the ledger and the limits, and about `SubscriptionPages` |
| `Estimation` | samples, median, reserve and shares; when a run makes a new estimate |
| `ResetCycles` | the history of cycles: what both jobs record, which cycles the reports panel offers and which the server accepts |
| `SubscriptionPages` | `activeSubscriptions`: the pages of a reset while the list changes |
| `Scheduler` | timers, runs, configuration writes, user limits, restarts of the process |
| `StateStore` | the update queue, the document in memory and its file |
| `Config` | the two schemas, serialisation and the checks of a configuration |
| `SettingsForm` | the draft of the settings page |
| `WsOutbox`, `WsRelay` | the outbox with its drain; the connections, their message chains and the counters; `WsRelay` extends `WsOutbox` |
| `AuditTrail` | the promise of relay, outbox and endpoint: what is kept may be passed on, and is recorded once |
| `PromptAudit` | queue, transactions, image files, retention and purge of the audit |
| `PromptList` | the query behind the list: pairing of logs and prompts, repeats, totals |
| `PromptParser` | which part of a request is recorded, redaction, images |
| `PromptPage` | the list on its page: filters, pages and the query cache |
| `RequestLimits` | the policy with its revision and records, the routes and the panel |
| `RequestGate` | large requests and upgrades: slots, spool, keep-alive, responses |
| `RuntimeControl` | the controller: apply, roll back, recover |
| `Session` | logins, the check and refresh of a session, logout, the page |
| `AnalyticsCache` | merged reads of reports and their shared results |
| `InfrastructureCache` | the proxies on the dashboard |
| `Dialogs`, `Confirmation` | nested dialogs and what they do to the page; a confirmation from its first field to its answer |
| `SchedulerProofs`, `StoreProofs`, `WsRelayProofs`, `AuditProofs`, `RuntimeProofs` | the theorems about `Scheduler`, `StateStore`, `WsRelay` with its outbox, `PromptAudit` and `PromptList`, `RuntimeControl` |
| `GateProofs` | the theorems about `RequestGate` and `RequestLimits` |
| `ConsoleProofs` | the theorems about `Session`, `InfrastructureCache`, `PromptPage`, `AnalyticsCache`, `Confirmation`, `SettingsForm` and `Config` |
| `MCAccountSync`, `MCWsRelay` | values of the constants for TLC |
| `MCServices`, `MCConsole`, `MCProgress` | several components, one after the other (section 3) |

Every component names what it assumes of its constants (`GateParameters`,
`StoreParameters`, ...); the MC modules assume it.  Operators that begin with a
comment "Mutant" are used by `PROJECT.json` only: each puts a plausible bug in the
place of the definition after it.

### One account

**State.**  One account.  `observation`, `lastHandled`, `pendingEvent`,
`redistribution`, `capacity` are the account's entry in the state store
(`AccountRuntime`); `flag`, `enabled`, `groups` its entry in the configuration
(`redistributionEnabled`, `enabled`, `targetGroupIds`); `limit` the groups'
`weekly_limit_usd` at Sub2API; `quota` the true window of the upstream.  `pc`
and `mem` are the task at the head of the account's queue and its local
variables: `mem.flag` and `mem.groups` are the configuration the task started
with, as `syncAccount` passes it, while `Enabled`, `Writable` and `CheckGroup`
look at the live one, as `this.config` and `currentConfig` do.  `form` is the copy
that the settings page took.  `wiped`, `added`, `departed`, `granted`, `armed`,
`edits`, `aborts` and the field `cycle` of an observation are history: no step's
guard but a bound reads them.  `added` is what a group carries on top of its base
limit, in the configuration or not; a group is in `departed` when it was taken out
while it carried something, and until a job writes its base limit again.  The field
`cycle` of `capacity` is the estimate that a run stored with its cycle before it
failed, for a window whose capacity has none (`PreviousEstimate`).

**Steps.**  A step of the model runs from one `await` on the outside world, or
one stored update, to the next.  The order of the code is the order of `pc`:

    syncReset    observe -> detected -> disable -> restore/restoreGroup
                 -> wipe/recordWipe -> (observe | idle)
    syncCapacity sample -> writeGroups -> redistribute -> round/record -> idle

`StartReset` resumes a stored event at "disable", as `syncReset` calls
`completeReset` first, and then goes on to "observe" (`mem.resumed`).

**Failures.**  `Abort` ends the task between any two steps: a call that fails, an
answer that is lost after the call took effect (the effect is the step before), a
process that dies.  Memory is lost, the stored state remains.  Two failures that
the code handles itself are part of their actions: a failed group in the loop
of `syncCapacity` (`WriteGroup`, the loop goes on and `SaveCapacity` ends the
run) and a failed target of a round (`FailTarget`, the ledger is saved).

**Abstractions.**  Money is in cents, usage in small units.  An estimate enters as
its allocatable amount: capacity minus reserve, clamped at zero, from the set
`Nets`; which sample or median gave it is left open (`Estimation` has them), so that
an estimate may fall and rise from run to run.  The members of a run (`members`) and the
subscriptions of an event are arbitrary.  The numeric order of ids stands for
the order in which a list was stored.  Reports of one window differ by at most the
tolerance (`Jitter`), unless `ShiftWindow` moves its end.  A moved or early
window happens only in the runs whose `Moves` say so.

### The service around it

**Scheduler.**  One timer per job (`timer`; `orphans` are chains that nobody can
stop), the runs under way and their step, the configuration in memory (`config`) and
on disk (`file`, a sequence that may be torn), the queue of saves, and the user
limits with the hour (`period`).  A run starts by hand or by its timer; `Started`
and `Synced` are its two stored steps, `Finished` its `finally`.  `setNextRun` is
called without a handler: its rejection ends the process (`doomed`, `Exit`), and
the restart is what repairs a store that refuses every update.  A save that fails
at its restoration of user limits, or at its file, leaves the timers as the code
leaves them.

**StateStore.**  Updates are queued, applied in memory, written, and then resolved;
`broken` is the queue that stays rejected after a failure.  A restart keeps the
file only.

**Estimation.**  A run gets any percentage with any of its costs, so that usage also
falls.  Money is exact until the code rounds it (`Scale`); floating point is not
modelled.  `capacity.by` is history: the settings of the run that saved it.  With two
reports of one bucket around the minimum, three samples and settings that differ only in
the shares or only in the reserve, TLC sees every reason for which `syncCapacity` makes an
estimate anew, and keeps one.  The code keeps eight samples and uses five: usage that falls
below the minimum by eight whole percents pushes out all samples that count, and is left
out.

**Config.**  `Forms` are bodies of `PUT /config`, `Written` the configurations whose
files a process may start from.  Texts are opaque, with `Trimmed` and `Lower` for what
the schemas do to them; percentages are in tenths.  Failing writes belong to the
scheduler.

**ResetCycles.**  Time is scaled to weeks of eight units with a match of one; an
early reset moves the end by more than match and jitter together.  A window that began
before the old one had passed is seen with a sign (its usage dropped) or without, and
then its end is taken over as the baseline.  `RecordCapacity` and `Finalized` are what
the two jobs do to the history.  The panel infers earlier
cycles and the server checks `resetAt` on its own; both are translated separately.

**AnalyticsCache.**  One unit of time is the five seconds a query waits for the
connection.  A read is two queries on the only connection; its answer is shared by
those who asked for the same key meanwhile and for `Shared` units after.

**SubscriptionPages, InfrastructureCache.**  The list may lose or gain a subscription
between two pages; `found` is what the pages had, and a target (`IsWanted`) is a place in
it that the filter by the groups leaves.  A refresh for earlier
accounts may end after the configuration has changed.

### Relay and audit

**WsOutbox, WsRelay.**  A message is numbered, stored (`write`, `rename`,
directory sync), and forwarded by its chain; the drain reads the oldest file, posts
it and removes it.  Files survive the end of the process, those not synced may be
lost with the host.  The counters of pending and stored bytes are variables of their
own, changed where the code changes them.  A file whose directory sync failed is
refused, uncounted and waits for the next wake or restart.

**AuditTrail** has three variables, `kept`, `passed` and `rows`, and three actions that
say who may change them and when.  `WsRelay` implements it with `kept` the messages
whose file a crash of the host cannot take (`disk`) or whose row is committed, `passed`
those the upstream got and `rows` those the endpoint committed; messages that the
endpoint acknowledges without a record are left out.  Its fairness becomes "what is
kept is recorded".

**PromptAudit.**  A record's id is a prompt and an attempt.  Rows are committed
together with those of their images, the image files are not covered by any
transaction; PostgreSQL is READ COMMITTED, so that a statement sees what was
committed before it and waits for locked rows.  Two callers may delete at once.  An
insert whose commit lost its answer is undone although its row is there.  `unlinked` is
history: the rows whose files a deletion has begun to remove.

**PromptList, PromptParser, PromptPage.**  The list is an operator over logs and prompts
that arrive in any order; ties are ordered, as SQL does not promise.  The page of rows and
the summary beside it are two statements on two connections; only the rows are modelled.  The parser
takes items of symbols, so that order of collecting, redacting and cutting matters.
The page keeps drafts, applied filters and one entry of the query library per key;
the library is external (it keeps the previous data only while a key is pending,
and forgets unused entries).

### Limits, runtime, session and pages

**RequestLimits, RequestGate.**  A save is compared with the file's revision and
replaces the file in two steps at the head of a queue; the audit events of the route name
the revisions afterwards (`recorded`).  A panel keeps the revision its draft was started
from.  A request passes authentication, slot, spool, upstream and response; an abort, a
timeout or a failed call may come at each, and comments keep a response alive before
its headers.  When the directory of a request cannot be removed, the rejection is nobody's
and ends the relay (`RemoveFails`), as a crash does.  A refused WebSocket client is assumed to close its socket.

**RuntimeControl.**  `compose` and `container` are what Docker has, `job` and `jobFile`
the task in memory and on disk.  Every command may fail, with or without effect, and so
may the replacement of a file, whose directory is synced after the rename (`Attempted`).
The model stops when two tasks overlap (section 5).

**Session.**  A pair of tokens is a number; Sub2API spends a refresh token by its use
(external).  Answers of Sub2API in trouble, or of something in front of it, become statuses
as `Sub2ApiError` does: a page or an error keeps its own, 401 and 403 included.  The field
`turned` of a request is history: such a 401 or 403 was given to it.
`tab` is the page that `App` and `LoginPage` show.  Pairs that nothing holds are forgotten
and their numbers used again.

**SettingsForm, Dialogs, Confirmation.**  The form offers groups and emails as its
selects do; chips of the selects can be removed while a save is under way.  A
dialog takes the page's background, overflow and focus when it is mounted and writes
back what it read; React runs the cleanups of one removal parent first (external).
StrictMode is not modelled.

## 3. Runs

`CHECK_DEADLOCK FALSE` is set where the bounds on clock, windows, edits, requests or
failures are reached: then nothing is left to do.

**One account** (`MCAccountSync`):

| run | bounds | what it shows |
|---|---|---|
| `reset_events` | 1 group, 2 subscriptions, jitter, 2 rollovers, a failure | `OneEventPerWindow`, `ProgressIsReal`, `EventClosesComplete` |
| `unusual_windows` | early rollovers and moved window ends, a rollover, edits | `RedistributionTurnedOff` |
| `ledger` | 2 groups, one window, estimates 4 and 6, 2 edits, a failure | `RaisesAreInLedger`, `GrantsWithinCapacity`, `IssuedLimitsKept` |
| `ledger_rollover` | 2 groups at their base limit, 1 subscription, one estimate, a rollover, an edit, a failure | `TypeOK`, `MembersResetAtBaseLimit` |
| `reset_progress` | fair specification, a rollover, failures | `EventCompleted`, `RolloverHandled` |
| `repeated_reset`, `shifted_window`, `stale_form` | the smallest that show it | `ResetOnlyOnce`, `CarriedWithinCapacity` and `RedistributionTurnedOff` are violated (section 5) |

**Why the bounds are enough.**  Two subscriptions are the fewest for which "one is
recorded, the next is reset but not recorded" happens; two groups the fewest for
a round that is interrupted between two writes; two rollovers the fewest for a
handled window, a baseline and a new event at once.  Two estimates let the
allocatable amount fall and rise.  With two edits a group is taken out and put back, or
redistribution turned off and on.  One failure interrupts a task, which is resumed; in
`ledger` a write of a round may fail besides, which the code handles itself.  The runs
divide what would be too much for one: `reset_events` has two rollovers and no edit,
`unusual_windows` edits and one rollover, `ledger_rollover` the one edit that takes a
raised group out before the event.  Every property has a mutant of the code (`PROJECT.json`) that
violates it under the very bounds of its run.

**Properties.**  Each is stated, with the code it is about, in `AccountSync`.  The
invariants `TaskOK`, `WindowsInOrder`, `WipedInOrder`, `ProgressTrails` and
`OffWhileResetting` are the strengthenings that the proofs use; they are proved
where section 4 says so.

**Fairness** (`FairSpec`).  Weak fairness of the steps of a running task: every
await ends with an answer or a timeout, and its continuation is run by the event
loop.  Strong fairness of `StartReset` and `StartCapacity`: both jobs are started
again and again by their timers (`schedule` re-arms itself in `finally`) and wait
for one another in a first-in-first-out queue, so neither overtakes the other
for ever, although the queue is busy in between.  Nothing is assumed of the
upstream, the clock, the administrator or of failures, which the bound on
`aborts` ends.  Without that bound no task need ever finish.

**Relay and audit** (`MCWsRelay`), run `relay`: one connection, three messages of sizes 1, 2
and 3 at limits of 3 for memory and outbox, so that the first two wait in the chain together
and the third fits only alone; the last two are acknowledged by the endpoint without a
record; one failed call, directory syncs that fail, one end of the process or the host.
`ForwardedIsStored`, `ForwardedInOrder`, `RecordedOnce`, `CountersAgree`,
`EveryCaptureDelivered`, `EveryTurnEnds`, and `TrailKept`: the composition implements
`AuditTrail`, fairness included.

**Components that share nothing** are explored by three runs, each with a variable `part`
that `Init` chooses and no step changes.  `Alone(p, Step)` takes a step of part `p`
and leaves the variables of the others at their initial state, so that the state
space is the sum of those of the parts.  Each MC module extends one component, whose
constants the cfg gives values to and whose properties the run checks as they are
(`RequestGate` in `services`, `RuntimeControl` in `console`, `Session` in `progress`);
the others are instances.  A property of the run joins those of a component;
`part = p =>` guards it where the frozen variables do not fit it.  What is joined has
names of its own in the components (`ResolvedIsStored`, `OwnAnswer`, ...), and the
theorems of section 4 state these.

| run | part | instance | properties it takes part in |
|---|---|---|---|
| `services` | `deleting` | a mirrored prompt and one of a WebSocket, two deletions, changing retention | `RecordsComplete` |
| | `purging` | a message sent twice, two purges, a failure, a crash | `RecordsComplete`, `PurgedStaysHidden` |
| | `mirroring` | three prompts of two images, two writers, a full queue, a failure | `RecordsComplete` |
| | `turning`, `repeating` | three turns of one connection; three repeats of a tool result on two | `ListFaithful` |
| | `parsing` | every shape of an item, images around the limits | `CaptureWithinRules` |
| | `limits` | two panels, two saves, a failed write, a crash | `NoLostUpdate` |
| | `gate` | two large requests and a socket of two users, a failed call | `GateAccounted`, `OneResponse` |
| `console` | `store` | an account configured, removed and added again, six updates, a failed write, a crash | `StoreHonest` |
| | `timing`, `limiting` | one job, two saves and a failure; user limits with an exempt user, three saves, two changes of the hour | `EngineSound` |
| | `estimating` | four percentages of three buckets, one with two costs, three settings, an edit, two windows, runs that fail | `EngineSound` |
| | `configuring` | files and forms around one valid configuration, every number at its bounds, up to three windows and two accounts | `SettingsSound` |
| | `form` | two accounts, two groups, three emails, four edits | `SettingsSound` |
| | `offering`, `moving`, `ending` | three windows, one early, with or without a sign of it; five subscriptions in pages of two that move; four of which some end | `ResetsHold` |
| | `reports`, `orders`, `proxies` | two browsers and one account whose groups change, or their order; three sets of accounts | `ReportsShared` |
| | `runtime` | two values per parameter, two tasks, an edit, two failures, a restart | `TasksHonest` |
| | `list` | two ranges, a filter the server refuses, two pages, one revision | `ListShowsAsked` |
| `progress` | `gate`, `panel`, `peak`, `storing`, `runtime`, `audit`, `proxies` | the smallest instances with a failure and a restart where the code has them | `ServersProgress` |
| | `browser` | one request at a time, three pairs, one answer of a Sub2API in trouble, of any status | `SessionSafe`, `BrowserProgress` |
| | `layers`, `singles` | the dialogs of shell, page and session record, removed together or one by one | `DialogsHold`, `BrowserProgress` |
| | `animated`, `still` | confirmations with and without the closing animation | `DialogsHold`, `BrowserProgress` |

Every run of this table also checks the types of all its parts (`TypesOK`).

**Why these bounds are enough.**  The hazards need two of what they are about - two
writers, two panels, two messages, two nested dialogs, two windows of a schedule - and
one failure or restart between two steps; the third message, window or update is
there where the first two are what the third is compared with (a history, a merge of
repeats, a queue with one entry under way).  Limits are placed so that one more unit
exceeds them.

**Fairness in `relay` and `progress`.**  Weak fairness of the steps the event loop owes:
a call ends with an answer or at its timeout, a timer fires, the page polls while it
is in the foreground, an access token expires, a process that ended is started again
by its supervisor, days pass for the retention.  Nothing is assumed of operators, of
failures (their bound ends them) or of the order in which components answer.  All
liveness of `progress` is of the form []<> or <>[]: "a slot is free again and
again", "from some point on the limits are those of the hour".

## 4. Proofs

TLAPS checks the following for every value of the constants that satisfies the named
assumptions of each module: those of `AccountState` for the account,
`SubscriptionParameters`, `RelayParameters`, `AuditParameters`, `ListParameters`,
`GateParameters`, `LimitsParameters`, `StoreParameters`, `SchedulerParameters`,
`RuntimeParameters`, `SessionParameters`, `PageParameters`, `ReportParameters`,
`FormParameters`, `ConfirmationParameters` and `ConfigParameters` for the others. These
say that bounds are natural numbers and that sets of users or connections are what the
code makes of them; `NoneIsNoRow`, `NoneIsNoLimit` and the like say that the null value
is no value. `ListParameters` says that risky records are kept at least as long as
others, as the schema of the file requires (`config.ts:192`). `FormParameters` says that
the page was opened with a configuration the server accepts. `ConfigParameters` says
that forms and files have the fields of the schemas with values of their types, that a
trimmed text stays as it is when trimmed again and a lower-cased one when lower-cased,
and that an email is one still in lower case; any number, list or text else is allowed.
The cfgs give constants with these properties, and TLC evaluates each of them.

| module | theorem | states | further assumption |
|---|---|---|---|
| `AccountSyncProofs` | `TypeCorrect` | `TypeOK` | |
| | `RedistributionOff` | `RedistributionTurnedOff` | `~StaleForms` |
| | `WindowHandledOnce` | `OneEventPerWindow` | `"shift" \notin Moves` |
| | `ProgressRecorded` | `ProgressIsReal` | `"shift" \notin Moves` |
| | `EventClosed` | `EventClosesComplete` (action property) | `"shift" \notin Moves` |
| | `RaisesInLedger` | `RaisesAreInLedger` | `Moves = {}` |
| | `MembersReset` | `MembersResetAtBaseLimit` | `Moves = {}` |
| | `LimitsStay` | `IssuedLimitsKept` | `Moves = {}` |
| | `GrantsCovered` | `GrantsWithinCapacity` | `Moves = {}` |
| | `NoneTwice` | `NoneResetTwice` of `SubscriptionPages` | |
| | `EachOnce` | `EachResetOnce` of `SubscriptionPages` | `~Ending` |
| `WsRelayProofs` | `ForwardedStays`, `ForwardedOrdered`, `OneRow` | `ForwardedIsStored`, `ForwardedInOrder`, `RecordedOnce` | |
| | `CountersHold`, `RelayTypeCorrect` | `CountersAgree`, `TypeOK` | |
| | `TrailFollowed` | the safety part of `AuditTrail` (refinement) | |
| `AuditProofs` | `AuditTyped`, `QueueIsCounted` | `TypeOK`, `QueueCounted` | |
| | `AcknowledgedRecorded`, `RecordedAtMostOnce`, `PurgedHidden` | `AcknowledgedIsRecorded`, `RecordedOnce`, `PurgedStaysHidden` | |
| | `ImagesAreKept` | `ImagesKept` | |
| | `ImagesAreReadable` | `ImagesReadable` | no failure, no crash |
| | `FailuresLeaveNoFile` | `FailedInsertLeavesNoFile` | one failure at most, no crash |
| | `NoneIsLost`, `EachListedOnce`, `RiskStaysShown` | `NoneLost`, `ListedOnce`, `RiskShown` of `PromptList` | |
| | `RepeatsAreMerged`, `RepeatsAreCounted`, `DetailAsListed` | `RepeatsMerged`, `RepeatsCounted`, `DetailIsListed` of `PromptList` | |
| `GateProofs` | `AccountsOfGate` | `GateAccounted`, which joins the next four | |
| | `CountOfSlots`, `ChannelHolds`, `LimitsHold`, `SpoolFollows` | `SlotsCounted`, `ChannelBounded`, `LimitsEnforced`, `SpoolIsLive` | |
| | `ResponseIsOne`, `GateTyped` | `OneResponse` (action property), `TypeOK` | |
| | `LimitsTyped`, `RecordsNameChanges` | `TypeOK`, `RecordsAreChanges` of `RequestLimits` | |
| | `UpdateNotLost`, `ChangesReal` | `NoLostUpdate`, `ChangesAreReal` of `RequestLimits` (action properties) | |
| `StoreProofs` | `StoreTyped`, `ResolvedStays`, `RejectedIsGone` | `TypeOK`, `ResolvedIsStored`, `RejectedStaysOut` | |
| | `OneAhead`, `AccountsStartAfresh` | `AheadByOne`, `ForgottenIsForgotten` | |
| `SchedulerProofs` | `SchedulerTyped`, `NoOverlap`, `TimersStayAlive` | `TypeOK`, `RunsDoNotOverlap`, `TimersAlive` | |
| | `DisabledLeavesIdle` | `DisabledIsIdle` | no failure, no crash |
| `RuntimeProofs` | `RuntimeTyped`, `ResultShown` | `TypeOK`, `ResultIsTrue` | `job.json` can be written |
| | `VersionStays`, `EditsStay` | `VersionKept`, `EditsKept` | `job.json` can be written |
| | `TasksAreHonest` | `TasksHonest`, which joins these three | `job.json` can be written |
| `ConsoleProofs` | `SessionTyped`, `AdminsOnly` | `TypeOK`, `OnlyAdmins` of `Session` | |
| | `LogoutFinal`, `SessionStays` | `LogoutIsFinal`, `SessionKept` (action property) | one request at a time |
| | `SafeSession` | `SessionSafe`, which joins `OnlyAdmins` and these two | one request at a time |
| | `ProxiesBelong` | `ShownBelongs` of `InfrastructureCache` | |
| | `RowsAreAsked` | `TypeOK` and `ShownIsAsked` of `PromptPage` | |
| | `BeginsAtFirst`, `TurnsWithinAnswer` | `FirstPage`, `TurnedWithinAnswer` (action properties) | |
| | `ReportsBounded`, `OwnReports`, `ReadOnce`, `ReportsFresh` | `TypeOK`, `OwnAnswer`, `OneReadPerKey`, `Fresh` of `AnalyticsCache` | |
| | `DialogTyped`, `SentAsTyped` | `TypeOK`, `SentAsConfirmed` (action property) of `Confirmation` | |
| | `NoRepeatedRequest`, `DialogAnswersItsOwn` | `NoRepeat`, `AnswerItsOwn` (action property) | no closing animation |
| | `DraftEditable`, `OneOwner`, `OneAccountEach`, `SavedAccepted` | `TypeOK` and `Editable`, `GroupsApart`, `EmailsApart`, `SavedWasAccepted` of `SettingsForm` | |
| | `ConfigReloads`, `PutsBack` | `Reloads`, `PutBackIsNeutral` of `Config` | |
| | `OneEntry`, `GroupsOwned`, `WindowsApart` | `TypeOK` and `OneEntryPerAccount`, `OneOwner`, `OneWindow` of `Config` | |

Each module opens with its inductive invariant; one lemma per action follows, and the
theorems are at the end of their sections.

### The account

*Type correctness* is not inductive alone: a resumed step reads the stored event,
the base limit or the round it expects to find.  `TypedTask == TypeOK /\ TaskOK`
adds what each `pc` takes for granted; one lemma per action shows it preserved.

*Redistribution off.*  Between the step that turns the flag off and the one that
closes the event the administrator may turn it on again, and the event may be
interrupted and resumed.  `OffWhileResetting` carries "off, or turned on in this
window" over these steps.  The assumption is what the third finding of section 5
violates.

*One event per window* rests on `WindowsInOrder`: the windows of `lastHandled`,
the baseline and a detected or stored event are in that order, and every
observation of the current window is within the tolerance of its true end
(`IsCurrent`).  A detection therefore is of a later window (`NewIsLater`).

*Progress* rests on `WipedInOrder`, which says that a new event finds no
subscription reset for its window, and `ProgressTrails`, which says that only the
first of the remaining subscriptions may have been reset.  `EventClosesComplete`
follows from the same invariant.

*The ledger.*  The two jobs tell windows apart by the reported times alone.
`WindowsKnown` says that this gives the order of the true windows among all reports
that are in use together: the baseline, the handled window, the stored event, the
ledger's window and what the running task has read.  It holds while a window ends
when it expires (`Moves = {}`).  With a moved end it is false, which is the second
finding of section 5 (`shifted_window`); an early rollover can bring the report of
an old window within the tolerance of a new one, and then the redistributor takes
one ledger for the other.  On that order rest what a group carries (`added` is at most
the sum of the ledger's rounds, and exactly the round in flight more while it is
written), the floor of the limits of the ledger's window, and the watermark: `granted`
of the window is at most `committed`, which is at most an amount that some estimate
allowed.  `RaisesInLedger` and `MembersReset` leave out the groups in `departed`: one that
is taken out keeps its raise, the event that restores base limits skips it
(`engine.ts:387-389`), and when it is put back afterwards it has its raise still (section 5,
item 15).  For every other group both hold whatever is edited.

*The pages of a reset.*  While no subscription ends, a subscription only moves back in
the list, by one place for each that begins before it.  `PagesInv` says that one that was
active throughout has been found if it stands before the first place of the page that is
read next: a subscription that begins moves the others towards the pages to come, and the
last page, whose number is that of the last answer, leaves none behind.  When one may end
(`Ending`), those after it move forward over the border of a page and may be missed, hence
the assumption of `EachOnce`.  `NoneTwice` needs no assumption: how often a subscription was
reset is a function of the set of completed ones.

### The relay

`RelayInv` relates the stage of a connection's first message to the files, the
operations of the outbox and the rows: a message that is being sent is kept, a promise
that was resolved is kept, what is removed was acknowledged; the upstream has the
messages 1 to n of a connection and the chain holds those from n + 1 on.  From it each
step of the relay is a step of `AuditTrail` or leaves its variables alone.  The
counters are bytes of a set of messages.  They are defined by the cardinality of a set of
(message, byte) pairs, so that adding and removing a message needs facts about finite sets
and no induction over a sum; `RelayParameters` therefore says that there are finitely
many connections.

### The audit

`AuditInv`: an insert has no file before it writes one, an uncommitted row exactly
between its INSERT and its end, and a committed row only afterwards; a request id is
claimed by one insert; the purge boundary is past what was erased.  An acknowledgement
then names a row, this insert's or the one it ran into, and only a deletion takes it
away.  `ImagesInv` follows the files of a row: complete while the insert has them and when it
is committed, taken away only by the insert's own catch or by a deletion that has locked the
row, which another deletion then waits for.  `ImagesAreKept` says so for all failures and
crashes, and leaves out what cannot hold: a deletion removes the files first and commits
afterwards, so that one that fails or dies in between leaves rows without their images until
the next clean-up; and the catch of an insert removes the files of a row that is there when
only the answer to its commit was lost (section 5, item 16).  `ImagesAreReadable` and
`FailuresLeaveNoFile` have no such exceptions, and need their conditions.
`QueueIsCounted` sums the bytes of a queue by cardinality, as the
relay does.

*The list.*  Its properties speak of what a query computes from the two tables, for tables
of any size; the only thing they need of the writers is `TypeOK`.  `EachListedOnce` is that
the window in which a log looks for its prompt is the mirror of the one in which a prompt
is told that a log may belong to it.  `NoneIsLost` goes the other way: a prompt that is not
waiting has such a log, which is hidden, or stands with this prompt or with one that is no
farther from it.  For the others, `RecordsAreTable` says that the rows
have distinct sources and ids, so that `Before` orders them (`BeforeOrders`).  A finite set
of rows then has a first one, which `LeastElement` shows by a smallest counterexample
(the proper subsets of finite sets are well-founded), and so every row that is not the first
of its partition has a last row before it (`LastRow`).  A row begins a group exactly when
that one is too long ago (`BeginsMeans`), hence rows within the gap are in one group
(`NearInOneGroup`) and rows of different groups are apart.  Each group has exactly one
row that represents it (`OneRepresents`, `OnlyOneRepresents`).  That the occurrences add up
goes by adding one group at a time (`RowsOfOneMore`, `OccurrencesAddUp`); for this the fold of
the community module is shown equal to a function that is written out.

### Gate, limits, store

*Gate.*  That slots are counted is an equation between `active` and the size of the
set of holders.  That the channel keeps to its size is harder, because a policy may
be lowered while slots are held: the invariant numbers the holders from 1 to `active`
such that each was admitted with a policy that allows its number (`Numbering`); a
release gives the last number to the holder of the freed one.  One response per
client follows from what each stage has sent (`RequestOK`).

*Limits.*  Only the save at the head of the queue replaces the file, so that what it has
compared still holds when it renames (`StageOK`); the recorded revisions rise and are
at most the file's (`RecordedOK`).

*Store.*  An update is in one place, the queue, the file or the rejected ones
(`UpdatesApart`), and the state that is read is the file or one update ahead of it
(`Ahead`); an account's state is what its updates since it was last left out make of it
(`Remembers`).

### Scheduler

`SchedulerInv`: the flag of a job is set from the first step of its run to the last and
no second run is begun beside it; a restoration in the queue of the user limits is
the only one and a save waits for it, so that timers may be missing only while a
save is under way.  `DisabledIsIdle` adds `IdleOK`: with the schedule off and no
restoration to come no write of a limit is under way.  A failure is excluded because a
save that failed after it had turned the schedule off is followed by one that restores
nothing (section 5), a crash because one between the file and the restoration
forgets the restoration.

### Runtime controller

`RuntimeInv`: a task that has not recorded in `job.json` that it changes something has
changed nothing, so that a rollback which finds this record missing may leave file and
container alone (`WorkOK`); the file a task writes is the one it found but for the values
and, for a new container, the version (`CandidateOK`), so that a new container made from
it runs what ran before; a rollback makes a new container exactly when the task did, and
then the backup holds the binary of that version.  An edit that comes before the check or
after the replacement is seen by the comparison that follows and is left in place
(`EditsOK`).  All of this supposes that `job.json` can be written (`MaxSaveFailures = 0`):
otherwise the task in memory and the one on disk part, which is the eighth point of the
second list of section 5.

### Session

`SessionInv` says what each stage of a request has of its pair: only a request behind
the check of the session has one, no pair of another account is kept in the cookie or in
a request, a pair that is being refreshed could not be used.  `AdminsOnly` follows for
any number of requests.  The other two need what the answer of a request will do to the
cookie (`CredentialsOK`: a request carries the pair of the cookie, or the cookie is spent, or
the request was turned away and has refreshed a pair that was good; a cookie is deleted only
for a reason) and what a logout leaves behind (`EndedOK`), and
these hold for one request at a time (`OneAtATime`): with two, the answer that comes last
may set or delete what the other has just set, which is the third point of the second list
of section 5.  `SessionStays` is about every answer the client can get, and says which of
them end a session: those to the pair, and a 401 or 403 of anything else that was given to
the request itself (the same point).  Network errors, statuses of 5xx, answers that are no
envelope and errors of other statuses do not, however refreshes are repeated and lost.

### Shared reports, proxies and the list

*Reports.*  `ReportsInv`: what is pending is a read under way and no key has two
(`ReadsOK`); a browser waits for the read of its own question (`ClientsOK`); a read is as
old as its queries have waited and been at work (`QueriesOK`, `ConnectionOK`), and a
shared result's age and the time it has left add up to no more than a wait, a statement
and the time of sharing (`ResultsOK`).  *Proxies.*  The value kept is of the accounts that it
was read for, which are compared when it is shown.  *List.*  `ListInv` says of each entry of
the query library that its rows are those of its key, or that its query failed, or that
it is being fetched; the rows of another key are shown only meanwhile.

### Dialogs and the form

*Confirmations.*  A dialog waits exactly while the request that it sent last is under way
(`DialogInv`); without the animation no other request is (`OneRequest`).  With it a
dialog that fades may be confirmed again (section 5), and only `SentAsTyped` remains.
*Form.*  `DraftOK` gives every account groups and an email of its own, and is kept by the
selects' options and by the chips that are removed during a save; the draft that was
sent keeps it too, so that what the page takes for saved was accepted.

### Configuration

`ConfigInv`: the file is what `toRawConfig` writes for some configuration, and the
configuration in use is what `parse` makes of it, with both schemas accepting it.  The
argument rests on parsing being idempotent (`ParsesOnce`), on `fromRaw` after `toRaw`
giving a parsed configuration back (`WrittenAsKept`), and on the page's schema accepting
what the file's schema accepts once it is parsed (`PageTakesWhatFileTakes`, `StaysAccepted`):
trimming and lower-casing make no two keys or emails equal that the check took for
different, because the check itself compares them so.  It follows too that the second
validation, in `toRawConfig`, never refuses what the first has accepted.

### What stays with TLC

Liveness and fairness (`EventCompleted`, `RolloverHandled`, `EveryCaptureDelivered`,
`EveryTurnEnds`, the fairness in `TrailKept`, `LimitsFollowSchedule`, `StoreRecovers`
and the rest of `ServersProgress` and `BrowserProgress`): the provers have no rule for
`ENABLED`.  `NewestEvents` of the store, the parser, the medians and sums of `Estimation` and
the history of `ResetCycles`: they are computed by recursion over sequences, filters and
sorts, which the provers do not see into.  `SettingsFollowed` and `StableWithinBucket`: the
first does not hold for every value of the constants (section 5, item 14), the second
speaks of medians.  `Dialogs` has six dialogs and one constant that matters, whether one
commit may remove several: `progress` explores every state of both cases, so that a proof
would show no more.  A property of a run that joins several components, such as
`EngineSound` or `ListFaithful`, is not proved as such: its parts are, for the components
above.

## 5. Where the code and the documents differ

1. `docs/specs/002-周期重置同步.md:5` promises that every subscription is reset only
   once.  `completeReset` resets first and records afterwards, so a lost answer or
   a restart in between repeats one reset (`repeated_reset`).  What does hold is
   `ProgressIsReal`.
2. `docs/specs/003-动态容量同步.md:16` promises that nothing is handed out twice in a
   window.  A `reset_at` that moves by more than the tolerance without any other
   sign of a new window is taken over as the baseline.  For the capacity job, which
   compares windows by `reset_at` alone, the ledger is then another window's: it writes
   the base limit to the group, and normally that takes the raise away before
   `redistribution.ts:33` starts a fresh ledger.  When this write fails, the run ends
   with its estimate stored; the next run keeps the estimate, writes no group and
   hands out the allowance again on top of the raised limit (`shifted_window`).
3. `docs/specs/003-动态容量同步.md:18` promises that the administrator has to turn
   redistribution on again in a new window.  A settings page opened before the
   rollover turns it on when any setting is saved (`stale_form`).

Each of these is a run whose property is what the document says.  Other differences
were met while the remaining components were modelled; the runs check what does hold
instead, and the models contain the behaviour described:

1. `server/ws-relay/outbox.ts:78`: a file whose directory sync fails is refused and not
   counted, but stays; with it the outbox can pass the limit that
   `docs/specs/007-WebSocket审计中继.md:14` states.
2. `server/prompt-audit/repository.ts:745`: rows committed between the SELECT and the DELETE
   of a purge are deleted without their image files; the comment at 741-743 and
   `docs/specs/006-提示词审计.md:26` say otherwise.  `:606`: a row whose transaction is open
   while new retention is applied keeps the old expiry (006:31).
3. `server/auth.ts:103`: two requests under way with one session are enough to lose it:
   the second is refused the refresh token that the first has spent and deletes the
   cookie; 001:10 gives two reasons only.  `SessionKept` is therefore checked with one
   request at a time.  `server/sub2api-client.ts:403-412` makes an error of the status of
   any page or error envelope: a 401 or 403 of a proxy in front of Sub2API, to the check or
   to the refresh, is taken for its word about the pair (`auth.ts:99-106`), and a good session
   is deleted.  `SessionKept` names this as a reason (`turned`).
4. `web/src/App.tsx:118`: a page that finds Sub2API unavailable when it loads never asks
   again, though `server/auth.ts:100` says that it is retried.
5. `server/automation/engine.ts:111`: when the restoration of user limits fails, saving
   again restores nothing (009:18).  `DisabledIsIdle` is checked without failures.
6. `server/prompt-audit/repository.ts:274`: a log of a WebSocket is listed with the prompt
   nearest in time, and its sequence number is not looked at (006:13).
7. `server/prompt-audit/parser.ts:239`: an `input_image` item without a role is taken for
   context that needs no review (006:10).
8. `deploy/runtime-control/controller.py:202`: an edit saved between the comparison and the
   replacement of `compose.yml` is overwritten (comment at 228).  `:175` and `:167`: when
   `job.json` cannot be written, two tasks may overlap, or none can begin until a
   restart (004:17).  The runs let no such write fail.
9. `web/src/components/Dialog.tsx:92`: two dialogs removed in one commit leave the page
   locked (008:35); `:38`: a confirmation sent while its dialog fades can be sent again
   (008:14).  `ScrollRestored` is checked for one removal per commit, `NoRepeat` without
   the animation.
10. `web/src/pages/InputHealthPage.tsx:550`: a query of a new key that fails replaces the
    rows of the last one (008:37).
11. `server/routes.ts:102`: two early resets within an hour are offered as two cycles and
    answered by one (005:12).  The early reset of `offering` is further apart.
12. `server/sub2api-client.ts:341`: a subscription that ends while the pages are read moves
    another one out of all of them (002:5).  `EachResetOnce` is checked for a list in
    which none ends.
13. `syncCapacity` stores the capacity although a group could not be written, so that the
    next run of the same percentage does not try that group again (003).  The second point
    of the first list begins with this.
14. `server/automation/engine.ts:548` (`allocationInputsChanged`): a run compares the settings
    with those of the capacity that was stored last, not with those of the estimate that it
    keeps.  A run stores its history and fails before it stores the capacity; the shares
    are changed; a run that is told of no usage at all takes no sample and stores a capacity
    with the earlier estimate and the new shares; a later run below one percent then keeps
    the estimate as the old shares split it, although 003:12 has every change of the settings
    followed.  It takes a minimum usage below one percent, which `config.ts:123` allows.
    `SettingsFollowed` is checked for a higher one, and is no theorem.

15. `server/automation/engine.ts:387-389`: an event restores the base limits of the groups that
    are managed when it is completed.  One that was taken out while it carried a raise is
    skipped, nothing is written when it leaves (`store.ts:89`) and nothing when it comes back:
    put back after the event of the next window, it has the earlier window's raise until a
    run of the capacity job has a new estimate to write (002:14, 003:18, 003-13).
16. `server/prompt-audit/repository.ts:613-616`: an insert whose COMMIT took effect but lost its
    answer removes its files; the record is listed, and its images cannot be opened.  A repeat
    of the message finds the row and does not write them again.  A purge or clean-up that
    fails after its first file leaves such records too, as its comment at 741-743 accepts.
17. `repository.ts:274`: a prompt is not listed as waiting when a log of its connection is near;
    when that log is hidden, by a purge or by its own expiry, or is listed with a prompt that
    is nearer, it is in no row (006:13).  Two logs may be listed with the same prompt, when the
    prompt of one of them was captured late or not at all.  `NoneLost` names these cases.
    `:774-777`: rows with their total and summary with its trend are two statements on two
    connections, as 006-08 has it, and may differ by what is committed in between; neither a
    run nor a theorem compares them.
18. `server/automation/estimation.ts:87-91`, `engine.ts:333-349`: an early reset that is seen
    without a drop of the usage is taken over as the baseline.  When no run of the capacity
    job has recorded the cycle that it ended, that cycle is in no list of the panel (005:12).
    `ChoiceStaysAnswered` leaves out this choice (`Overlooked`).
19. `server/request-limits/http-gateway.ts:137`: the directory of a request is removed in a
    `finally` of a handler whose promise nobody awaits; an error of `rm` ends the relay with
    all its connections.  What holds of the slots and the spool holds over this end.

## 6. Plan

Done: the account's jobs; scheduler, store, configuration and form; relay, outbox and
audit with the refinement; limits and gate; runtime manager; session; caches; the pages'
list, dialogs and confirmations; the proofs of section 4.

What is left, in this order:

1. Proofs about `ResetCycles`: a choice stays answered by its window.  The history has to
   be a set of cycles in order first, in the place of a sorted sequence.
2. The browser with two requests at a time, and `Estimation` for every minimum, once the
   third and the fourteenth point of section 5's second list are settled.

## 7. Not modelled

* Groups without a weekly limit, and limits changed by hand at Sub2API.
* A write that Sub2API applies after a later write of the same account, when the
  client gave up on it with a timeout.
* The connection of `Estimation` with the ledger: in `AccountSync` an estimate enters as
  any allocatable amount, which includes those that `Estimation` gives.
* That a report whose first query takes longer than five seconds fails, because its
  second query waits for the same connection (`server/analytics.ts:308`): the model
  has it (`FailRead`), nothing in the documents says how long a report may take.
* Unbanning a user, the storage report and the totals of a session report; parsing of
  Sub2API's bodies, decompression, headers and logging.
* The resource monitor (`deploy/resource-monitor/`): one writer and one reader of rows
  that never change.
* Charts, layout, navigation and the animated scenes (`VisualHero`, `LightTunnel`,
  `Ferrofluid`): rendering.
* nginx, installation scripts: run once, no state of the system.  The compression proxy
  beside a client (`deploy/codex-compression-proxy.mjs`) hands one request on and streams
  its answer: what is hard in it is the order of events inside Node's streams, all external.
* What is modelled from use only, as external: the query library, React's order of
  cleanups, the database's isolation, the refresh tokens of Sub2API.
