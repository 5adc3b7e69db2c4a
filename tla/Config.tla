--------------------------------- MODULE Config ---------------------------------
(***************************************************************************)
(* What config.ts accepts as a configuration, and the three forms it takes: *)
(* the form of the settings page and of the process (camelCase), and the    *)
(* form of the file (snake_case), which an operator also writes by hand.    *)
(*                                                                          *)
(* A settings form is put to the service, which keeps the parsed one and    *)
(* writes it to the file; a process starts from the file.  The order of the *)
(* write and its failures are in Scheduler.  Here only what is accepted     *)
(* and what each conversion makes of it matters.                            *)
(*                                                                          *)
(* Texts are opaque: Trimmed and Lower say what the text library makes of   *)
(* them.  A time of day is a pair <<hour, minute>>; percentages are tenths. *)
(***************************************************************************)
EXTENDS Integers, Sequences, FiniteSets

CONSTANTS
    Forms,          \* the settings forms that a client may put
    Written,        \* the configurations that an operator may have written to the file
    Trimmed,        \* [text -> text], String.trim
    Lower,          \* [text -> text], String.toLowerCase
    Keys,           \* the trimmed texts of 2 to 80 letters, digits and dashes
    Labels,         \* the trimmed texts of 1 to 120 characters
    Emails, Timezones,
    Nothing         \* no configuration: the process is not running

VARIABLES config, file
vars == <<config, file>>

-----------------------------------------------------------------------------
(* The schemas.                                                             *)

Within(record, ranges) ==
    \A f \in DOMAIN ranges : record[f] >= ranges[f][1] /\ record[f] <= ranges[f][2]

\* Groups and users are numbered from 1.
Ids(ids) == \A i \in DOMAIN ids : ids[i] >= 1
Distinct(s) == \A i, j \in DOMAIN s : s[i] = s[j] => i = j

ReserveFits(mode, value) == /\ value >= 0 /\ value <= 1000000
                            /\ mode = "percent" => value <= 100

RawAccount(a) ==
    /\ Trimmed[a.key] \in Keys /\ a.email \in Emails /\ Trimmed[a.label] \in Labels
    /\ Within(a, [share_count |-> <<1, 100>>])
    /\ ReserveFits(a.reserve_mode, a.reserve_value)
    /\ Ids(a.target_group_ids) /\ a.target_group_ids # <<>>

ToMinutes(t) == 60 * t[1] + t[2]

PeakWindows(windows) ==
    /\ Len(windows) \in 1..4
    /\ \A i \in DOMAIN windows : ToMinutes(windows[i].start) < ToMinutes(windows[i].end)
    /\ \A i, j \in DOMAIN windows : i < j =>
          ~ /\ ToMinutes(windows[i].start) < ToMinutes(windows[j].end)
            /\ ToMinutes(windows[j].start) < ToMinutes(windows[i].end)

RawSchedule(s) ==
    /\ Trimmed[s.timezone] \in Timezones
    /\ PeakWindows(s.peak_windows)
    /\ Within(s, [peak_concurrency |-> <<1, 100>>, idle_concurrency |-> <<1, 100>>,
                  peak_rpm |-> <<1, 10000>>, idle_rpm |-> <<1, 10000>>])
    /\ Ids(s.exempt_user_ids) /\ Len(s.exempt_user_ids) <= 10000 /\ Distinct(s.exempt_user_ids)
    /\ s.peak_concurrency <= s.idle_concurrency
    /\ s.peak_rpm <= s.idle_rpm

RawShape(r) ==
    /\ Ids(r.fixed_group_ids)
    /\ Within(r.reset_sync, [interval_seconds |-> <<30, 86400>>,
          request_timeout_seconds |-> <<1, 120>>, reset_at_tolerance_seconds |-> <<0, 3600>>,
          usage_drop_tolerance_percent |-> <<0, 1000>>])
    /\ Within(r.capacity_sync, [interval_seconds |-> <<60, 86400>>,
          minimum_used_percent |-> <<1, 1000>>, minimum_change_usd |-> <<0, 10000>>])
    /\ Within(r.prompt_audit, [max_request_body_mib |-> <<1, 16>>,
          normal_retention_days |-> <<1, 365>>, risk_retention_days |-> <<1, 3650>>])
    /\ RawSchedule(r.user_concurrency_schedule)
    /\ r.accounts # <<>> /\ \A i \in DOMAIN r.accounts : RawAccount(r.accounts[i])

\* The refinement of the whole: a group of a list is refused when it is fixed
\* or already claimed, by an earlier account or earlier in the same list.
Claims(r) ==
    LET a == r.accounts IN
    /\ r.prompt_audit.risk_retention_days >= r.prompt_audit.normal_retention_days
    /\ \A i, j \in DOMAIN a : i < j => /\ Trimmed[a[i].key] # Trimmed[a[j].key]
                                       /\ Lower[a[i].email] # Lower[a[j].email]
    /\ \A i \in DOMAIN a : \A g \in DOMAIN a[i].target_group_ids :
          LET group == a[i].target_group_ids[g] IN
          /\ \A f \in DOMAIN r.fixed_group_ids : r.fixed_group_ids[f] # group
          /\ ~ \E j \in DOMAIN a : \E h \in DOMAIN a[j].target_group_ids :
                  /\ j < i \/ (j = i /\ h < g)
                  /\ a[j].target_group_ids[h] = group

RawConfig(r) == RawShape(r) /\ Claims(r)

\* What the parsed file holds: keys, labels and the time zone are trimmed.
TrimmedAccount(a) == [a EXCEPT !.key = Trimmed[@], !.label = Trimmed[@]]
Parsed(r) ==
    [r EXCEPT !.user_concurrency_schedule.timezone = Trimmed[@],
              !.accounts = [i \in DOMAIN @ |-> TrimmedAccount(@[i])]]

ServiceSchedule(s) ==
    /\ Trimmed[s.timezone] \in Timezones
    /\ PeakWindows(s.peakWindows)
    /\ Within(s, [peakConcurrency |-> <<1, 100>>, idleConcurrency |-> <<1, 100>>,
                  peakRpm |-> <<1, 10000>>, idleRpm |-> <<1, 10000>>])
    /\ Ids(s.exemptUserIds) /\ Len(s.exemptUserIds) <= 10000 /\ Distinct(s.exemptUserIds)
    /\ s.peakConcurrency <= s.idleConcurrency
    /\ s.peakRpm <= s.idleRpm

\* The settings form; what it does not look at is looked at in the file's form.
ServiceConfig(c) ==
    /\ Ids(c.fixedGroupIds)
    /\ Within(c.resetSync, [intervalSeconds |-> <<30, 86400>>,
          requestTimeoutSeconds |-> <<1, 120>>, resetAtToleranceSeconds |-> <<0, 3600>>,
          usageDropTolerancePercent |-> <<0, 1000>>])
    /\ Within(c.capacitySync, [intervalSeconds |-> <<60, 86400>>,
          minimumUsedPercent |-> <<1, 1000>>, minimumChangeUsd |-> <<0, 10000>>])
    /\ Within(c.promptAudit, [maxRequestBodyMiB |-> <<1, 16>>,
          normalRetentionDays |-> <<1, 365>>, riskRetentionDays |-> <<1, 3650>>])
    /\ c.promptAudit.riskRetentionDays >= c.promptAudit.normalRetentionDays
    /\ ServiceSchedule(c.userConcurrencySchedule)
    /\ c.accounts # <<>>
    /\ \A i \in DOMAIN c.accounts :
          ReserveFits(c.accounts[i].reserveMode, c.accounts[i].reserveValue)

-----------------------------------------------------------------------------
(* The conversions.                                                         *)

FromRawAccount(a) ==
    [key |-> a.key, email |-> Lower[a.email], label |-> a.label,
     shareCount |-> a.share_count, redistributionEnabled |-> a.redistribution_enabled,
     reserveMode |-> a.reserve_mode, reserveValue |-> a.reserve_value,
     targetGroupIds |-> a.target_group_ids, enabled |-> a.enabled]

FromRaw(r) ==
    LET u == r.user_concurrency_schedule IN
    [fixedGroupIds |-> r.fixed_group_ids,
     resetSync |-> [intervalSeconds |-> r.reset_sync.interval_seconds,
         requestTimeoutSeconds |-> r.reset_sync.request_timeout_seconds,
         resetAtToleranceSeconds |-> r.reset_sync.reset_at_tolerance_seconds,
         usageDropTolerancePercent |-> r.reset_sync.usage_drop_tolerance_percent],
     capacitySync |-> [intervalSeconds |-> r.capacity_sync.interval_seconds,
         minimumUsedPercent |-> r.capacity_sync.minimum_used_percent,
         minimumChangeUsd |-> r.capacity_sync.minimum_change_usd],
     promptAudit |-> [maxRequestBodyMiB |-> r.prompt_audit.max_request_body_mib,
         normalRetentionDays |-> r.prompt_audit.normal_retention_days,
         riskRetentionDays |-> r.prompt_audit.risk_retention_days],
     userConcurrencySchedule |-> [enabled |-> u.enabled, timezone |-> u.timezone,
         peakWindows |-> u.peak_windows, exemptUserIds |-> u.exempt_user_ids,
         peakConcurrency |-> u.peak_concurrency, idleConcurrency |-> u.idle_concurrency,
         peakRpm |-> u.peak_rpm, idleRpm |-> u.idle_rpm],
     accounts |-> [i \in DOMAIN r.accounts |-> FromRawAccount(r.accounts[i])]]

ToRawAccount(a) ==
    [key |-> a.key, email |-> a.email, label |-> a.label,
     share_count |-> a.shareCount, redistribution_enabled |-> a.redistributionEnabled,
     reserve_mode |-> a.reserveMode, reserve_value |-> a.reserveValue,
     target_group_ids |-> a.targetGroupIds, enabled |-> a.enabled]

\* The same mapping stands in toRawConfig and in parseServiceConfig.
ToRaw(c) ==
    LET u == c.userConcurrencySchedule IN
    [fixed_group_ids |-> c.fixedGroupIds,
     reset_sync |-> [interval_seconds |-> c.resetSync.intervalSeconds,
         request_timeout_seconds |-> c.resetSync.requestTimeoutSeconds,
         reset_at_tolerance_seconds |-> c.resetSync.resetAtToleranceSeconds,
         usage_drop_tolerance_percent |-> c.resetSync.usageDropTolerancePercent],
     capacity_sync |-> [interval_seconds |-> c.capacitySync.intervalSeconds,
         minimum_used_percent |-> c.capacitySync.minimumUsedPercent,
         minimum_change_usd |-> c.capacitySync.minimumChangeUsd],
     prompt_audit |-> [max_request_body_mib |-> c.promptAudit.maxRequestBodyMiB,
         normal_retention_days |-> c.promptAudit.normalRetentionDays,
         risk_retention_days |-> c.promptAudit.riskRetentionDays],
     user_concurrency_schedule |-> [enabled |-> u.enabled, timezone |-> u.timezone,
         peak_windows |-> u.peakWindows, exempt_user_ids |-> u.exemptUserIds,
         peak_concurrency |-> u.peakConcurrency, idle_concurrency |-> u.idleConcurrency,
         peak_rpm |-> u.peakRpm, idle_rpm |-> u.idleRpm],
     accounts |-> [i \in DOMAIN c.accounts |-> ToRawAccount(c.accounts[i])]]

\* Mutant: the form is kept as it was sent.
AsSent(c) == c
ParseService(c) == FromRaw(Parsed(ToRaw(c)))
Accepted(c) == ServiceConfig(c) /\ RawConfig(ToRaw(c))
AcceptedForms == {c \in Forms : Accepted(c)}

-----------------------------------------------------------------------------

Init == config = Nothing /\ \E c \in Written : file = ToRaw(c)

\* loadConfig: the process does not start from a file that is refused.
Start ==
    /\ config = Nothing /\ RawConfig(file)
    /\ config' = FromRaw(Parsed(file))
    /\ UNCHANGED file

Stop == config # Nothing /\ config' = Nothing /\ UNCHANGED file

\* PUT /config and saveConfig.  toRawConfig parses what it writes; a refusal
\* there would leave the file and answer an error.
PutConfig ==
    \E c \in AcceptedForms :
        /\ config # Nothing
        /\ LET new == ParseService(c) IN
           /\ RawConfig(ToRaw(new))
           /\ file' = Parsed(ToRaw(new))
           /\ config' = new

Next == Start \/ Stop \/ PutConfig
Spec == Init /\ [][Next]_vars

-----------------------------------------------------------------------------
(* Properties                                                               *)

\* The configuration in use is a complete one.
TypeOK == config # Nothing =>
    /\ DOMAIN config = {"fixedGroupIds", "resetSync", "capacitySync", "promptAudit",
                        "userConcurrencySchedule", "accounts"}
    /\ Len(config.accounts) >= 1
    /\ \A i \in DOMAIN config.accounts : config.accounts[i].email \in Emails

\* What the settings page put is what the next start reads: a configuration
\* that was accepted is never refused by loadConfig, nor read differently.
Reloads == config # Nothing => RawConfig(file) /\ FromRaw(Parsed(file)) = config

\* The settings page puts back the configuration it was answered, changed or
\* not: whatever came from a file is accepted from the page, and putting it
\* back changes nothing, so that the two schemas do not drift apart.
PutBackIsNeutral == config # Nothing => Accepted(config) /\ ParseService(config) = config

\* Each user group has one owner: over the fixed groups and the groups of all
\* accounts, no group is claimed twice, so that no limit is written by two
\* accounts' automation or on a group that is to stay fixed.
OneOwner == config # Nothing =>
    LET claims == UNION {{i} \X DOMAIN config.accounts[i].targetGroupIds :
                           i \in DOMAIN config.accounts}
        Group(p) == config.accounts[p[1]].targetGroupIds[p[2]]
        owned == {Group(p) : p \in claims}
    IN /\ Cardinality(owned) = Cardinality(claims)
       /\ \A f \in DOMAIN config.fixedGroupIds : config.fixedGroupIds[f] \notin owned

\* An account of OpenAI is managed once: what names it upstream is its email
\* without regard to case, and what names it in the state file is its key.
OneEntryPerAccount == config # Nothing =>
    \A i, j \in DOMAIN config.accounts : i # j =>
        /\ Lower[config.accounts[i].email] # Lower[config.accounts[j].email]
        /\ config.accounts[i].key # config.accounts[j].key

\* A minute of the day is in at most one peak window, and every window has one.
Inside(m, w) == 60 * w.start[1] + w.start[2] <= m /\ m < 60 * w.end[1] + w.end[2]
OneWindow == config # Nothing =>
    LET windows == config.userConcurrencySchedule.peakWindows
        starts == {60 * windows[i].start[1] + windows[i].start[2] : i \in DOMAIN windows}
    IN \A m \in starts : Cardinality({i \in DOMAIN windows : Inside(m, windows[i])}) = 1

-----------------------------------------------------------------------------
(* What the proofs assume of the constants.                                 *)

\* A body whose fields have the types of the form, each within a range or not.
TimesOfDay == Int \X Int
ResetForms == [intervalSeconds : Int, requestTimeoutSeconds : Int,
               resetAtToleranceSeconds : Int, usageDropTolerancePercent : Int]
CapacityForms == [intervalSeconds : Int, minimumUsedPercent : Int, minimumChangeUsd : Int]
AuditForms == [maxRequestBodyMiB : Int, normalRetentionDays : Int, riskRetentionDays : Int]
ScheduleForms ==
    [enabled : BOOLEAN, timezone : DOMAIN Trimmed,
     peakWindows : Seq([start : TimesOfDay, end : TimesOfDay]), exemptUserIds : Seq(Int),
     peakConcurrency : Int, idleConcurrency : Int, peakRpm : Int, idleRpm : Int]
AccountForms ==
    [key : DOMAIN Trimmed, email : DOMAIN Lower, label : DOMAIN Trimmed, shareCount : Int,
     redistributionEnabled : BOOLEAN, reserveMode : {"percent", "usd"}, reserveValue : Int,
     targetGroupIds : Seq(Int), enabled : BOOLEAN]
Configurations ==
    [fixedGroupIds : Seq(Int), resetSync : ResetForms, capacitySync : CapacityForms,
     promptAudit : AuditForms, userConcurrencySchedule : ScheduleForms,
     accounts : Seq(AccountForms)]

\* A text that was trimmed is trimmed, one in lower case is in lower case, and an
\* email in lower case is an email.
ConfigParameters ==
    /\ Forms \cup Written \subseteq Configurations
    /\ \A t \in DOMAIN Trimmed : Trimmed[t] \in DOMAIN Trimmed /\ Trimmed[Trimmed[t]] = Trimmed[t]
    /\ \A t \in DOMAIN Lower : Lower[t] \in DOMAIN Lower /\ Lower[Lower[t]] = Lower[t]
    /\ \A e \in Emails : e \in DOMAIN Lower /\ Lower[e] \in Emails
=============================================================================
