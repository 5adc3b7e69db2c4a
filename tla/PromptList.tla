------------------------------ MODULE PromptList ------------------------------
(***************************************************************************)
(* What the prompt audit lists (prompt-audit/repository.ts): the rows that  *)
(* recordsCte joins from the moderation logs of Sub2API and the captured    *)
(* prompts, the merging of repeated rows, the pages and totals of a query,  *)
(* a record's detail and a session.                                         *)
(*                                                                          *)
(* The state is the two tables as their writers leave them; PromptAudit has *)
(* the writers.  A turn is one input of a client: it is captured at most    *)
(* once and moderated at most once, in either order when its request is     *)
(* mirrored.  The queries are read from any state.                          *)
(***************************************************************************)
EXTENDS Integers, FiniteSetsExt

CONSTANTS
    Turns,          \* 1..n; the ids of a turn's prompt and log are its number
    Connection,     \* of each turn: the request id up to .ws.
    Kind,           \* of each turn: "user", or "tool" for a continuation
    Content,        \* hash of each turn's text
    None,
    JoinBack, JoinAhead, \* 10 and 2 minutes
    DuplicateGap,   \* 5 minutes
    NormalDays, RiskDays,
    Verdicts,       \* that the moderation gives: "clear", "error", "flagged"
    MaxDelay,       \* bounds: how late a captured prompt is inserted,
    MaxPurges, MaxTime

Statuses == {"clear", "error", "flagged", "pending", "not_required"}

ListParameters ==
    /\ Turns \subseteq Nat /\ IsFiniteSet(Turns) /\ None \notin Turns
    /\ Kind \in [Turns -> {"user", "tool"}] /\ Verdicts \subseteq {"clear", "error", "flagged"}
    /\ JoinBack \in Nat /\ JoinAhead \in Nat /\ DuplicateGap \in Nat
    /\ NormalDays \in Nat /\ RiskDays \in Nat /\ NormalDays <= RiskDays
    /\ MaxDelay \in Nat /\ MaxTime \in Nat

VARIABLES
    captured,       \* captured_at of each turn's prompt, or None
    expires,        \* expires_at of the prompt
    enriched,       \* has the prompt taken a verdict over
    log,            \* verdict and created_at of each turn's log, or None
    purgeBefore, purges,
    now

vars == <<captured, expires, enriched, log, purgeBefore, purges, now>>

Prompts == {t \in Turns : captured[t] # None}

TypeOK ==
    /\ captured \in [Turns -> (-MaxDelay)..MaxTime \cup {None}]
    /\ expires \in [Turns -> Int]
    /\ \A p \in Prompts : expires[p] - captured[p] \in {NormalDays, RiskDays}
    /\ enriched \in [Turns -> BOOLEAN]
    /\ log \in [Turns -> [verdict : Verdicts, at : 0..MaxTime] \cup {None}]
    /\ purgeBefore \in 0..now /\ purges \in 0..MaxPurges /\ now \in 0..MaxTime

Logs == {t \in Turns : log[t] # None}
Required(t) == Kind[t] = "user"
Distance(p, l) == IF captured[p] < log[l].at THEN log[l].at - captured[p]
                                             ELSE captured[p] - log[l].at
Days(risky) == IF risky THEN RiskDays ELSE NormalDays

Deadline(p, risky) == captured[p] + Days(risky)

----------------------------------------------------------------------------
(* recordsCte.                                                              *)

\* The log lies in the prompt's window, which is the mirror of the log's.
LogNear(p, l) == log[l].at \in captured[p] - JoinAhead .. captured[p] + JoinBack

PromptNear(p, l) == captured[p] \in log[l].at - JoinBack .. log[l].at + JoinAhead

VisiblePrompts == {p \in Prompts : expires[p] > now /\ captured[p] >= purgeBefore}
Candidates(l) == {p \in VisiblePrompts : Connection[p] = Connection[l] /\ PromptNear(p, l)}

\* The nearest in time, the newest id of these.
Nearest(distance) ==
    IF DOMAIN distance = {} THEN None
    ELSE Max({t \in DOMAIN distance : \A u \in DOMAIN distance : distance[t] <= distance[u]})

Joined(l) == Nearest([p \in Candidates(l) |-> Distance(p, l)])

Status(l, p) ==
    IF log[l].verdict # "clear" THEN log[l].verdict
    ELSE IF ~Required(IF p = None THEN l ELSE p) THEN "not_required"
    ELSE "clear"

ReviewedRow(l, p) ==
    [source |-> "reviewed", turn |-> l, prompt |-> p, at |-> log[l].at, status |-> Status(l, p),
     required |-> Required(IF p = None THEN l ELSE p),
     identity |-> IF p = None THEN <<"excerpt", Kind[l], Content[l]>>
                  ELSE <<"prompt", Kind[p], Content[p]>>]

VisibleLogs ==
    {l \in Logs : /\ log[l].at + Days(log[l].verdict = "flagged") > now
                  /\ log[l].at >= purgeBefore}

Reviewed(start) ==
    {ReviewedRow(l, Joined(l)) : l \in {l \in VisibleLogs : log[l].at >= start}}

CapturedRow(p) ==
    [source |-> "captured", turn |-> p, prompt |-> p, at |-> captured[p],
     status |-> IF Required(p) THEN "pending" ELSE "not_required",
     required |-> Required(p), identity |-> <<"prompt", Kind[p], Content[p]>>]

\* A prompt is listed alone when no log may belong to it: also none that is
\* joined with another prompt, or that is not listed itself.
Captured(start) ==
    {CapturedRow(p) :
        p \in {p \in VisiblePrompts :
                  /\ captured[p] >= start
                  /\ ~\E l \in Logs : Connection[p] = Connection[l] /\ LogNear(p, l)}}

Records(start) == Reviewed(start) \cup Captured(start)

----------------------------------------------------------------------------
(* dedupedRecordsCte.  Two rows of one instant and id come from different   *)
(* tables; the order of such rows, which the query leaves open, is fixed.   *)

Before(a, b) ==
    \/ a.at < b.at
    \/ a.at = b.at /\ a.turn < b.turn
    \/ a.at = b.at /\ a.turn = b.turn /\ a.source = "captured" /\ b.source = "reviewed"

Same(r, rows) == {q \in rows : q.identity = r.identity}
Earlier(r, rows) == {q \in Same(r, rows) : Before(q, r)}

\* Mutant: the gap is measured from the first row of the partition.
FarFromFirst(r, rows) ==
    LET earlier == Earlier(r, rows)
    IN  earlier = {} \/ r.at - Min({q.at : q \in earlier}) > DuplicateGap

\* A row begins a group when LAG finds none, or one too long ago.
Begins(r, rows) ==
    LET earlier == Earlier(r, rows)
    IN  earlier = {} \/ r.at - Max({q.at : q \in earlier}) > DuplicateGap

\* The running sum that numbers the groups of a partition.
GroupNumber(r, rows) ==
    Cardinality({q \in Earlier(r, rows) \cup {r} : Begins(q, rows)})

Group(r, rows) == {q \in Same(r, rows) : GroupNumber(q, rows) = GroupNumber(r, rows)}

Severity(r) == CASE r.status = "flagged" -> 2 [] r.status = "error" -> 1 [] OTHER -> 0

Represents(r, rows) ==
    \A q \in Group(r, rows) \ {r} :
        \/ Severity(r) > Severity(q)
        \/ Severity(r) = Severity(q) /\ Before(q, r)

Deduped(rows) == {r \in rows : Represents(r, rows)}

----------------------------------------------------------------------------
(* The queries.                                                             *)

\* timeFilters without a start: nothing is captured before.
Always == -MaxDelay

\* The listed rows: filtered first, then merged.
List(start, statuses) == Deduped({r \in Records(start) : r.status \in statuses})

Occurrences(r, rows) == Cardinality(Group(r, rows))

\* detail: the rows with the id of a listed one, without a filter on time.
Detail(source, turn) == {r \in Records(Always) : r.source = source /\ r.turn = turn}

\* session: here the session of a connection; a log without its prompt has none.
Session(c) == {r \in Records(Always) : r.prompt # None /\ Connection[r.prompt] = c}

----------------------------------------------------------------------------
(* The writers.                                                             *)

Capture(t) ==
    /\ captured[t] = None
    /\ \E delay \in 0..MaxDelay :
          /\ captured' = [captured EXCEPT ![t] = now - delay]
          /\ expires' = [expires EXCEPT ![t] = now - delay + NormalDays]
    /\ UNCHANGED <<enriched, log, purgeBefore, purges, now>>

Moderate(t) ==
    /\ log[t] = None
    /\ \E v \in Verdicts : log' = [log EXCEPT ![t] = [verdict |-> v, at |-> now]]
    /\ UNCHANGED <<captured, expires, enriched, purgeBefore, purges, now>>

\* enrich: a prompt takes the verdict of the nearest log over, once.
Enrich(p) ==
    /\ p \in VisiblePrompts /\ Required(p) /\ ~enriched[p]
    /\ LET near == {l \in Logs : Connection[l] = Connection[p] /\ LogNear(p, l)}
           l == Nearest([q \in near |-> Distance(p, q)])
       IN  /\ l # None
           /\ expires' = [expires EXCEPT ![p] = Deadline(p, log[l].verdict = "flagged")]
    /\ enriched' = [enriched EXCEPT ![p] = TRUE]
    /\ UNCHANGED <<captured, log, purgeBefore, purges, now>>

\* A purge hides what came before it from every query, rows it deletes or not.
Purge ==
    /\ purges < MaxPurges /\ purges' = purges + 1
    /\ purgeBefore' \in purgeBefore + 1 .. now
    /\ UNCHANGED <<captured, expires, enriched, log, now>>

Tick ==
    /\ now < MaxTime /\ now' = now + 1
    /\ UNCHANGED <<captured, expires, enriched, log, purgeBefore, purges>>

Init ==
    /\ captured = [t \in Turns |-> None] /\ expires = [t \in Turns |-> 0]
    /\ enriched = [t \in Turns |-> FALSE] /\ log = [t \in Turns |-> None]
    /\ purgeBefore = 0 /\ purges = 0 /\ now = 0

Next ==
    \/ \E t \in Turns : Capture(t) \/ Moderate(t) \/ Enrich(t)
    \/ Purge \/ Tick

Spec == Init /\ [][Next]_vars

----------------------------------------------------------------------------
(* Properties.                                                              *)

\* The two halves of the query never list one prompt twice over: a prompt that
\* a log is listed with is not also listed as waiting for its review.
ListedOnce ==
    \A c \in {Connection[t] : t \in Turns} :
        \A r, q \in Session(c) :
            r.source = "reviewed" /\ q.source = "captured" => r.prompt # q.prompt

\* A prompt that may be seen is in a row, waiting or reviewed, unless a log of
\* its connection is close to it that is hidden itself, or that stands with a
\* prompt which is no farther from it.
NoneLost ==
    \A p \in VisiblePrompts :
        \/ \E r \in Records(Always) : r.prompt = p
        \/ \E l \in Logs :
              /\ Connection[l] = Connection[p] /\ LogNear(p, l)
              /\ \/ l \notin VisibleLogs
                 \/ Joined(l) # None /\ Distance(Joined(l), l) <= Distance(p, l)

\* Merging never hides a verdict: every flagged row of the range is in a group
\* that a flagged row stands for, whatever repeats came after it.
RiskShown ==
    \A start \in 0..now :
        LET rows == Records(start)
            flagged == {q \in List(start, Statuses) : q.status = "flagged"}
        IN  \A r \in rows : r.status = "flagged" => Group(r, rows) \cap flagged # {}

\* Calls that repeat within five minutes are merged, however long the chain of
\* them is: rows of different groups are farther apart.
RepeatsMerged ==
    LET rows == Records(Always)
    IN  \A r \in rows : \A q \in Same(r, rows) \ Group(r, rows) :
            r.at - q.at > DuplicateGap \/ q.at - r.at > DuplicateGap

\* No row of the range is counted twice and none is left out of the counts:
\* the occurrences of the listed records add up to the rows they stand for.
RepeatsCounted ==
    \A start \in 0..now :
        LET rows == Records(start)
        IN  MapThenSumSet(LAMBDA r : Occurrences(r, rows), List(start, Statuses))
                = Cardinality(rows)

\* The detail of a listed record is the record that was listed, although the
\* list restricts both tables in time and the detail does not.
DetailIsListed ==
    \A start \in 0..now : \A r \in List(start, Statuses) : Detail(r.source, r.turn) = {r}

=============================================================================
