------------------------------- MODULE ResetCycles -------------------------------
(***************************************************************************)
(* The history of an account's reset cycles: what the two jobs record of it *)
(* (automation/engine.ts), which cycles the analytics panel offers           *)
(* (AccountAnalyticsPanel.tsx) and which window the server reads for one     *)
(* (routes.ts).                                                             *)
(*                                                                          *)
(* A cycle begins a week before its resetAt, so that resetAt stands for it.  *)
(* The runs of one account follow each other (accountQueues): a run is one   *)
(* action, with an outcome for each place where it can fail.                 *)
(***************************************************************************)
EXTENDS Integers, Sequences, SequencesExt, FiniteSetsExt

CONSTANTS
    Week,           \* SEVEN_DAYS_SECONDS
    Match,          \* RESET_CYCLE_MATCH_TOLERANCE_SECONDS, an hour
    Tolerance,      \* resetSync.resetAtToleranceSeconds, at most an hour
    Jitter,         \* how far a reported resetAt is below the true one
    EarlyResets,    \* by how much a window's end moves when it is reset early
    MaxHistory,     \* MAX_CYCLE_HISTORY
    MaxWindows,     \* bound: number of windows
    None

VARIABLES
    quota,      \* upstream: [end, number] of the window
    reset,      \* [observation, lastHandledResetAt, pendingEvent], each a resetAt or None
    seen,       \* the windows that reset's two observations are of (their used percentage)
    capacity,   \* capacity.resetAt, or None
    cycles      \* [resetAt, status, of], newest first; of: the windows observed in it

vars == <<quota, reset, seen, capacity, cycles>>

Windows == 1..MaxWindows
Times == -Week..(MaxWindows + 1) * Week
Statuses == {"current", "completed"}

Distance(a, b) == IF a >= b THEN a - b ELSE b - a
isSameResetWindow(a, b) == Distance(a, b) <= Tolerance

\* Array.find
FirstWith(Test(_)) ==
    LET found == {i \in DOMAIN cycles : Test(cycles[i])}
    IN IF found = {} THEN None ELSE cycles[Min(found)]
CycleOf(observation) == FirstWith(LAMBDA c : isSameResetWindow(c.resetAt, observation))
Or(a, b) == IF a # None THEN a ELSE b

NewestFirst(list) ==
    LET sorted == SortSeq(list, LAMBDA c, d : c.resetAt > d.resetAt)
    IN SubSeq(sorted, 1, Min({MaxHistory, Len(sorted)}))

TypeOK ==
    /\ quota \in [end : Times, number : Windows]
    /\ seen \in [observation : Windows \cup {None}, pendingEvent : Windows \cup {None}]
    /\ reset \in [observation : Times \cup {None}, lastHandledResetAt : Times \cup {None},
                  pendingEvent : Times \cup {None}]
    /\ capacity \in Times \cup {None}
    /\ Len(cycles) <= MaxHistory
    /\ \A i \in DOMAIN cycles :
          cycles[i] \in [resetAt : Times, status : Statuses, of : SUBSET Windows]

Init ==
    /\ quota = [end |-> Week, number |-> 1]
    /\ reset = [observation |-> None, lastHandledResetAt |-> None, pendingEvent |-> None]
    /\ seen = [observation |-> None, pendingEvent |-> None]
    /\ capacity = None /\ cycles = <<>>

-----------------------------------------------------------------------------
(* The history.                                                             *)

\* recordCycleObservation
Recorded(observation) ==
    LET previous == CycleOf(observation)
        resetAt  == IF previous = None THEN observation ELSE previous.resetAt
        of       == IF previous = None THEN {} ELSE previous.of
        others   == SelectSeq(cycles, LAMBDA c : c.resetAt # resetAt)
    IN NewestFirst(<<[resetAt |-> resetAt, status |-> "current", of |-> of \cup {quota.number}]>>
          \o [i \in DOMAIN others |-> [others[i] EXCEPT !.status = "completed"]])

\* Mutant: nothing is kept of a window that no capacity run has recorded.
FinalizedIfRecorded(observation) ==
    [i \in DOMAIN cycles |->
        IF isSameResetWindow(cycles[i].resetAt, observation)
          THEN [cycles[i] EXCEPT !.status = "completed"] ELSE cycles[i]]
\* finalizeCycle
Finalized(observation) ==
    LET current == CycleOf(observation)
        same    == IF capacity # None /\ isSameResetWindow(capacity, observation)
                     THEN capacity ELSE None
        resetAt == IF current # None THEN current.resetAt ELSE Or(same, observation)
        of      == IF current # None THEN current.of ELSE {}
    IN NewestFirst(<<[resetAt |-> resetAt, status |-> "completed", of |-> of \cup {seen.observation}]>>
          \o SelectSeq(cycles, LAMBDA c : ~isSameResetWindow(c.resetAt, observation)))

-----------------------------------------------------------------------------
(* The jobs.                                                                *)

Observations == {quota.end - j : j \in Jitter}

\* syncCapacity; it may fail before saveCapacity.
SyncCapacity(observation, saved) ==
    LET previous == CycleOf(observation)
        same     == IF capacity # None /\ isSameResetWindow(capacity, observation)
                      THEN capacity ELSE None
    IN
    /\ cycles' = Recorded(observation)
    /\ capacity' = IF ~saved THEN capacity
                   ELSE IF previous # None THEN previous.resetAt ELSE Or(same, observation)
    /\ UNCHANGED <<quota, reset, seen>>

\* A window is new when its end moved and its usage dropped, or the end of the
\* last one had passed.  It has passed for a window that began no earlier; of a
\* window that began earlier there may be a sign or none.
isNewResetWindow(observation, sign) ==
    /\ observation > reset.observation + Tolerance
    /\ sign \/ quota.end - Week >= reset.observation

\* completeReset
Completed(resetting) ==
    [observation |-> resetting, lastHandledResetAt |-> resetting, pendingEvent |-> None]

\* syncReset of an account without a pending event, up to where it fails: when
\* it reads the subscriptions, in completeReset, or not at all.
SyncReset(observation, sign, upTo) ==
    /\ reset.pendingEvent = None
    /\ IF reset.observation = None \/ ~isNewResetWindow(observation, sign)
            \/ (reset.lastHandledResetAt # None /\ observation <= reset.lastHandledResetAt)
         THEN /\ upTo = "end"
              /\ reset' = [reset EXCEPT !.observation = observation]
              /\ seen' = [seen EXCEPT !.observation = quota.number]
              /\ UNCHANGED cycles
         ELSE /\ cycles' = Finalized(reset.observation)
              /\ reset' = CASE upTo = "subscriptions" -> reset
                            [] upTo = "reset" -> [reset EXCEPT !.pendingEvent = observation]
                            [] upTo = "end" -> Completed(observation)
              /\ seen' = CASE upTo = "subscriptions" -> seen
                           [] upTo = "reset" -> [seen EXCEPT !.pendingEvent = quota.number]
                           [] upTo = "end" -> [seen EXCEPT !.observation = quota.number]
    /\ UNCHANGED <<quota, capacity>>

\* A pending event is completed first; the observation of the same run is a
\* step of its own, as if another run made it.
CompletePending ==
    /\ reset.pendingEvent # None
    /\ reset' = Completed(reset.pendingEvent)
    /\ seen' = [observation |-> seen.pendingEvent, pendingEvent |-> None]
    /\ UNCHANGED <<quota, capacity, cycles>>

\* Upstream: the window ends, or it is reset early.
NewWindow(by) ==
    /\ quota.number < MaxWindows
    /\ quota' = [end |-> quota.end + by, number |-> quota.number + 1]
    /\ UNCHANGED <<reset, seen, capacity, cycles>>

Next ==
    \/ \E o \in Observations :
          \/ \E saved \in BOOLEAN : SyncCapacity(o, saved)
          \/ \E sign \in BOOLEAN, upTo \in {"subscriptions", "reset", "end"} :
                SyncReset(o, sign, upTo)
    \/ CompletePending
    \/ \E by \in EarlyResets \cup {Week} : NewWindow(by)

Spec == Init /\ [][Next]_vars

-----------------------------------------------------------------------------
(* The panel and the server.                                                *)

ObservedResetAt == Or(reset.pendingEvent, Or(reset.observation, capacity))
Inferred(resetAt, status) == [resetAt |-> resetAt, status |-> status]
Window(c) == [resetAt |-> c.resetAt, status |-> c.status]
Near(a, b) == Distance(a, b) <= Match

\* cycleOptions: the first is the current one.
CurrentOption ==
    LET saved == FirstWith(LAMBDA c : Near(c.resetAt, ObservedResetAt))
    IN IF saved = None THEN Inferred(ObservedResetAt, "current") ELSE Window(saved)
SavedOptions == {Window(c) : c \in Range(cycles)}
cycleOptions ==
    IF ObservedResetAt = None THEN SavedOptions
    ELSE LET known == {CurrentOption} \cup
                      {o \in SavedOptions : ~Near(o.resetAt, CurrentOption.resetAt)}
         IN known \cup {Inferred(CurrentOption.resetAt - i * Week, "completed") :
                          i \in {k \in 1..3 :
                                   \A o \in known : ~Near(o.resetAt, CurrentOption.resetAt - k * Week)}}

\* analyticsCycle
analyticsCycle(requested) ==
    LET saved == FirstWith(LAMBDA c : Near(c.resetAt, requested))
        observation == ObservedResetAt
        index == (2 * (observation - requested) + Week) \div (2 * Week)     \* Math.round
    IN IF saved # None THEN Window(saved)
       ELSE IF observation = None \/ index \notin 0..3
                 \/ ~Near(observation - requested, index * Week) THEN None
       ELSE Inferred(IF index = 0 THEN observation ELSE requested,
                     IF index = 0 THEN "current" ELSE "completed")

-----------------------------------------------------------------------------
(* Properties                                                               *)

\* Every cycle that the panel offers is answered with its own window, also the
\* ones that the two sides infer, each with its own arithmetic.
OfferedIsAnswered == \A o \in cycleOptions : analyticsCycle(o.resetAt) = o

\* A moved end is taken over as the baseline, for want of a sign.
Overlooked ==
    /\ reset.observation # None /\ reset'.observation > reset.observation + Tolerance
    /\ UNCHANGED <<reset.lastHandledResetAt, cycles>>

\* The cycle of an earlier choice is answered with its window after any run of
\* the jobs, as long as the history has room for it; the current one, that no
\* run has recorded yet, also unless its end is overlooked.
ChoiceStaysAnswered ==
    [][\A o \in SavedOptions \cup (IF ObservedResetAt = None \/ Overlooked THEN {}
                                   ELSE {CurrentOption}) :
          \/ \E i \in 1..Len(cycles') : Len(cycles') = MaxHistory /\ cycles'[i].resetAt > o.resetAt
          \/ /\ analyticsCycle(o.resetAt)' # None
             /\ Near(analyticsCycle(o.resetAt)'.resetAt, o.resetAt)]_vars

\* A window's usage is reported under one cycle, and a cycle reports one window,
\* whatever jitter its observations have and whichever job saw it first.
OneCyclePerWindow ==
    \A i, j \in DOMAIN cycles :
        /\ i # j => cycles[i].of \cap cycles[j].of = {}
        /\ \A v, w \in cycles[i].of : v = w

=============================================================================
