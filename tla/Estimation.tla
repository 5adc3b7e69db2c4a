------------------------------ MODULE Estimation ------------------------------
(***************************************************************************)
(* The estimate of a window's capacity (automation/estimation.ts) as        *)
(* syncCapacity in engine.ts keeps it: the samples of the window, when it   *)
(* is made anew, and what the account's settings make of it.  What follows  *)
(* from an estimate, the writes to the groups, is in CapacitySync.          *)
(*                                                                          *)
(* Money is in cents, percentages are in tenths.  The quotients of costs    *)
(* and percentages are kept exact, as multiples of 1/Scale of a cent, until *)
(* the code rounds them.                                                    *)
(***************************************************************************)
EXTENDS Integers, SequencesExt

CONSTANTS
    Used,           \* percentages that the upstream reports
    Costs,          \* of each: the standard costs reported with it
    Settings,       \* [share, percent, value] of an account
    Minimum,        \* minimumUsedPercent
    Scale,          \* a multiple of every percentage
    MaxSamples, EstimateWindow, \* MAX_DISTINCT_CAPACITY_SAMPLES, CAPACITY_ESTIMATE_WINDOW
    None,
    MaxWindows, MaxEdits    \* bounds

EstimationParameters ==
    /\ Used \subseteq Nat /\ Costs \in [Used -> SUBSET Nat]
    /\ \A u \in Used \ {0} : Scale % u = 0
    /\ \A a \in Settings : a.share >= 1 /\ a.value >= 0 /\ (a.percent => a.value <= 1000)
    /\ EstimateWindow \in 1..MaxSamples

VARIABLES
    window,     \* the upstream's window
    account,    \* the account's settings
    capacity,   \* CapacityRuntime, with the settings of the run that saved it
    cycles,     \* estimate in the history, of each window
    edits

vars == <<window, account, capacity, cycles, edits>>

Windows == 1..MaxWindows
Sample == [used : Used \ {0}, cost : UNION {Costs[u] : u \in Used}]
Estimates == [capacity : Nat, reserve : Nat, allocatable : Nat, perShare : Nat]

TypeOK ==
    /\ window \in Windows /\ account \in Settings /\ edits \in 0..MaxEdits
    /\ cycles \in [Windows -> Estimates \cup {None}]
    /\ capacity # None =>
          /\ capacity.window \in Windows /\ capacity.used \in Used /\ capacity.by \in Settings
          /\ capacity.samples \in Seq(Sample) /\ Len(capacity.samples) <= MaxSamples
          /\ capacity.estimate \in Estimates \cup {None}

Init ==
    /\ window = 1 /\ account \in Settings
    /\ capacity = None /\ cycles = [w \in Windows |-> None] /\ edits = 0

-----------------------------------------------------------------------------
(* estimation.ts                                                            *)

Newest(samples, n) == SubSeq(samples, Max({1, Len(samples) - n + 1}), Len(samples))
Bucket(used) == used \div 10

\* roundUsd of n / d cents
roundUsd(n, d) == (2 * n + d) \div (2 * d)

appendDistinctCapacitySample(samples, used, cost) ==
    IF used = 0 \/ \E i \in DOMAIN samples : Bucket(samples[i].used) = Bucket(used)
      THEN samples
      ELSE Newest(Append(samples, [used |-> used, cost |-> cost]), MaxSamples)

resolveReserveUsd(cycleCapacity, a) ==
    IF a.percent THEN roundUsd(cycleCapacity * a.value, 1000) ELSE a.value

\* The capacity that one sample gives, in cents / Scale.
CycleEstimate(sample) == sample.cost * 1000 * (Scale \div sample.used)

\* Twice the median of a sequence of numbers.
TwiceMedian(numbers) ==
    LET sorted == SortSeq(numbers, <)
        middle == Len(numbers) \div 2
    IN  IF Len(numbers) % 2 = 1 THEN 2 * sorted[middle + 1]
        ELSE sorted[middle] + sorted[middle + 1]

estimateCapacity(cycleCapacity, a) ==
    LET reserve     == resolveReserveUsd(cycleCapacity, a)
        allocatable == Max({0, cycleCapacity - reserve})
    IN  [capacity |-> cycleCapacity, reserve |-> reserve, allocatable |-> allocatable,
         perShare |-> roundUsd(allocatable, a.share)]

estimateCapacityFromSamples(samples, a) ==
    LET estimates == [i \in DOMAIN samples |-> CycleEstimate(samples[i])]
    IN  estimateCapacity(roundUsd(TwiceMedian(estimates), 2 * Scale), a)

-----------------------------------------------------------------------------
(* The run of syncCapacity, up to what it saves.                            *)

Same == capacity # None /\ capacity.window = window

SamplesWith(used, cost) ==
    appendDistinctCapacitySample(IF Same THEN capacity.samples ELSE <<>>, used, cost)

Eligible(samples) == Newest(SelectSeq(samples, LAMBDA s : s.used >= Minimum), EstimateWindow)

\* stableCapacityEstimate: of the same window, or what the history has of it.
PreviousEstimate ==
    IF Same /\ capacity.estimate # None THEN capacity.estimate ELSE cycles[window]

PercentBucketAdvanced(used) == Same => Bucket(used) > Bucket(capacity.used)

\* Mutant: only the reserve is compared.
ReserveChanged ==
    /\ Same /\ PreviousEstimate # None
    /\ PreviousEstimate.reserve # resolveReserveUsd(PreviousEstimate.capacity, account)

AllocationInputsChanged ==
    /\ Same /\ PreviousEstimate # None
    /\ \/ PreviousEstimate.reserve # resolveReserveUsd(PreviousEstimate.capacity, account)
       \/ capacity.share # account.share

ShouldEstimate(used, samples) ==
    /\ Eligible(samples) # <<>>
    /\ PercentBucketAdvanced(used) \/ PreviousEstimate = None \/ AllocationInputsChanged

Estimate(used, samples) ==
    IF ShouldEstimate(used, samples)
      THEN estimateCapacityFromSamples(Eligible(samples), account)
      ELSE PreviousEstimate

\* A run with what the upstream reports, any usage and cost.  The history is
\* stored first; the run may fail before it saves the capacity.
SyncCapacity(used, cost, saved) ==
    LET samples  == SamplesWith(used, cost)
        estimate == Estimate(used, samples)
    IN
    /\ cycles' = IF ShouldEstimate(used, samples) THEN [cycles EXCEPT ![window] = estimate]
                 ELSE cycles
    /\ capacity' = IF ~saved THEN capacity
                   ELSE [window |-> window, used |-> used, share |-> account.share,
                         samples |-> samples, estimate |-> estimate, by |-> account]
    /\ UNCHANGED <<window, account, edits>>

NewWindow ==
    /\ window < MaxWindows /\ window' = window + 1
    /\ UNCHANGED <<account, capacity, cycles, edits>>

\* replaceConfig
Configure(a) ==
    /\ edits < MaxEdits /\ edits' = edits + 1
    /\ a # account /\ account' = a
    /\ UNCHANGED <<window, capacity, cycles>>

Next ==
    \/ \E u \in Used : \E c \in Costs[u] : \E saved \in BOOLEAN : SyncCapacity(u, c, saved)
    \/ NewWindow
    \/ \E a \in Settings : Configure(a)

Spec == Init /\ [][Next]_vars

-----------------------------------------------------------------------------
(* Properties.                                                              *)

\* Docs 003: an estimate is always split by the reserve and the shares that the
\* account had when it was last saved, also when they changed within a bucket,
\* after a run that failed or before the first sample, as soon as one sample of
\* the window counts (allocationInputsChanged).
SettingsFollowed ==
    capacity # None =>
        LET e == capacity.estimate
            a == capacity.by
        IN  e # None /\ Eligible(capacity.samples) # <<>> =>
                e = estimateCapacity(e.capacity, a)

\* Docs 003: a new estimate is a median of the newest samples: half of them are
\* not above it and half are not below, so that no single report moves it out of
\* what the others say (estimateCapacityFromSamples).
MedianOfSamples ==
    [][capacity' # capacity =>
        LET recent == Eligible(capacity'.samples)
            Of(i) == roundUsd(CycleEstimate(recent[i]), Scale)
            Most(set) == 2 * Cardinality(set) >= Len(recent)
        IN  recent # <<>> /\ (capacity # None => capacity.estimate # capacity'.estimate) =>
               /\ Most({i \in DOMAIN recent : Of(i) <= capacity'.estimate.capacity})
               /\ Most({i \in DOMAIN recent : Of(i) >= capacity'.estimate.capacity})]_capacity

\* Docs 003: while the percentage stays in its bucket and the settings stay, a
\* run keeps the estimate, whatever costs are reported and however the samples
\* came about.
StableWithinBucket ==
    [][capacity' # capacity =>
        (/\ Same /\ Bucket(capacity'.used) = Bucket(capacity.used)
         /\ capacity'.by = capacity.by /\ capacity.estimate # None
         => capacity'.estimate = capacity.estimate)]_capacity
=============================================================================
