--------------------------- MODULE SubscriptionPages ---------------------------
(***************************************************************************)
(* A reset event takes its targets from a list that Sub2API serves in pages  *)
(* (sub2api-client.ts, activeSubscriptions) while subscriptions begin and     *)
(* end, and resets them one after the other (engine.ts).  AccountSync has    *)
(* crashes and several events; here is one event, without a crash.           *)
(***************************************************************************)
EXTENDS Integers, Sequences, SequencesExt, FiniteSets

CONSTANTS
    Subscriptions,
    Wanted,         \* those in the account's target groups
    PageSize,       \* page_size: 100 in the code
    Ending          \* BOOLEAN: subscriptions may end while the list is read

SubscriptionParameters ==
    /\ IsFiniteSet(Subscriptions) /\ Wanted \subseteq Subscriptions
    /\ PageSize \in Nat \ {0} /\ Ending \in BOOLEAN

VARIABLES
    list,       \* upstream: the active subscriptions in the order of the list
    throughout, \* those that were active during the whole read
    at,         \* "reading", "resetting", "done"
    page,       \* the page to be read next
    found,      \* what the pages before it had; those of the target groups count
    completed,  \* completedSubscriptionIds
    resets      \* how often each subscription was reset

vars == <<list, throughout, at, page, found, completed, resets>>

TypeOK ==
    /\ IsInjective(list) /\ ToSet(list) \subseteq Subscriptions
    /\ throughout \subseteq Subscriptions
    /\ at \in {"reading", "resetting", "done"} /\ page \in Nat \ {0}
    /\ found \in Seq(Subscriptions) /\ completed \subseteq ToSet(found) \cap Wanted
    /\ resets \in [Subscriptions -> Nat]

Init ==
    /\ list \in {l \in SeqOf(Subscriptions, Cardinality(Subscriptions)) : IsInjective(l)}
    /\ throughout = ToSet(list)
    /\ at = "reading" /\ page = 1 /\ found = <<>>
    /\ completed = {} /\ resets = [s \in Subscriptions |-> 0]

Pages == (Len(list) + PageSize - 1) \div PageSize
PageItems(n) == IF n > Pages THEN <<>>
                ELSE SubSeq(list, (n - 1) * PageSize + 1,
                            IF n = Pages THEN Len(list) ELSE n * PageSize)

\* activeSubscriptions: the number of pages is that of the last answer.
ReadPage ==
    /\ at = "reading" /\ found' = found \o PageItems(page)
    /\ IF page >= Pages THEN at' = "resetting" /\ page' = page
                        ELSE at' = at /\ page' = page + 1
    /\ UNCHANGED <<list, throughout, completed, resets>>

\* A page cannot be read: the event is not made, and the next run begins anew.
ReadFails ==
    /\ at = "reading" /\ page' = 1 /\ found' = <<>>
    /\ throughout' = ToSet(list)
    /\ UNCHANGED <<list, at, completed, resets>>

\* A target: of the pages, what the filter by the groups leaves.
IsWanted(i) == found[i] \in Wanted
Remains(i) == IsWanted(i) /\ found[i] \notin completed

\* completeReset: a reset that fails is tried again by a later run.
Reset ==
    /\ at = "resetting"
    /\ \E i \in DOMAIN found :
          /\ Remains(i) /\ \A j \in 1..i - 1 : ~Remains(j)
          /\ resets' = [resets EXCEPT ![found[i]] = @ + 1]
          /\ completed' = completed \cup {found[i]}
    /\ UNCHANGED <<list, throughout, at, page, found>>
Complete ==
    /\ at = "resetting" /\ \A i \in DOMAIN found : ~Remains(i)
    /\ at' = "done"
    /\ UNCHANGED <<list, throughout, page, found, completed, resets>>

\* Upstream: a subscription begins, at either end of the list, or ends.
Begins(s) ==
    /\ at = "reading" /\ s \notin ToSet(list)
    /\ list' \in {<<s>> \o list, Append(list, s)}
    /\ UNCHANGED <<throughout, at, page, found, completed, resets>>
Ends(s) ==
    /\ Ending /\ at = "reading"
    /\ \E i \in DOMAIN list : list[i] = s /\ list' = RemoveAt(list, i)
    /\ throughout' = throughout \ {s}
    /\ UNCHANGED <<at, page, found, completed, resets>>

Next ==
    \/ ReadPage \/ ReadFails \/ Reset \/ Complete
    \/ \E s \in Subscriptions : Begins(s) \/ Ends(s)

Spec == Init /\ [][Next]_vars

-----------------------------------------------------------------------------
(* Properties                                                               *)

\* Every target subscription is reset once per event (docs 002): those that
\* were active all the time the list was read, however the pages moved.
EachResetOnce ==
    at = "done" => \A s \in throughout \cap Wanted : resets[s] = 1

\* A subscription that was on two pages is not reset twice, and one of another
\* group never.
NoneResetTwice ==
    \A s \in Subscriptions : resets[s] <= IF s \in Wanted THEN 1 ELSE 0
=============================================================================
