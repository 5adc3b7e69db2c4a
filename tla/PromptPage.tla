------------------------------- MODULE PromptPage -------------------------------
(***************************************************************************)
(* The list of the input page (pages/InputHealthPage.tsx): filters that are *)
(* drafts until they are applied, pages, and the query whose key they are.  *)
(* PromptList has what a query answers.                                     *)
(*                                                                          *)
(* The query library keeps one entry per key, asks again when a key is      *)
(* returned to, and while a key has no answer yet it shows the last data it *)
(* had (keepPreviousData): while it is pending, and not once it has failed. *)
(***************************************************************************)
EXTENDS Integers, FiniteSets

CONSTANTS
    Ranges,         \* "day", "week", "month"
    Filters,        \* statuses, user, group and search text of a query
    Refusals,       \* the filters that the server refuses (a text too long)
    Times,          \* custom times: start and end
    None,
    MaxPages, MaxRevision, MaxEntries   \* bounds

NoFilter == CHOOSE f \in Filters \ Refusals : TRUE

VARIABLES
    range, page, queryRevision,
    filter, time,       \* drafts: what is chosen in the selects and the time field
    applied,            \* appliedFilters: [filter, time]
    entry,              \* of each key: [data, error, fetching]
    previous            \* the data the observer had last, or None

vars == <<range, page, queryRevision, filter, time, applied, entry, previous>>

Keys == [range : Ranges, applied : [filter : Filters, time : Times \cup {None}],
         page : 1..MaxPages, revision : 0..MaxRevision]
\* What a query answers: the key it was asked for, and the number of pages.
Answers == [key : Keys, pages : 0..MaxPages]

PageParameters ==
    /\ "day" \in Ranges /\ Filters \ Refusals # {} /\ None \notin Times \cup Answers
    /\ MaxPages \in Nat \ {0} /\ MaxRevision \in Nat /\ MaxEntries \in Nat \ {0}

Unasked == [data |-> None, error |-> FALSE, fetching |-> FALSE]
\* Mutant: the filters are left out of the query key.
KeyOfRange == [range |-> range, applied |-> [filter |-> NoFilter, time |-> None],
               page |-> page, revision |-> 0]
Key == [range |-> range, applied |-> applied, page |-> page, revision |-> queryRevision]
Entry(k) == IF k \in DOMAIN entry THEN entry[k] ELSE Unasked

\* The query as the page sees it.
Shown == IF Entry(Key).data # None THEN Entry(Key).data
         ELSE IF Entry(Key).error THEN None ELSE previous
Fetching == Entry(Key).fetching
Failed == Entry(Key).error /\ Shown = None      \* the error panel replaces the page
Pages == IF Shown = None \/ Shown.pages = 0 THEN 1 ELSE Shown.pages

Set(k, e) == entry' = [x \in DOMAIN entry \cup {k} |-> IF x = k THEN e ELSE entry[x]]
Fetch(e) == [e EXCEPT !.fetching = TRUE, !.error = (@ /\ e.data # None)]

TypeOK ==
    /\ range \in Ranges /\ page \in 1..MaxPages /\ queryRevision \in 0..MaxRevision
    /\ filter \in Filters /\ time \in Times \cup {None}
    /\ applied \in [filter : Filters, time : Times \cup {None}]
    /\ DOMAIN entry \subseteq Keys
    /\ \A k \in DOMAIN entry :
          entry[k] \in [data : Answers \cup {None}, error : BOOLEAN, fetching : BOOLEAN]
    /\ previous \in Answers \cup {None}

Init ==
    /\ range = "day" /\ page = 1 /\ queryRevision = 0
    /\ filter = NoFilter /\ time = None
    /\ applied = [filter |-> NoFilter, time |-> None]
    /\ previous = None
    /\ entry = [k \in {[range |-> "day", applied |-> [filter |-> NoFilter, time |-> None],
                        page |-> 1, revision |-> 0]} |-> Fetch(Unasked)]

-----------------------------------------------------------------------------
(* The observer moves to the key the page has now: it asks for it, and holds *)
(* on to the data it had.                                                    *)

Observe(k) ==
    /\ previous' = IF Entry(Key).data # None THEN Entry(Key).data ELSE previous
    /\ Cardinality(DOMAIN entry \cup {k}) <= MaxEntries
    /\ Set(k, Fetch(Entry(k)))

\* An entry that nobody looks at is forgotten after a while.
Forget ==
    /\ \E k \in DOMAIN entry \ {Key} :
          /\ ~entry[k].fetching
          /\ entry' = [x \in DOMAIN entry \ {k} |-> entry[x]]
    /\ UNCHANGED <<range, page, queryRevision, filter, time, applied, previous>>

Move(new) ==
    /\ range' = new.range /\ applied' = new.applied
    /\ page' = new.page /\ queryRevision' = new.revision
    /\ Observe(Key')

ToRange(new) ==
    /\ ~Failed /\ time' = None /\ UNCHANGED filter
    /\ IF new # Key THEN Move(new)
       ELSE time # None /\ UNCHANGED <<range, page, queryRevision, applied, entry, previous>>

\* selectRange: applied at once, without the custom time.
SelectRange(r) == ToRange([Key EXCEPT !.range = r, !.applied.time = None, !.page = 1])

SelectFilter(f) ==
    /\ ~Failed /\ filter # f /\ filter' = f
    /\ UNCHANGED <<range, page, queryRevision, time, applied, entry, previous>>

\* applyCustomTime and clearCustomTime
SelectTime(t) ==
    /\ ~Failed /\ time # t /\ time' = t
    /\ UNCHANGED <<range, page, queryRevision, filter, applied, entry, previous>>

\* applyFilters: the form of the search text is not disabled by a query.
ApplyFilters ==
    /\ ~Failed /\ queryRevision < MaxRevision
    /\ Move([Key EXCEPT !.applied = [filter |-> filter, time |-> time],
                        !.page = 1, !.revision = @ + 1])
    /\ UNCHANGED <<filter, time>>

TurnPage(n) ==
    /\ ~Failed /\ ~Fetching
    /\ \/ n = page - 1 /\ n >= 1
       \/ n = page + 1 /\ n <= Pages
    /\ Move([Key EXCEPT !.page = n])
    /\ UNCHANGED <<filter, time>>

\* A retry button, or an unban that invalidates the query.
Refetch ==
    /\ ~Fetching
    /\ Set(Key, Fetch(Entry(Key)))
    /\ UNCHANGED <<range, page, queryRevision, filter, time, applied, previous>>

\* An answer comes to the entry of its key, which may not be the one shown.
AnswerTo(k, e) ==
    /\ Entry(k).fetching /\ Set(k, e)
    /\ previous' = IF k = Key /\ e.data # None THEN e.data ELSE previous
    /\ UNCHANGED <<range, page, queryRevision, filter, time, applied>>

Answered(k) ==
    /\ k.applied.filter \notin Refusals
    /\ \E n \in 0..MaxPages :
          AnswerTo(k, [data |-> [key |-> k, pages |-> n], error |-> FALSE, fetching |-> FALSE])
\* After the second attempt, or a refusal.
AnswerFails(k) == AnswerTo(k, [Entry(k) EXCEPT !.error = TRUE, !.fetching = FALSE])

Next ==
    \/ \E r \in Ranges : SelectRange(r)
    \/ \E f \in Filters : SelectFilter(f)
    \/ \E t \in Times \cup {None} : SelectTime(t)
    \/ \E n \in 1..MaxPages : TurnPage(n)
    \/ ApplyFilters \/ Refetch \/ Forget
    \/ \E k \in DOMAIN entry : Answered(k) \/ AnswerFails(k)

Spec == Init /\ [][Next]_vars

-----------------------------------------------------------------------------
(* Properties                                                               *)

\* Once nothing is being fetched, the rows are those of the range, the applied
\* filters and the page the operator sees, or the page says that the query
\* failed, whatever came late and whichever query was returned to.
ShownIsAsked == ~Fetching =>
    IF Shown = None THEN Failed
    ELSE Shown.key = [range |-> range, applied |-> applied, page |-> page,
                      revision |-> queryRevision]

\* Another range or other filters begin at their first page.
FirstPage == [][range' # range \/ applied' # applied => page' = 1]_vars

\* A page is turned only to one that the answer to these very filters has.
TurnedWithinAnswer ==
    [][page' = page + 1 /\ Shown # None =>
          Shown.key.applied = applied /\ Shown.key.range = range /\ page' <= Shown.pages]_vars

=============================================================================
