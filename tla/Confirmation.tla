------------------------------ MODULE Confirmation ------------------------------
(***************************************************************************)
(* A dangerous operation and the dialog that confirms it: the purges of the *)
(* settings page and the unbans of the input page, over ConfirmDialog.      *)
(* One page is mounted; Dialogs has the layers.                             *)
(*                                                                          *)
(* A page observes the request it sent last and forgets it by reset() when  *)
(* it opens a dialog; a forgotten request goes on, and its success still    *)
(* runs the page's onSuccess.  A dialog does not close while the observed   *)
(* request is under way, but one that was dismissed stays usable for the    *)
(* 180 ms of its animation, and its timer asks nothing.                     *)
(***************************************************************************)
EXTENDS Integers

CONSTANTS
    Targets,        \* what may be confirmed: the purges, or the users
    Typed,          \* the targets whose name has to be typed
    Exclusive,      \* the targets whose button waits for any request
    None,
    ReducedMotion,  \* prefers-reduced-motion: no animation
    MaxSent         \* bound on the requests

ConfirmationParameters ==
    /\ Typed \subseteq Targets /\ Exclusive \subseteq Targets /\ None \notin Targets
    /\ ReducedMotion \in BOOLEAN /\ MaxSent \in Nat

VARIABLES
    target,         \* whose dialog is shown, or None
    closing,        \* does its close timer run
    value,          \* does the text field hold the text asked for
    status,         \* of the observed request: "idle", "pending" or "error"
    variable,       \* what the observed request is for
    inFlight,       \* the requests under way: [id, target]
    observed,       \* id of the observed request, or 0
    sent            \* number of requests sent

vars == <<target, closing, value, status, variable, inFlight, observed, sent>>

TypeOK ==
    /\ target \in Targets \cup {None} /\ closing \in BOOLEAN /\ value \in BOOLEAN
    /\ (target = None => ~closing /\ ~value)
    /\ status \in {"idle", "pending", "error"} /\ variable \in Targets \cup {None}
    /\ inFlight \subseteq [id : 1..sent, target : Targets]
    /\ observed \in 0..sent /\ sent \in 0..MaxSent
    /\ status = "pending" <=> (\E r \in inFlight : r.id = observed)

Init ==
    /\ target = None /\ closing = FALSE /\ value = FALSE
    /\ status = "idle" /\ variable = None /\ observed = 0
    /\ inFlight = {} /\ sent = 0

\* Mutant: the text typed for one dialog stands in the next.
StaysTyped == target' = None /\ closing' = FALSE /\ UNCHANGED value
Unmounted == target' = None /\ closing' = FALSE /\ value' = FALSE

\* The button: busy with its own request, or disabled by any.  It is under an
\* inert root while a dialog is shown.
Enabled(t) ==
    /\ target = None
    /\ status = "pending" => t # variable /\ t \notin Exclusive

Open(t) ==
    /\ Enabled(t)
    /\ target' = t /\ status' = "idle" /\ variable' = None /\ observed' = 0
    /\ UNCHANGED <<closing, value, inFlight, sent>>

Type == /\ target \in Typed /\ \E v \in BOOLEAN \ {value} : value' = v
        /\ UNCHANGED <<target, closing, status, variable, inFlight, observed, sent>>

\* close(): refused while the request is under way or the timer runs.
Dismiss ==
    /\ target # None /\ status # "pending" /\ ~closing
    /\ IF ReducedMotion THEN Unmounted
                        ELSE closing' = TRUE /\ UNCHANGED <<target, value>>
    /\ UNCHANGED <<status, variable, inFlight, observed, sent>>

CloseTimer == /\ closing /\ Unmounted
              /\ UNCHANGED <<status, variable, inFlight, observed, sent>>

Confirm ==
    /\ target # None /\ status # "pending" /\ sent < MaxSent
    /\ target \in Typed => value
    /\ status' = "pending" /\ variable' = target
    /\ sent' = sent + 1 /\ observed' = sent + 1
    /\ inFlight' = inFlight \cup {[id |-> sent + 1, target |-> target]}
    /\ UNCHANGED <<target, closing, value>>

\* onSuccess closes whatever dialog is shown, by whichever request.
Succeed(r) ==
    /\ Unmounted
    /\ inFlight' = inFlight \ {r}
    /\ IF r.id = observed THEN status' = "idle" ELSE UNCHANGED status
    /\ UNCHANGED <<variable, observed, sent>>

Fail(r) ==
    /\ inFlight' = inFlight \ {r}
    /\ IF r.id = observed THEN status' = "error" ELSE UNCHANGED status
    /\ UNCHANGED <<target, closing, value, variable, observed, sent>>

Answer == \E r \in inFlight : Succeed(r) \/ Fail(r)

Next == \/ \E t \in Targets : Open(t)
        \/ Type \/ Dismiss \/ CloseTimer \/ Confirm \/ Answer

\* A timer fires and a request is answered.
Spec == Init /\ [][Next]_vars /\ WF_vars(CloseTimer) /\ WF_vars(Answer)

-----------------------------------------------------------------------------
(* Properties                                                               *)

\* Nothing is asked for twice at a time (docs 008: while a submission is under
\* way, repeating it is prevented).
NoRepeat == \A r, s \in inFlight : r.target = s.target => r = s

\* A request is only sent from the dialog of its target, with its text typed in
\* that very dialog.
SentAsConfirmed ==
    [][sent' # sent => /\ \E r \in inFlight' \ inFlight : r.target = target
                       /\ target \in Typed => value /\ value']_vars

\* A success closes the dialog of its own operation, and a failure is shown in
\* it: no dialog answers for another operation's request.
AnswerItsOwn ==
    \A r \in inFlight \ inFlight' :
        /\ target = r.target
        /\ \/ target' = None /\ status' = "idle"
           \/ target' = target /\ status' = "error"
AnswersItsOwn == [][AnswerItsOwn]_vars

\* A submitted dialog comes to an end: it closes, or shows its failure.
SubmissionEnds == []<>(status # "pending")
=============================================================================
