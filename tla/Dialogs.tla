-------------------------------- MODULE Dialogs --------------------------------
(***************************************************************************)
(* The modal layers of the console (components/Dialog.tsx) as its pages     *)
(* open them: each layer makes what is below it inert, locks the scrolling  *)
(* of the page and takes the focus, and gives all of it back when its       *)
(* effect is cleaned up.                                                    *)
(*                                                                          *)
(* A layer is closed 180 ms after it was dismissed, or at once by what it   *)
(* contains, by the page that is left, or by the end of the session; one of *)
(* these may take several layers away in one commit.  React then cleans up  *)
(* the effects of a removed tree from the outside in, after the elements    *)
(* have left the document.                                                  *)
(***************************************************************************)
EXTENDS Integers, Sequences, SequencesExt, FiniteSets

CONSTANTS
    None,
    Root,           \* the element under which the application is mounted
    Body,           \* what has the focus when nothing else has
    Together        \* may one commit unmount several layers

\* The dialogs, by where they are mounted: in the shell, in a page, or in the
\* session dialog of the input page.
ShellDialogs == {"account", "command"}
PageDialogs == {"detail", "session", "confirm"}
Dialogs == ShellDialogs \cup PageDialogs \cup {"inspector"}
Containers == Dialogs \cup {Root}

DialogParameters == Together \in BOOLEAN

VARIABLES
    stack,          \* modalStack
    inert,          \* the containers that are inert
    overflow,       \* of the body: "auto" or "hidden"
    focus,          \* the container of the focused element, or Body
    below,          \* previousLayer of each dialog
    saved,          \* previousOverflow
    trigger,        \* the container of the element focused before
    closing,        \* the dialogs whose close timer runs
    busy            \* is the request of the confirmation under way

vars == <<stack, inert, overflow, focus, below, saved, trigger, closing, busy>>
screen == <<stack, inert, overflow, focus>>

Mounted == ToSet(stack)

TypeOK ==
    /\ stack \in Seq(Dialogs) /\ Cardinality(Mounted) = Len(stack)
    /\ inert \subseteq Containers
    /\ overflow \in {"auto", "hidden"}
    /\ focus \in Mounted \cup {Root, Body}
    /\ below \in [Dialogs -> Dialogs \cup {None}]
    /\ saved \in [Dialogs -> {"auto", "hidden"}]
    /\ trigger \in [Dialogs -> Containers \cup {Body}]
    /\ closing \subseteq Mounted
    /\ busy \in BOOLEAN /\ (busy => "confirm" \in Mounted)

Init ==
    /\ stack = <<>> /\ inert = {} /\ overflow = "auto" /\ focus = Root
    /\ below = [d \in Dialogs |-> None] /\ saved = [d \in Dialogs |-> "auto"]
    /\ trigger = [d \in Dialogs |-> Root]
    /\ closing = {} /\ busy = FALSE

-----------------------------------------------------------------------------
(* The effect of a Dialog and its cleanup.                                  *)

Screen(s, i, o, f) == [stack |-> s, inert |-> i, overflow |-> o, focus |-> f]
Shown == Screen(stack, inert, overflow, focus)

MountOn(s, d) ==
    Screen(Append(s.stack, d),
           s.inert \cup {Root} \cup (IF s.stack = <<>> THEN {} ELSE {Last(s.stack)}),
           "hidden", d)

\* What the effect of d has read of the screen it was mounted on.
Remember(s, d) ==
    /\ below' = [below EXCEPT ![d] = IF s.stack = <<>> THEN None ELSE Last(s.stack)]
    /\ saved' = [saved EXCEPT ![d] = s.overflow]
    /\ trigger' = [trigger EXCEPT ![d] = s.focus]

\* The trigger gets the focus if it is still in the document and not inert;
\* the removed layers have taken the focus they had with them.
\* Mutant: the focus is given back before the page is.
CleanupFocusFirst(s, d, connected) ==
    LET left == SelectSeq(s.stack, LAMBDA x : x # d)
        free == (s.inert \ {below[d], d}) \ (IF left = <<>> THEN {Root} ELSE {})
    IN Screen(left, free, saved[d],
              IF trigger[d] \in connected \ s.inert THEN trigger[d] ELSE s.focus)
Cleanup(s, d, connected) ==
    LET left == SelectSeq(s.stack, LAMBDA x : x # d)
        free == (s.inert \ {below[d], d}) \ (IF left = <<>> THEN {Root} ELSE {})
    IN Screen(left, free, saved[d],
              IF trigger[d] \in connected \ free THEN trigger[d] ELSE s.focus)

\* The layers of gone, from the outside in, when the elements of `connected`
\* stay in the document.
Cleaned(gone, connected) ==
    FoldLeft(LAMBDA s, d : Cleanup(s, d, connected),
             [Shown EXCEPT !.focus = IF @ \in connected THEN @ ELSE Body],
             SelectSeq(stack, LAMBDA d : d \in gone))

Show(s) == /\ stack' = s.stack /\ inert' = s.inert
           /\ overflow' = s.overflow /\ focus' = s.focus

Unmount(gone, connected) ==
    /\ Together \/ Cardinality(gone) <= 1
    /\ Show(Cleaned(gone, connected))
    /\ closing' = closing \ gone
    /\ busy' = (busy /\ "confirm" \notin gone)
    /\ UNCHANGED <<below, saved, trigger>>

Elements(gone) == (Mounted \ gone) \cup {Root}
Inside(d) == IF d = "session" THEN Mounted \cap {"session", "inspector"} ELSE {d}

-----------------------------------------------------------------------------
(* What the operator and the pages do.                                      *)

Mount(d) ==
    /\ Show(MountOn(Shown, d)) /\ Remember(Shown, d)
    /\ UNCHANGED <<closing, busy>>

\* From a button under the root; the shortcut of the command dialog looks for
\* layers itself, wherever the focus is.
Open(d) ==
    /\ d \in ShellDialogs \cup PageDialogs
    /\ Root \notin inert
    /\ Mount(d)
Shortcut == Mounted = {} /\ Mount("command")

\* A record of the session, also while the session's timer runs.
OpenInspector ==
    /\ "session" \in Mounted \ inert
    /\ Together \/ "session" \notin closing
    /\ Mount("inspector")

\* From the detail of a record to its session, in one commit.
OpenSessionOfDetail ==
    /\ "detail" \in Mounted \ inert
    /\ LET s == Cleaned({"detail"}, Elements({"detail"})) IN
       /\ Show(MountOn(s, "session")) /\ Remember(s, "session")
    /\ closing' = closing \ {"detail"}
    /\ UNCHANGED busy

\* Escape, the backdrop, the button of the heading or a cancel button.
Dismiss(d) ==
    /\ d \in Mounted \ inert
    /\ ~ (d = "confirm" /\ busy) /\ d \notin closing
    /\ closing' = closing \cup {d}
    /\ UNCHANGED <<screen, below, saved, trigger, busy>>

\* onClose, from the timer or at once by a button of the content.
\* Mutant: a timer that finds another layer above does nothing.
CloseTimerOnTop(d) == d \in closing /\ d = Last(stack) /\ Unmount({d}, Elements({d}))
CloseTimer(d) == d \in closing /\ Unmount(Inside(d), Elements(Inside(d)))
CloseAtOnce(d) ==
    /\ d \in {"inspector", "command"} /\ d \in Mounted \ inert
    /\ Unmount({d}, Elements({d}))

Submit == /\ "confirm" \in Mounted /\ ~busy /\ busy' = TRUE
          /\ UNCHANGED <<screen, below, saved, trigger, closing>>
Answer ==
    /\ busy
    /\ \/ Unmount({"confirm"}, Elements({"confirm"}))
       \/ busy' = FALSE /\ UNCHANGED <<screen, below, saved, trigger, closing>>

\* The page is left by the browser's history; its elements and layers go.
Leave ==
    LET gone == Mounted \ ShellDialogs IN
    /\ gone # {}
    /\ Unmount(gone, Mounted \ gone)

\* The session ends: the login page replaces the shell.
SignedOut == Mounted # {} /\ Unmount(Mounted, {})

\* The focus goes where the operator puts it, in what is not inert.
Focus(c) ==
    /\ c \in ((Mounted \cup {Root}) \ inert) \ {focus}
    /\ focus' = c
    /\ UNCHANGED <<stack, inert, overflow, below, saved, trigger, closing, busy>>

Next ==
    \/ \E d \in Dialogs : Open(d) \/ Dismiss(d) \/ CloseTimer(d) \/ CloseAtOnce(d)
    \/ Shortcut \/ OpenInspector \/ OpenSessionOfDetail
    \/ Submit \/ Answer
    \/ Leave \/ SignedOut
    \/ \E c \in Containers : Focus(c)

\* A timer that was set fires, and every request is answered.
Fairness == (\A d \in Dialogs : WF_vars(CloseTimer(d))) /\ WF_vars(Answer)
Spec == Init /\ [][Next]_vars /\ Fairness

-----------------------------------------------------------------------------
(* Properties                                                               *)

\* While any layer is shown, the page behind is inert and does not scroll, and
\* of the layers only the top one takes input.
BackgroundLocked == stack # <<>> =>
    /\ inert = {Root} \cup (Mounted \ {Last(stack)})
    /\ overflow = "hidden"

\* When no layer is left the page takes input again, however they were removed.
BackgroundReleased == stack = <<>> => inert = {}

\* When no layer is left the page scrolls again (docs 008: a dialog locks the
\* background's scrolling and closing restores).
ScrollRestored == stack = <<>> => overflow = "auto"

\* Dismissing a layer gives the focus back to what opened it, if that is still
\* there and the focus was not nowhere before.
FocusGivenBack ==
    \A d \in Dialogs : CloseTimer(d) /\ trigger[d] \in ToSet(stack') \cup {Root}
        => focus' = trigger[d]
FocusReturns == [][FocusGivenBack]_vars

\* A layer that was dismissed goes away, also when its request was sent meanwhile.
DismissedCloses == \A d \in Dialogs : []<>(d \notin closing)
=============================================================================
