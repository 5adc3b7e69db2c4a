----------------------------- MODULE AuditTrail -----------------------------
(***************************************************************************)
(* What the relay, its outbox and the capture endpoint promise together: a  *)
(* message is kept where no crash takes it before it is passed on, what is  *)
(* kept stays kept, and every kept message is recorded in the end, once.    *)
(***************************************************************************)
EXTENDS Naturals

CONSTANT Messages

VARIABLES kept, passed, rows

trailVars == <<kept, passed, rows>>

Init == kept = {} /\ passed = {} /\ rows = [m \in Messages |-> 0]

Keep ==
    /\ \E ms \in SUBSET Messages : kept' = kept \cup ms
    /\ UNCHANGED <<passed, rows>>

Pass(m) ==
    /\ m \in kept \ passed
    /\ passed' = passed \cup {m}
    /\ UNCHANGED <<kept, rows>>

Record(m) ==
    /\ rows[m] = 0
    /\ rows' = [rows EXCEPT ![m] = 1]
    /\ kept' = kept \cup {m}
    /\ UNCHANGED passed

Next == Keep \/ \E m \in Messages : Pass(m) \/ Record(m)

Spec ==
    /\ Init /\ [][Next]_trailVars
    /\ \A m \in Messages : WF_trailVars(m \in kept /\ Record(m))
=============================================================================
