---------------------------- MODULE ServerContract ----------------------------
(***************************************************************************)
(* What the server promises about one run, whatever its goroutines do in   *)
(* between: it serves until it drains, a request that is being served when *)
(* draining begins is owed an answer, and code 0 is the statement that all *)
(* of them got one.  (openspec/specs/server-lifecycle/spec.md, "Graceful   *)
(* and bounded termination" and "Startup failure and command help".)       *)
(***************************************************************************)
CONSTANTS
    Requests,   \* the requests that may be served at the same time
    None        \* no exit code yet

VARIABLES
    phase,      \* "starting", "serving", "draining", "overdue" or "ended"
    code,       \* the exit code
    running,    \* the requests that are being served
    owed        \* those among them that were running when draining began

vars == <<phase, code, running, owed>>

Init == phase = "starting" /\ code = None /\ running = {} /\ owed = {}

\* Help, wrong arguments, an address in use or a stop before the first accept.
Refuse ==
    /\ phase = "starting"
    /\ phase' = "ended" /\ code' \in {0, 1, 2}
    /\ UNCHANGED <<running, owed>>

Serve ==
    /\ phase = "starting"
    /\ phase' = "serving"
    /\ UNCHANGED <<code, running, owed>>

Begin(r) ==
    /\ phase \in {"serving", "draining", "overdue"}
    /\ running' = running \cup {r}
    /\ UNCHANGED <<phase, code, owed>>

Answer(r) ==
    /\ r \in running
    /\ running' = running \ {r} /\ owed' = owed \ {r}
    /\ UNCHANGED <<phase, code>>

Drain ==
    /\ phase = "serving"
    /\ phase' = "draining" /\ owed' = running
    /\ UNCHANGED <<code, running>>

GiveUp ==
    /\ phase = "draining"
    /\ phase' = "overdue"
    /\ UNCHANGED <<code, running, owed>>

\* Only then may a request that is owed an answer be cut.
Cut ==
    /\ phase = "overdue"
    /\ running' = {} /\ owed' = {}
    /\ UNCHANGED <<phase, code>>

\* Serving ends by a failure only, draining once nothing is owed any more; what
\* came in besides is dropped.
End ==
    /\ \/ phase = "serving" /\ code' = 1
       \/ phase = "draining" /\ code' \in {0, 1}
       \/ phase = "overdue" /\ code' = 1
    /\ owed = {} /\ UNCHANGED owed
    /\ running' = {}
    /\ phase' = "ended"

Next ==
    \/ Refuse \/ Serve \/ Drain \/ GiveUp \/ Cut \/ End
    \/ \E r \in Requests : Begin(r) \/ Answer(r)

Spec == Init /\ [][Next]_vars
=============================================================================
