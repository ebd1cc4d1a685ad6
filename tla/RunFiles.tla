------------------------------ MODULE RunFiles ------------------------------
(***************************************************************************)
(* What anything that reads .agent_status.json from outside may count on.  *)
(* The file belongs to the process of the run: nobody else writes it, and  *)
(* a process that ends by itself has first written that nothing is in      *)
(* flight.  Only a process that is killed leaves an action claiming work   *)
(* that nobody does.  The engine implements this contract, and so does the *)
(* run the editor extension watches.                                       *)
(***************************************************************************)
EXTENDS Naturals

CONSTANTS Workflows, Actions

VARIABLES
    file,    \* the status file of each workflow: its actions' statuses
    live,    \* whether a process of the workflow exists
    kills    \* how many of its processes were killed outright

vars == <<file, live, kills>>

InFlight == {"running", "checking_batch"}
Waiting  == {"pending", "batch_submitted"}
Ended    == {"completed", "completed_with_failures", "failed", "skipped", "interrupted"}
Statuses == InFlight \cup Waiting \cup Ended

Claims(w) == {a \in Actions : file[w][a] \in InFlight}

\* What one write may do to an action.  Nothing answered is put in flight again before
\* a reset has put it back, and an action is interrupted only out of flight.  A completed
\* action may turn out later to hold failures its collect pass could not record.
Moves == {m \in Statuses \X Statuses :
    \/ m[1] = m[2] \/ m[2] = "pending"
    \/ m[2] \in InFlight /\ m[1] \in Waiting \cup InFlight
    \/ m[2] = "interrupted" /\ m[1] \in InFlight
    \/ m[1] = "completed" /\ m[2] = "completed_with_failures"
    \/ m[2] \notin InFlight \cup {"interrupted"} /\ m[1] \in Waiting \cup InFlight}

\* Earlier processes may have left the file in any state.
Init ==
    /\ file \in [Workflows -> [Actions -> Statuses]]
    /\ live = [w \in Workflows |-> FALSE]
    /\ kills = [w \in Workflows |-> 0]

Writes(w) ==
    /\ file' \in [Workflows -> [Actions -> Statuses]]
    /\ \A a \in Actions : <<file[w][a], file'[w][a]>> \in Moves
    /\ \A v \in Workflows \ {w} : file'[v] = file[v]

\* A process starts; --fresh writes as it does.
Begin(w) == ~live[w] /\ live' = [live EXCEPT ![w] = TRUE] /\ Writes(w) /\ UNCHANGED kills

Write(w) == live[w] /\ Writes(w) /\ UNCHANGED <<live, kills>>

\* A process ends by itself, its last write the sweep of what was in flight.
Leave(w) ==
    /\ live[w] /\ live' = [live EXCEPT ![w] = FALSE]
    /\ Writes(w) /\ Claims(w)' = {}
    /\ UNCHANGED kills

\* A process is killed, it may be right after a write.
Killed(w) ==
    /\ live[w] /\ live' = [live EXCEPT ![w] = FALSE]
    /\ Writes(w)
    /\ kills' = [kills EXCEPT ![w] = @ + 1]

Next == \E w \in Workflows : Begin(w) \/ Write(w) \/ Leave(w) \/ Killed(w)

Spec == Init /\ [][Next]_vars

=============================================================================
