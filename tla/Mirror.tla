------------------------------- MODULE Mirror -------------------------------
(***************************************************************************)
(* A view of sources that change on their own.  Every change of a source   *)
(* has a number; the view holds, for each source, the number of the change *)
(* it shows.  A view may lag and may skip changes, but it never shows one  *)
(* that has not happened, never steps back to an older one, and, once the  *)
(* sources are left alone, shows the last.                                 *)
(***************************************************************************)
EXTENDS Naturals

CONSTANT Sources

VARIABLES written, seen

vars == <<written, seen>>

Init == written = [s \in Sources |-> 1] /\ seen = [s \in Sources |-> 0]

Change(s) == written' = [written EXCEPT ![s] = @ + 1] /\ UNCHANGED seen

Look ==
    /\ seen' \in [Sources -> Nat]
    /\ \A s \in Sources : seen[s] <= seen'[s] /\ seen'[s] <= written[s]
    /\ UNCHANGED written

Next == Look \/ \E s \in Sources : Change(s)

Spec == Init /\ [][Next]_vars

\* Once the sources are left alone, what is shown is what is there.
CatchesUp == <>[][written' = written]_written => <>[](seen = written)

=============================================================================
