----------------------------- MODULE WorkflowRows -----------------------------
(***************************************************************************)
(* What the editor extension's views make of the statuses of a workflow's  *)
(* actions: the rolled-up status and the one line of its row in the tree   *)
(* (model/status.ts, providers/treeViewProvider.ts), the place of that row *)
(* among the others, and the status bar (providers/statusBarProvider.ts).  *)
(***************************************************************************)
EXTENDS Naturals, FiniteSets, SequencesExt

CONSTANT Shown  \* the actions of the workflow: a config without any makes no row

ASSUME RowsAssumption == IsFiniteSet(Shown) /\ Shown # {}

VARIABLE statuses

ActionStatus == {"pending", "running", "batch_submitted", "checking_batch", "completed",
                 "completed_with_failures", "failed", "skipped", "interrupted"}

Has(s)   == \E a \in Shown : statuses[a] = s
Count(s) == Cardinality({a \in Shown : statuses[a] = s})
Only(ss) == \A a \in Shown : statuses[a] \in ss

\* MUTANT: a workflow that was cut off reads as one that has not begun.
ROLLUP_PRECEDENCE_UNCUT ==
    <<"running", "checking_batch", "batch_submitted", "failed", "completed_with_failures">>
ROLLUP_PRECEDENCE ==
    <<"running", "checking_batch", "batch_submitted", "failed", "interrupted",
      "completed_with_failures">>

SETTLED == {"completed", "skipped"}

rollupStatus ==
    LET ranks == {i \in DOMAIN ROLLUP_PRECEDENCE : Has(ROLLUP_PRECEDENCE[i])} IN
    CASE ranks # {} -> ROLLUP_PRECEDENCE[Min(ranks)]
      [] ranks = {} /\ Only(SETTLED) -> "completed"
      [] OTHER -> "pending"

workflowSortRank(s) ==
    CASE s \in {"running", "checking_batch"} -> 0
      [] s = "batch_submitted" -> 1
      [] s = "failed" -> 2
      [] s = "interrupted" -> 3
      [] s = "completed_with_failures" -> 4
      [] s = "pending" -> 5
      [] s \in {"completed", "skipped"} -> 6

\* Beside the count of what is completed the row names one thing at most.
formatWorkflowSummary ==
    CASE Count("running") > 1 -> "several"
      [] Count("running") = 1 -> "running"
      [] OTHER ->
         IF rollupStatus \in {"batch_submitted", "checking_batch"} THEN "awaiting batch"
         ELSE IF Has("failed") THEN "failed"
         ELSE IF Has("interrupted") THEN "interrupted"
         ELSE IF Has("skipped") THEN "skipped" ELSE "nothing"

\* getStatusLabel: what has no sign of its own has that of a workflow not begun.
getStatusLabel(s) ==
    IF s \in {"completed", "running", "failed", "interrupted", "skipped"} THEN s ELSE "circle"

\* The status bar tells less: it knows of running, failed and all done.
statusBar ==
    CASE Has("running") -> "spinning"
      [] ~Has("running") /\ Has("failed") -> "error"
      [] OTHER -> IF Only({"completed"}) THEN "check-all" ELSE "graph"

RowsInit == statuses \in [Shown -> ActionStatus]

\* A refresh of the model brings another status for an action.
Update(a, s) == statuses' = [statuses EXCEPT ![a] = s]

RowsNext == \E a \in Shown, s \in ActionStatus : Update(a, s)

RowsSpec == RowsInit /\ [][RowsNext]_statuses

-----------------------------------------------------------------------------

\* The collapsed row answers "is anything happening, and did anything go wrong": what is at
\* work stands at the top, a failure or a cut-off run above whatever is not begun or done,
\* only a workflow with nothing left to do has the sign of one, and it says so when it is
\* not all completed.  The status bar never contradicts the row.
RowHonest ==
    LET row == rollupStatus IN
    /\ workflowSortRank(row) = 0 <=> Has("running") \/ Has("checking_batch")
    /\ Has("failed") \/ Has("interrupted") => workflowSortRank(row) < 4
    /\ getStatusLabel(row) = "completed" =>
          /\ Only(SETTLED)
          /\ Has("skipped") => formatWorkflowSummary = "skipped"
    /\ Has("running") <=> formatWorkflowSummary \in {"running", "several"}
    /\ row = "failed" => formatWorkflowSummary = "failed"
    /\ statusBar = "spinning" <=> getStatusLabel(row) = "running"
    /\ statusBar = "check-all" => row = "completed"

=============================================================================
