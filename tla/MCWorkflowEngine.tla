-------------------------- MODULE MCWorkflowEngine --------------------------
(* Small workflows for WorkflowEngine, and a budget of mishaps for each run. *)
EXTENDS WorkflowEngine, TLC

CONSTANTS
    a, b, c,   \* three actions
    Crashes, Interrupts, Faults, Unreads, Troubles, Changes, Reruns, Freshes

MCBudget == [k \in Mishaps |->
    CASE k = "crash" -> Crashes   [] k = "interrupt" -> Interrupts
      [] k = "store" -> Faults    [] k = "unread" -> Unreads
      [] k = "trouble" -> Troubles [] k = "change" -> Changes
      [] k = "rerun" -> Reruns    [] k = "fresh" -> Freshes]

\* a, then b, then c: the longest path three actions can form.
ChainDeps  == (a :> {}) @@ (b :> {a}) @@ (c :> {b})
ChainLevel == (a :> 0) @@ (b :> 1) @@ (c :> 2)

\* a and b side by side, c reading both.
JoinDeps  == (a :> {}) @@ (b :> {}) @@ (c :> {a, b})
JoinLevel == (a :> 0) @@ (b :> 0) @@ (c :> 1)

\* a, then b and c side by side.
ForkDeps  == (a :> {}) @@ (b :> {a}) @@ (c :> {a})
ForkLevel == (a :> 0) @@ (b :> 1) @@ (c :> 1)

=============================================================================
