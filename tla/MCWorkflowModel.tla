--------------------------- MODULE MCWorkflowModel ---------------------------
(* Small projects for WorkflowModel. *)
EXTENDS WorkflowModel, TLC

CONSTANTS flow, act

=============================================================================
