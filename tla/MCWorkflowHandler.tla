------------------------ MODULE MCWorkflowHandler ------------------------
(* WorkflowHandler for TLC: runner names and jobs are interchangeable.     *)
EXTENDS WorkflowHandler, TLC

Interchangeable == Permutations(Names) \cup Permutations(Jobs)

=============================================================================
