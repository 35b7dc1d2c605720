------------------------------ MODULE MCExecutions ------------------------------
(***************************************************************************)
(* Instances of WorkflowExecutions for TLC.                                *)
(***************************************************************************)
EXTENDS WorkflowExecutions, TLC

\* Requests, isolates and tenants are interchangeable.
ExecSymmetry ==
  Permutations(Calls) \cup Permutations(Isolates) \cup Permutations(Tenants)

=============================================================================
