--------------------------- MODULE MCOrderWorkflow ---------------------------
(***************************************************************************)
(* Small instances of OrderWorkflow.  Progress counts in halves.           *)
(***************************************************************************)
EXTENDS OrderWorkflow, TLC

Symmetric == Permutations(Call)
=============================================================================
