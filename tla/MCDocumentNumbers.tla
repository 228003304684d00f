-------------------------- MODULE MCDocumentNumbers --------------------------
(* Instances of DocumentNumbers for TLC. *)
EXTENDS DossierSearch, TLC

Symmetric == Permutations(Call) \cup Permutations(Doc \ Legacy)
===============================================================================
