----------------------------- MODULE MCStoredFiles -----------------------------
EXTENDS StoredFiles, TLC

Symmetry == Permutations(Task)
===============================================================================
