---------------------------- MODULE MCStaffSessions ----------------------------
EXTENDS StaffSessions, TLC

MCRole == {"GERANT", "RESPONSABLE_PRODUCTION"}
MCGranted == {[role |-> "RESPONSABLE_PRODUCTION", admin |-> FALSE]}
MCPatch == [email : Email, right : {NoRight}] \cup [email : {NoEmail}, right : MCGranted]

Symmetry == Permutations(User) \cup Permutations(Email) \cup Permutations(Call)
===============================================================================
