---------------------------- MODULE MCWorkshopBoard ----------------------------
EXTENDS WorkshopBoard, TLC

Written(status, start, end) == [status |-> status, start |-> start, end |-> end]
MCOrderInput == {Written("ACTIVE", 0, 1), Written("COMPLETED", 1, 5), Written("ACTIVE", 4, 2),
                 Written("ACTIVE", Null, 3)}
MCOrderBody == {Written("COMPLETED", 2, 5), Written("ACTIVE", Keep, 3)}
MCStageBody == {[stage |-> 1, from |-> 4, to |-> Keep], [stage |-> 2, from |-> Keep, to |-> Null]}

MCDocInput == {[open |-> TRUE, due |-> 1], [open |-> TRUE, due |-> 4],
               [open |-> TRUE, due |-> Null], [open |-> FALSE, due |-> 1]}
MCDocBody == {[open |-> TRUE, due |-> 4], [open |-> FALSE, due |-> Keep],
              [open |-> TRUE, due |-> 1]}

Symmetry == Permutations(DeliveryNote)
================================================================================
