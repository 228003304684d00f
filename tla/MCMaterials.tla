---------------------------- MODULE MCMaterials ----------------------------
(***************************************************************************)
(* Small instances of Materials: production orders of one product that     *)
(* needs two components, one purchase order that brings both.  Only the    *)
(* constants differ between the configurations.                            *)
(***************************************************************************)
EXTENDS Materials, TLC

CONSTANTS c1, c2, o1, o2, p1, sac

MCOrderProduct == [o \in Order |-> sac]
\* The second order makes two pieces: the needs of the orders differ.
MCOrderQty == [o \in Order |-> IF o = o1 THEN 1 ELSE 2]

Bom(i, c, q) == [id |-> i, product |-> sac, component |-> c, qty |-> q]
Buy(i, c, q) == [id |-> i, purchase |-> p1, component |-> c, qty |-> q]

MCBom == {Bom("b1", c1, 1), Bom("b2", c2, 1)}
\* A third line names c1 again, for another variant of the product.
MCBomTwice == MCBom \cup {Bom("b3", c1, 1)}
MCPurchaseLine == {Buy("l1", c1, 1), Buy("l2", c2, 2)}

MCStock  == [c \in Component |-> IF c = c1 THEN 2 ELSE 3]
NoInput == {}
SomeStock == {1}
SomeStatus == {"CANCELLED", "PLANNED"}
SomePurchaseStatus == {"OPEN", "CANCELLED"}

\* The rows are visited in the order of their ids, or in the other one.
ById    == [c \in Component |-> IF c = c1 THEN 1 ELSE 2]
Reverse2 == [c \in Component |-> IF c = c1 THEN 2 ELSE 1]
AnyPlan == {ById, Reverse2}
IdPlan == {ById}

Symmetric == Permutations(Request)
=============================================================================
