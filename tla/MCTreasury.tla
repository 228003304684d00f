------------------------------ MODULE MCTreasury ------------------------------
EXTENDS TreasuryPages, TLC

CONSTANTS i1, i2, p1, cl1, s1

MCInitialDue == {f \in [{i1, i2, p1} -> 0 .. 1] : f[p1] = 1}
MCTotal == [d \in {i1, i2, p1} |-> 2]
MCClientOf == [i \in {i1, i2} |-> cl1]
MCSupplierOf == [p \in {p1} |-> s1]

Row(date, type, k, cl, s) ==
    [date |-> date, type |-> type, amount |-> 1, category |-> k, client |-> cl, supplier |-> s]
MCManualEntry == {Row(1, "EXPENSE", "OWN", cl1, None)}
Plan(direction, start, end, k, cl, s) ==
    [direction |-> direction, amount |-> 1, start |-> start, end |-> end, category |-> k,
     client |-> cl, supplier |-> s]
MCInitialBudget == {Plan("EXPENSE", 0, 0, None, None, None),
                    Plan("EXPENSE", 0, 1, None, None, s1)}
MCBudgetInput == MCInitialBudget \cup {Plan("EXPENSE", 1, 1, "SUPPLIER_PAYMENT", None, None)}

Symmetry == Permutations(Call) \cup Permutations({i1, i2})
===============================================================================
