---------------------------- MODULE DossierSearch ----------------------------
(***************************************************************************)
(* How a document is found again: the global search by number and the      *)
(* lookup of a reference.  Both read the committed rows only.  The words   *)
(* the search compares with names, and its filters by status, client and   *)
(* date, are left out; a page of eight hits never cuts what a number finds. *)
(***************************************************************************)
EXTENDS DocumentNumbers

Entity == {"salesOrders", "invoices", "deliveries", "productionOrders", "purchaseOrders"}

\* What is typed in the header: a whole number or nothing, the level asked if
\* any, and the tables to look in.
NoText == <<"none", NoLevel>>
ByText(prefix, number) ==
    [text |-> <<prefix, number>>, level |-> NoLevel, entities |-> Entity]

\* A text that has the form of a number gives its level as a hint.
ReferenceLevelHint(q) == IF q.level # NoLevel THEN q.level ELSE q.text[2]

\* A number has a fixed width: one contains another only when they are equal, so
\* that both match modes mean the same.
TextMatch(q, d) == q.text = NoText \/ q.text = <<row[d].prefix, row[d].number>>

Hits(kinds, q) ==
    {d \in Doc : /\ row[d].kind \in kinds
                 /\ row[d].level = ReferenceLevelHint(q)
                 /\ TextMatch(q, d)}

SearchSalesOrders(q) == Hits({"CMD"}, q)
SearchInvoices(q) == Hits(InvoiceType, q)
SearchDeliveries(q) == Hits({"LIV"}, q)
SearchProductionOrders(q) == Hits({"OF"}, q)
SearchPurchaseOrders(q) == Hits({"ACH"}, q)

\* A query without a text or a level is refused.
GlobalSearch(q) ==
    LET hits == [salesOrders |-> SearchSalesOrders(q),
                 invoices |-> SearchInvoices(q),
                 deliveries |-> SearchDeliveries(q),
                 productionOrders |-> SearchProductionOrders(q),
                 purchaseOrders |-> SearchPurchaseOrders(q)]
    IN  IF ReferenceLevelHint(q) = NoLevel THEN {} ELSE UNION {hits[e] : e \in q.entities}

\* The lookup takes a level or the number that has it.
ResolveLevel(level, ref) == IF level # NoLevel THEN level ELSE ref[2]

\* It compares levels only, of the documents and of their lines.
FindByLevelOrRef(level, ref) ==
    LET l == ResolveLevel(level, ref)
    IN  [documents |-> {d \in Doc : row[d].kind \in Prefix /\ row[d].level = l},
         related   |-> {d \in Doc : row[d].kind \in Prefix /\ row[d].lines = l}]

-----------------------------------------------------------------------------
(* Properties *)

\* The number a document shows is enough to find it, and it alone, with the
\* global search, and to find it in the lookup of the reference, whatever edits
\* and renumberings overlap: the search wants the level and the text to agree.
\* Only an old order may be lost, when a document created for it at the same time
\* writes a fresh level over the one the order was given by hand.
FoundByNumber ==
    \A d \in Doc \ Legacy :
        row[d].number # NoLevel =>
            LET number == <<row[d].prefix, row[d].number>> IN
            /\ GlobalSearch(ByText(row[d].prefix, row[d].number)) = {d}
            /\ d \in FindByLevelOrRef(NoLevel, number).documents
=============================================================================
