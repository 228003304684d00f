-------------------------- MODULE MCInvoicePayments --------------------------
(***************************************************************************)
(* Small instances of InvoicePayments: two invoices, the first one of      *)
(* three units of money that instalments of one or two units settle        *)
(* exactly, in part, or exceed.                                            *)
(***************************************************************************)
EXTENDS InvoicePayments, TLC

CONSTANTS i1, i2

MCTotal == [i \in Invoice |-> IF i = i1 THEN 3 ELSE 1]

Symmetric == Permutations(Call)
=============================================================================
