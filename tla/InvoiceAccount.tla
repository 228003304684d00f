---------------------------- MODULE InvoiceAccount ----------------------------
(***************************************************************************)
(* What the payment routes promise for the invoices, whatever the steps    *)
(* they take: money is collected in instalments that never carry the       *)
(* amount shown as paid beyond the total, every instalment shown is        *)
(* booked, and the only other way to reach the total is to declare the     *)
(* invoice paid.                                                           *)
(***************************************************************************)
EXTENDS Integers

CONSTANTS Invoice, Total

VARIABLES paid, booked    \* per invoice: the amount shown as paid, the payments

Init ==
  /\ paid = [i \in Invoice |-> 0]
  /\ booked = [i \in Invoice |-> 0]

Collect(i) ==
  \E amount \in 1 .. (Total[i] - paid[i]) :
    /\ paid' = [paid EXCEPT ![i] = @ + amount]
    /\ booked' = [booked EXCEPT ![i] = @ + amount]

Settle(i) ==
  /\ paid' = [paid EXCEPT ![i] = Total[i]]
  /\ UNCHANGED booked

Next == \E i \in Invoice : Collect(i) \/ Settle(i)

Spec == Init /\ [][Next]_<<paid, booked>>
=============================================================================
