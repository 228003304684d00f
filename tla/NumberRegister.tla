---------------------------- MODULE NumberRegister ----------------------------
(***************************************************************************)
(* What the numbering of documents promises: a register in which no two    *)
(* documents ever show the same number.  DocumentNumbers implements it.    *)
(***************************************************************************)
CONSTANTS Doc, Number, Unnumbered

VARIABLE shown      \* the number each document shows, if any

Init == shown = [d \in Doc |-> Unnumbered]

InUse == {shown[d] : d \in Doc} \ {Unnumbered}

\* A document takes a number nobody shows, instead of its own if it had one.
Enter(d, n) ==
    /\ n \notin InUse
    /\ shown' = [shown EXCEPT ![d] = n]

Strike(d) == shown' = [shown EXCEPT ![d] = Unnumbered]

Next == \E d \in Doc : Strike(d) \/ \E n \in Number : Enter(d, n)

Spec == Init /\ [][Next]_shown
===============================================================================
