------------------------------ MODULE CloseLedger ------------------------------
(***************************************************************************)
(* What the trade log of a symbol promises, whoever writes it.             *)
(*                                                                         *)
(* Closing fills are executed and never taken back.  Now and then a row    *)
(* books some of them: fills that no row has booked before, on a row that  *)
(* has booked none.  What is booked stays booked.                          *)
(***************************************************************************)
EXTENDS Integers, FiniteSets

VARIABLES
    executed,   \* the closing fills the exchange has executed
    booked      \* the pairs <<row, fill>> of the trade log

vars == <<executed, booked>>

BookedRows == {p[1] : p \in booked}
BookedFills == {p[2] : p \in booked}

Init ==
    /\ executed \subseteq Nat
    /\ booked = {}

Execute ==
    /\ executed \subseteq executed'
    /\ UNCHANGED booked

\* The pairs a step adds are one row of its own with fills of its own.
Book ==
    LET new == booked' \ booked
    IN  /\ booked \subseteq booked'
        /\ \A p, q \in new : p[1] = q[1]
        /\ \A p \in new : /\ p[1] \notin BookedRows
                          /\ p[2] \in executed \ BookedFills
        /\ UNCHANGED executed

Next == Execute \/ Book

Spec == Init /\ [][Next]_vars
=============================================================================
