----------------------------- MODULE OrderPermits -----------------------------
(***************************************************************************)
(* What is left of a trading session that was switched off, in the terms   *)
(* of its orders.  A cycle that begins while the session is on gets a      *)
(* permit for two orders, the second for the case that the first times     *)
(* out; it may lose it and never regains it.  Switching the session off    *)
(* takes no permit back, so an order may still be sent after a stop, but   *)
(* not more than two, whatever tasks, retries, edits and restarts follow,  *)
(* until the session is switched on again.                                 *)
(***************************************************************************)
EXTENDS Naturals

VARIABLES
    on,     \* is the session switched on?
    left,   \* orders that the cycle under way may still send
    late    \* orders sent since the session was switched off

PerCycle == 2

Init == on = FALSE /\ left = 0 /\ late = 0

SwitchOn ==
    /\ ~on /\ on' = TRUE
    /\ left' \in 0 .. left
    /\ late' = 0

SwitchOff ==
    /\ on /\ on' = FALSE
    /\ left' \in 0 .. left
    /\ UNCHANGED late

\* A cycle begins.
Grant ==
    /\ on
    /\ left = 0 /\ left' = PerCycle
    /\ UNCHANGED <<on, late>>

Order ==
    /\ left > 0 /\ left' = left - 1
    /\ late' = IF on THEN late ELSE late + 1
    /\ UNCHANGED on

\* The cycle ends, fails or is cancelled, or spends its first try.
Lose ==
    /\ left' \in 0 .. left
    /\ UNCHANGED <<on, late>>

Next == SwitchOn \/ SwitchOff \/ Grant \/ Order \/ Lose

Spec == Init /\ [][Next]_<<on, left, late>>
=============================================================================
