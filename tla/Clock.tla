------------------------------- MODULE Clock -------------------------------
(***************************************************************************)
(* The wall clock (Date.now) as the gateway's admission checks read it: an *)
(* integer that never runs backwards.  One handler runs within one tick.   *)
(***************************************************************************)
EXTENDS Integers

CONSTANT MaxTime        \* bound: the last instant

ASSUME ClockAssumption == MaxTime \in Nat

VARIABLE now

Times == 0..MaxTime

ClockInit == now = 0

Advance ==
    /\ now < MaxTime
    /\ now' = now + 1
=============================================================================
