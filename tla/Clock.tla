-------------------------------- MODULE Clock --------------------------------
(* The clock of the machine, in ticks.  The code reads std::chrono's steady *)
(* and system clocks; here they advance together and never jump.           *)
EXTENDS Integers

CONSTANTS
    Second,     \* ticks in a second
    MaxTime     \* bound: the clock stops there

ASSUME ClockAssumption == Second \in Nat \ {0} /\ MaxTime \in Nat

VARIABLE now

ClockInit == now = 0

Passes == now < MaxTime /\ now' = now + 1

(* duration_cast<seconds>: whole seconds since t. *)
SecondsSince(t) == (now - t) \div Second
=============================================================================
