-------------------------------- MODULE Clock ---------------------------------
(* Date.now(): every ledger of the plugin reads one wall clock.                *)
EXTENDS Integers

CONSTANT MaxTime    \* bound: the clock stops here

ASSUME ClockAssumption == MaxTime \in Nat

VARIABLE now        \* the current tick

Never == -1         \* a null timestamp

ClockTypeOK == now \in 0 .. MaxTime
ClockInit == now = 0

ClockTicks ==
  /\ now < MaxTime
  /\ now' = now + 1

===============================================================================
