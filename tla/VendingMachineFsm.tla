------------------------- MODULE VendingMachineFsm --------------------------
(***************************************************************************)
(* vending_machine_fsm.sv: a machine that takes nickels and dimes, vends   *)
(* at forty cents and owes a nickel of change at forty-five.  Its state    *)
(* FSM__0_<n> is modelled by n in nickels.                                 *)
(*                                                                         *)
(* A step is a rising edge of clk, after reset.  The machine does not take *)
(* a coin in the cycle in which it vends, and the customer inserts none.   *)
(***************************************************************************)
EXTENDS Integers

CONSTANT Purse  \* bound: the nickels a customer has

VARIABLES
  reg,  \* fsm_r
  tb    \* value_, vend_n_ and change_n_, of the testbench

vars == <<reg, tb>>

vend == reg >= 8
change == reg = 9

\* Of two coins at once the nickel is taken.
fsm_w(nickel, dime) ==
  IF vend THEN 0 ELSE IF nickel THEN reg + 1 ELSE IF dime THEN reg + 2 ELSE reg

Clock(nickel, dime) ==
  LET value == IF nickel THEN 1 ELSE IF dime THEN 2 ELSE 0
  IN  /\ vend => ~nickel /\ ~dime
      /\ tb.value + value <= Purse
      /\ reg' = fsm_w(nickel, dime)
      /\ tb' = [value |-> tb.value + value,
                vend_n |-> tb.vend_n + (IF ~vend /\ reg' >= 8 THEN 1 ELSE 0),
                change_n |-> tb.change_n + (IF ~vend /\ reg' = 9 THEN 1 ELSE 0)]

Init == reg = 0 /\ tb = [value |-> 0, vend_n |-> 0, change_n |-> 0]

Next == \E nickel, dime \in BOOLEAN : Clock(nickel, dime)

-----------------------------------------------------------------------------
\* What was inserted is what was paid for drinks, given as change and is still
\* in the machine.
Conserved ==
  tb.value = 8 * tb.vend_n + tb.change_n + (IF vend THEN 0 ELSE reg)
=============================================================================
