----------------------------- MODULE Fibonacci ------------------------------
(***************************************************************************)
(* fibonacci.sv: two W-bit registers, of which one is written with their   *)
(* sum in every cycle and the other is the output.  A step is a rising     *)
(* edge of clk, after reset.                                               *)
(***************************************************************************)
EXTENDS Integers

CONSTANT W

VARIABLES
  reg,  \* the registers
  tb    \* the last two of the expected numbers

vars == <<reg, tb>>

Add(a, b) == (a + b) % 2 ^ W

y == IF reg.sel_r THEN reg.x_1_r ELSE reg.x_0_r

Edge ==
  LET x_w == Add(reg.x_0_r, reg.x_1_r)
  IN  reg' = [sel_r |-> ~reg.sel_r,
              x_0_r |-> IF reg.sel_r THEN reg.x_0_r ELSE x_w,
              x_1_r |-> IF reg.sel_r THEN x_w ELSE reg.x_1_r]

step_fibonacci == tb' = <<tb[2], Add(tb[1], tb[2])>>

Init ==
  /\ reg = [sel_r |-> FALSE, x_0_r |-> 1, x_1_r |-> 1]
  /\ tb = <<1, 1>>

Next == Edge /\ step_fibonacci

-----------------------------------------------------------------------------
\* The output is the sequence that begins with 1, 1 and goes on with the sum
\* of the last two.
AnswersAsExpected == y = tb[1]
=============================================================================
