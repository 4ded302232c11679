------------------------------- MODULE DivBy3 -------------------------------
(***************************************************************************)
(* div_by_3.sv: x / 3 as the product of x and 0x2AAB / 2^15, of which one  *)
(* bit is multiplied in every cycle.  x is not registered: it is read from *)
(* the port in all eight cycles.                                           *)
(*                                                                         *)
(* A step is a rising edge of clk, after reset.  The client passes an      *)
(* operand while busy_r is low and holds it, as the testbench does.        *)
(***************************************************************************)
EXTENDS Integers, Sequences

CONSTANT Operands

VARIABLES
  reg,  \* the registers
  tb    \* the operand on the port, and the quotients the testbench waits for

vars == <<reg, tb>>

-----------------------------------------------------------------------------
\* The shifts of the bits of 0x2AAB, by state.
Shift == [s \in 0 .. 7 |-> IF s = 0 THEN 0 ELSE 2 * s - 1]

\* The product of 16 and 14 bits fits the accumulator.
accumulator_w(x) ==
  LET inc == x * 2 ^ Shift[reg.state]
  IN  IF reg.state = 0 THEN inc ELSE reg.accumulator + inc

state_w(pass) ==
  IF pass \/ ~reg.busy THEN IF pass THEN 0 ELSE reg.state
  ELSE IF reg.state = 7 THEN 0 ELSE reg.state + 1

y_r == reg.accumulator \div 2 ^ 15

Edge(pass) ==
  reg' =
    [state |-> state_w(pass),
     busy |-> pass \/ (reg.busy /\ state_w(pass) # 0),
     accumulator |-> IF reg.busy THEN accumulator_w(tb.x) ELSE reg.accumulator,
     valid |-> ~reg.valid /\ reg.state # 0 /\ state_w(pass) = 0]

Left == IF reg.valid /\ tb.expected # <<>> THEN Tail(tb.expected) ELSE tb.expected

\* The operand is on the port from the edge that it is passed on; the
\* accumulator does not look at it before.
Pass ==
  \E x \in Operands :
    /\ ~reg.busy
    /\ Edge(TRUE)
    /\ tb' = [x |-> x, expected |-> Append(Left, x \div 3)]

Wait == Edge(FALSE) /\ tb' = [tb EXCEPT !.expected = Left]

Init ==
  /\ reg = [state |-> 0, busy |-> FALSE, accumulator |-> 0, valid |-> FALSE]
  /\ tb = [x |-> 0, expected |-> <<>>]

Next == Pass \/ Wait

-----------------------------------------------------------------------------
\* Every operand is answered once, with its quotient, at the end of busy_r.
AnswersAsExpected ==
  /\ reg.valid => tb.expected # <<>> /\ y_r = Head(tb.expected)
  /\ Len(tb.expected) = IF reg.busy \/ reg.valid THEN 1 ELSE 0
=============================================================================
