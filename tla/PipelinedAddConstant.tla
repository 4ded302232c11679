------------------------ MODULE PipelinedAddConstant ------------------------
(***************************************************************************)
(* pipelined_add_constant.sv: two accumulators that add INCR in every      *)
(* cycle, A with an adder in front of its register, and B with an adder    *)
(* that has the register inside (two_cycle_adder.sv) and is fed back.  The *)
(* testbench asserts, after reset, that they agree.                        *)
(*                                                                         *)
(* A step is a rising edge of clk, and rst is an input: the first state is *)
(* the one after the first edge in reset.  That edge does not initialise   *)
(* the increments and the result of B, which hold anything.  A_w of B is   *)
(* not driven: what A_r of B takes after reset is not read, for fwd_r is   *)
(* set by then, and A_r keeps its value here.                              *)
(***************************************************************************)
EXTENDS Integers, FiniteSetsExt

CONSTANTS W, INIT, INCR

VARIABLES
  reg,  \* the registers
  tb    \* edges in reset and after it (up to 2), I_r of B at the last in reset,
        \* and the sum since then

vars == <<reg, tb>>

Word == 0 .. 2 ^ W - 1
Add(a, b) == (a + b) % 2 ^ W

-----------------------------------------------------------------------------
A_w == Add(reg.A_r, reg.A_I_r)

A(rst) ==
  [A_r |-> IF rst THEN 0 ELSE IF reg.init_r THEN INIT ELSE A_w,
   A_I_r |-> IF reg.init_r THEN INCR ELSE reg.A_I_r,
   A_y_r |-> IF rst THEN 0 ELSE A_w]

adder__a == IF reg.fwd_r THEN reg.B_y_r ELSE reg.B_A_r

B(rst) ==
  [B_A_r |-> IF rst THEN 0 ELSE IF reg.init_r THEN INIT ELSE reg.B_A_r,
   B_I_r |-> IF reg.init_r THEN INCR ELSE reg.B_I_r,
   fwd_r |-> ~rst,
   B_y_r |-> Add(adder__a, reg.B_I_r)]

Edge(rst) ==
  LET a == A(rst)
      b == B(rst)
  IN  reg' = [A_r |-> a.A_r, A_I_r |-> a.A_I_r, A_y_r |-> a.A_y_r,
              B_A_r |-> b.B_A_r, B_I_r |-> b.B_I_r, B_y_r |-> b.B_y_r,
              fwd_r |-> b.fwd_r, init_r |-> rst]

fail == reg.A_y_r # reg.B_y_r

Reset ==
  /\ tb.run = 0
  /\ Edge(TRUE)
  /\ tb' = [tb EXCEPT !.held = Min({2, @ + 1}), !.ahead = reg'.B_I_r]

Run ==
  /\ Edge(FALSE)
  /\ tb' = [tb EXCEPT !.run = Min({2, @ + 1}),
                      !.sum = IF tb.run = 0 THEN INIT ELSE Add(@, INCR)]

Init ==
  \E i, j, y \in Word :
    /\ reg = [A_r |-> 0, A_I_r |-> i, A_y_r |-> 0, B_A_r |-> 0, B_I_r |-> j, B_y_r |-> y,
              fwd_r |-> FALSE, init_r |-> TRUE]
    /\ tb = [held |-> 1, run |-> 0, ahead |-> j, sum |-> INIT]

Next == Reset \/ Run

-----------------------------------------------------------------------------
\* m_checker: "LIBTB_ASSERT_ERROR(!fail_)" (pipelined_add_constant.cpp:70).
NeverFails == tb.run = 2 => ~fail

\* From the second edge after reset A has the sum, and B has it as well unless
\* its increment register left reset with another value than INIT.
AnswersAsExpected ==
  tb.run = 2 => reg.A_y_r = tb.sum /\ (tb.ahead = INIT => reg.B_y_r = tb.sum)
=============================================================================
