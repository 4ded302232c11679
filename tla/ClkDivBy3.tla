----------------------------- MODULE ClkDivBy3 ------------------------------
(***************************************************************************)
(* clk_div_by_3.sv: a clock of a third of the frequency of clk, high for   *)
(* half of its period, as the OR of two flops: one follows a counter of    *)
(* rising edges, the other a counter of falling edges.                     *)
(*                                                                         *)
(* A step is an edge of clk.  The state begins when rst falls.  It falls   *)
(* after a rising edge, and both counters count then too: they are         *)
(* sensitive to negedge rst, and rst is low.                               *)
(***************************************************************************)
EXTENDS Integers

VARIABLES
  reg,  \* the counters and the flops, and the level of clk
  tb    \* for how many edges clk_div_3 has had its level; 0 before its first edge

vars == <<reg, tb>>

clk_div_3 == reg.pos_out \/ reg.neg_out

\* Mutant of Wrapped: the counters count to three.
WrappedAtThree(cnt) == IF cnt = 3 THEN 0 ELSE cnt + 1

Wrapped(cnt) == IF cnt = 2 THEN 0 ELSE cnt + 1

Edge ==
  reg' = IF reg.clk
         THEN [reg EXCEPT !.clk = FALSE, !.neg = Wrapped(@), !.neg_out = (Wrapped(reg.neg) = 0)]
         ELSE [reg EXCEPT !.clk = TRUE, !.pos = Wrapped(@), !.pos_out = (Wrapped(reg.pos) = 0)]

Next ==
  /\ Edge
  /\ tb' = IF clk_div_3' # clk_div_3 THEN 1 ELSE IF tb = 0 THEN 0 ELSE tb + 1

\* While rst is high the falling edges keep neg at 2, so that neg_out is high.
Init ==
  /\ reg = [clk |-> TRUE, pos |-> 1, neg |-> 0, pos_out |-> FALSE, neg_out |-> TRUE]
  /\ tb = 0

-----------------------------------------------------------------------------
\* From the first edge of clk on, clk_div_3 changes with every third one: it
\* has a third of the frequency and is high for half of its period.
HalfOfThePeriod == [][clk_div_3' # clk_div_3 <=> tb \in {0, 3}]_vars
=============================================================================
