----------------------- MODULE MissingDuplicatedWord ------------------------
(***************************************************************************)
(* missing_duplicated_word.sv: a table of N words, of which all but one    *)
(* are there in pairs.  One word is read in every cycle, and its bit of a  *)
(* vector is flipped; the bit that is left is the answer.  The vector is   *)
(* modelled by the set of its bits that are 1.  It has W ** 2 bits, and a  *)
(* flip of a bit that it has not got is lost.  The bits that are not       *)
(* assigned in a scan are latched from those of the cycle before.          *)
(*                                                                         *)
(* A step is a rising edge of clk, after reset.                            *)
(***************************************************************************)
EXTENDS Integers, FiniteSets, FiniteSetsExt

CONSTANTS
  W, N,
  Words  \* the words of the table, of W bits; N is odd

VARIABLES
  reg,  \* the registers and the SRAM
  tb    \* the table of the testbench, its lonely word, and how far it is

vars == <<reg, tb>>

Id == 0 .. N - 1
Count(d, w) == Cardinality({i \in Id : d[i] = w})

-----------------------------------------------------------------------------
rd_ptr_w(start) ==
  IF start THEN 0 ELSE IF reg.cntrl_busy_r THEN reg.rd_ptr_r + 1 ELSE reg.rd_ptr_r

\* Mutant of cntrl_busy_w: the scan ends as the last word is addressed.
EndsEarly(start) == start \/ (reg.cntrl_busy_r /\ rd_ptr_w(start) # N - 1)

cntrl_busy_w(start) == start \/ (reg.cntrl_busy_r /\ rd_ptr_w(start) # N)

Flip(v, w) ==
  IF w >= W ^ 2 THEN v ELSE IF w \in v THEN v \ {w} ELSE v \cup {w}

set_vector_w(start) ==
  IF start THEN {}
  ELSE IF reg.cntrl_busy_r THEN Flip(reg.set_vector_r, reg.state_r[reg.rd_ptr_r])
  ELSE reg.set_vector_r

cntrl_dat_w(start) == IF set_vector_w(start) = {} THEN 0 ELSE Min(set_vector_w(start))

\* upt is the table after the write of this cycle, if there is one.
Edge(start, upt) ==
  reg' =
    [state_r |-> upt,
     set_vector_r |-> set_vector_w(start),
     rd_ptr_r |-> rd_ptr_w(start),
     cntrl_busy_r |-> cntrl_busy_w(start),
     cntrl_dat_r |-> IF reg.cntrl_busy_r /\ ~cntrl_busy_w(start)
                     THEN cntrl_dat_w(start) ELSE reg.cntrl_dat_r]

-----------------------------------------------------------------------------
(* The testbench: it writes the table, starts, and reads the answer when   *)
(* cntrl_busy_r has fallen.  Here it then starts again, on the same table. *)

b_configure_state ==
  /\ tb.i < N
  /\ Edge(FALSE, [reg.state_r EXCEPT ![tb.i] = tb.d[tb.i]])
  /\ tb' = [tb EXCEPT !.i = @ + 1]

Start ==
  /\ tb.i >= N /\ ~reg.cntrl_busy_r
  /\ Edge(TRUE, reg.state_r)
  /\ tb' = [tb EXCEPT !.i = N + 1]

Wait == reg.cntrl_busy_r /\ Edge(FALSE, reg.state_r) /\ UNCHANGED tb

\* The tables that b_configure_state makes up, in any order.  The SRAM holds
\* anything at first; it is all written before it is read.
Init ==
  \E d \in [Id -> Words], non_duplicated \in Words :
    /\ Count(d, non_duplicated) = 1
    /\ \A w \in Words \ {non_duplicated} : Count(d, w) % 2 = 0
    /\ reg = [state_r |-> [i \in Id |-> 0], set_vector_r |-> {}, rd_ptr_r |-> 0,
              cntrl_busy_r |-> FALSE, cntrl_dat_r |-> 0]
    /\ tb = [d |-> d, non_duplicated |-> non_duplicated, i |-> 0]

Next == b_configure_state \/ Start \/ Wait

-----------------------------------------------------------------------------
\* run_test: the answer is the lonely word (missing_duplicated_word.cpp:120).
LonelyWordFound ==
  tb.i = N + 1 /\ ~reg.cntrl_busy_r => reg.cntrl_dat_r = tb.non_duplicated

\* A lonely word is found, whatever the others are, but one that the vector has no
\* bit for.
AnswersAsExpected == LonelyWordFound \/ tb.non_duplicated >= W ^ 2
=============================================================================
