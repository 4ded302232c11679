-------------------------- MODULE FusedMultiplyAdd --------------------------
(***************************************************************************)
(* fused_multiply_add.sv: y += m * x + c.  m is recoded into eight Booth   *)
(* digits of radix 4; their multiples of x, c and the old result are added *)
(* by a tree of 3:2 compressors, and the result is kept in two words, the  *)
(* carries and the sums.  A word has W bits, 32 in the code.               *)
(*                                                                         *)
(* A step is a rising edge of clk, after reset.                            *)
(***************************************************************************)
EXTENDS Integers, Sequences

CONSTANTS
  W,
  M, X, C, \* operands, of 16 bits
  Inits,   \* values of cntrl_init
  Passes   \* bound: the passes of a round, 16 in the testbench

VARIABLES
  reg,  \* the registers
  tb    \* the testbench: its machine, the expected results, the passes

vars == <<reg, tb>>

INSTANCE Compressors

-----------------------------------------------------------------------------
\* Mutant of booth_recode_radix_4: the 2 of 3'b011 is not shifted.
NotShifted == <<0, 1, 1, 1, -2, -1, -1, 0>>

\* The multiple of x that each three bits of m stand for.
booth_recode_radix_4 == <<0, 1, 1, 2, -2, -1, -1, 0>>

acc(m, x) ==
  [k \in 0 .. 7 |->
     LET bth == ((2 * m) \div 4 ^ k) % 8
     IN  ShiftLeft(Bits((booth_recode_radix_4[bth + 1] * x) % 2 ^ W), 2 * k)]

\* The network, pairs of words in the order of their indices.
csa(m, x, c) ==
  LET a == acc(m, x)
      csa_0 == compress_3_to_2_W(a[2], a[1], a[0])
      csa_2 == compress_3_to_2_W(a[5], a[4], a[3])
      csa_4 == compress_3_to_2_W(csa_0[1], a[7], a[6])
      csa_6 == compress_3_to_2_W(csa_2[2], csa_2[1], csa_0[2])
      csa_8 == compress_3_to_2_W(csa_6[1], csa_4[2], csa_4[1])
      csa_10 == compress_3_to_2_W(csa_8[2], csa_8[1], csa_6[2])
      csa_12 == compress_3_to_2_W(csa_10[2], csa_10[1], Bits(c))
      csa_14 == compress_3_to_2_W(reg.csa_0_r, reg.csa_1_r, csa_12[1])
  IN  compress_3_to_2_W(csa_12[2], csa_14[1], csa_14[2])

y_w == (Value(reg.csa_0_r) + Value(reg.csa_1_r)) % 2 ^ W

-----------------------------------------------------------------------------
\* m_checker, for a result that is expected.
Checked == IF reg.y_valid_r /\ tb.expected # <<>> THEN Tail(tb.expected) ELSE tb.expected

\* Machine.apply
apply(m, x, c) == (tb.y + m * x + c) % 2 ^ W

Load ==
  \E i \in Inits :
    /\ reg' = [csa_0_r |-> Bits(i), csa_1_r |-> {}, y_valid_r |-> FALSE]
    /\ tb' = [y |-> i, expected |-> Checked, n |-> 0]

Pass ==
  \E m \in M, x \in X, c \in C :
    /\ tb.n < Passes
    /\ LET r == csa(m, x, c) IN reg' = [csa_0_r |-> r[1], csa_1_r |-> r[2], y_valid_r |-> TRUE]
    /\ tb' = [y |-> apply(m, x, c), expected |-> Append(Checked, apply(m, x, c)), n |-> tb.n + 1]

Idle ==
  /\ reg' = [reg EXCEPT !.y_valid_r = FALSE]
  /\ tb' = [tb EXCEPT !.expected = Checked]

Init ==
  /\ reg = [csa_0_r |-> {}, csa_1_r |-> {}, y_valid_r |-> FALSE]
  /\ tb = [y |-> 0, expected |-> <<>>, n |-> Passes]

Next == Load \/ Pass \/ Idle

-----------------------------------------------------------------------------
\* m_checker: a result is waited for, and is the machine's
\* (fused_multiply_add.cpp:126-136).
Validated == reg.y_valid_r => tb.expected # <<>> /\ y_w = Head(tb.expected)

\* Every pass is answered in the next cycle with the sum so far, and the two
\* words keep it, exact modulo 2 ^ W; claimed of operands m of 15 bits.
AnswersAsExpected ==
  /\ Validated
  /\ Len(tb.expected) = IF reg.y_valid_r THEN 1 ELSE 0
  /\ tb.n < Passes => y_w = tb.y
=============================================================================
