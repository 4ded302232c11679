---------------------------- MODULE CountZeros32 ----------------------------
(***************************************************************************)
(* count_zeros_32.sv: the number of zeros of a word of eight nibbles: the  *)
(* zeros of every nibble are looked up, and added by a tree of 3:2         *)
(* compressors on words of six bits.                                       *)
(*                                                                         *)
(* csa_rnd_2 is declared with five words (line 122), of which number 2 is  *)
(* added in but never driven; it is a constant here, undriven, that may be *)
(* anything.  A step is a rising edge of clk, after reset.                 *)
(***************************************************************************)
EXTENDS Integers, Sequences, FiniteSetsExt

CONSTANTS
  Words,   \* values of x, functions of 0 .. 7 to nibbles
  Undriven \* values of csa_rnd_2[2]

VARIABLES
  reg,  \* the registers, and the wire that is not driven
  tb    \* the counts the testbench waits for

vars == <<reg, tb>>

INSTANCE Compressors WITH W <- 6

-----------------------------------------------------------------------------
count_zeros == <<4, 3, 3, 2, 3, 2, 2, 1, 3, 2, 2, 1, 2, 1, 1, 0>>

rnd_0(x) == [i \in 0 .. 7 |-> Bits(count_zeros[x[i] + 1])]

csa(x) ==
  LET a == rnd_0(x)
      rnd_1_0 == compress_3_to_2_W(a[0], a[1], a[2])
      rnd_1_2 == compress_3_to_2_W(a[3], a[4], a[5])
      rnd_2_0 == compress_3_to_2_W(a[6], a[7], rnd_1_0[1])
      rnd_2_3 == compress_3_to_2_W(rnd_1_0[2], rnd_1_2[1], rnd_1_2[2])
      rnd_3_0 == compress_3_to_2_W(rnd_2_0[1], rnd_2_0[2], Bits(reg.undriven))
      rnd_4_0 == compress_3_to_2_W(rnd_2_3[1], rnd_2_3[2], rnd_3_0[1])
  IN  compress_3_to_2_W(rnd_3_0[2], rnd_4_0[1], rnd_4_0[2])

y == (Value(reg.a_r) + Value(reg.b_r)) % 64

m_checker == IF reg.valid_r /\ tb # <<>> THEN Tail(tb) ELSE tb

Zeros(x) ==
  Cardinality({ at \in (0 .. 7) \X (0 .. 3) : (x[at[1]] \div 2 ^ at[2]) % 2 = 0 })

Pass ==
  \E x \in Words :
    /\ LET r == csa(x)
       IN  reg' = [reg EXCEPT !.a_r = r[1], !.b_r = r[2], !.valid_r = TRUE]
    /\ tb' = Append(m_checker, Zeros(x))

Idle == reg' = [reg EXCEPT !.valid_r = FALSE] /\ tb' = m_checker

Init ==
  /\ \E u \in Undriven : reg = [a_r |-> {}, b_r |-> {}, valid_r |-> FALSE, undriven |-> u]
  /\ tb = <<>>

Next == Pass \/ Idle

-----------------------------------------------------------------------------
\* m_checker: a count is waited for, and is that of the word's zeros
\* (count_zeros_32.cpp:90-101).
Validated == reg.valid_r => tb # <<>> /\ y = Head(tb)

\* Every word is answered in the next cycle, with the number of its zeros if
\* the wire that is not driven is 0.
AnswersAsExpected ==
  /\ reg.undriven = 0 => Validated
  /\ Len(tb) = IF reg.valid_r THEN 1 ELSE 0
=============================================================================
