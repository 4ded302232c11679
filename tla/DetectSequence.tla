--------------------------- MODULE DetectSequence ---------------------------
(***************************************************************************)
(* detect_sequence.sv: the bits 10011010 are looked for in a stream twice, *)
(* by a state machine and in a shift register; fail_w compares the two.    *)
(*                                                                         *)
(* A step is a rising edge of clk, after reset.                            *)
(***************************************************************************)
EXTENDS Integers, Sequences

SEQUENCE == <<1, 0, 0, 1, 1, 0, 1, 0>>

VARIABLES
  reg,  \* fsm_r, the number of its state, and shift_r, its oldest bit first
  tb    \* the edges since the state machine last detected the sequence, up to 8

vars == <<reg, tb>>

\* The states after a 0 and after a 1.
Transition ==
  [s \in 0 .. 8 |->
     CASE s = 0 -> <<0, 1>> [] s = 1 -> <<2, 1>> [] s = 2 -> <<3, 1>>
       [] s = 3 -> <<0, 4>> [] s = 4 -> <<2, 5>> [] s = 5 -> <<6, 1>>
       [] s = 6 -> <<3, 7>> [] s = 7 -> <<8, 1>> [] s = 8 -> <<0, 1>>]

\* Mutant of fsm_w: a second 0 in the middle of the sequence is ignored.
ZeroIgnored(in) == IF reg.fsm = 6 /\ in = 0 THEN 6 ELSE Transition[reg.fsm][in + 1]

fsm_w(in) == Transition[reg.fsm][in + 1]

detect_fsm == reg.fsm = 8
detect_shift == reg.shift = SEQUENCE
fail_w == detect_fsm # detect_shift

Next ==
  \E in \in {0, 1} :
    /\ reg' = [fsm |-> fsm_w(in), shift |-> Append(Tail(reg.shift), in)]
    /\ tb' = IF detect_fsm THEN 1 ELSE IF tb < 8 THEN tb + 1 ELSE tb

Init ==
  /\ reg = [fsm |-> 0, shift |-> [i \in 1 .. 8 |-> 0]]
  /\ tb = 8

-----------------------------------------------------------------------------
\* The state machine detects the sequence where it is, and misses it only when
\* it shares its first two bits with the sequence that was detected last.
DetectsUnlessShared ==
  /\ detect_fsm => detect_shift
  /\ detect_shift /\ ~detect_fsm => tb = 6

\* m_checker: "LIBTB_ASSERT_ERROR(!fail_r_)" (detect_sequence.cpp:72), where
\* fail_r was to be fail_w.
NeverFails == ~fail_w
=============================================================================
