---------------------------- MODULE ZeroIndices -----------------------------
(***************************************************************************)
(* zero_indices_fast.sv: the positions of the zeros of a vector, one in    *)
(* every cycle.  The vector is cut into X slices of V bits.  Each slice    *)
(* has an engine that gives its zeros away from the lowest upwards, and    *)
(* one more engine selects, in the same way, the slices that have zeros.   *)
(* A vector, and what is left of it in an engine, is modelled by the set   *)
(* of its zero bits.                                                       *)
(*                                                                         *)
(* A step is a rising edge of clk, after reset.  The testbench starts a    *)
(* vector while in_busy_r is low.  HAS_FINAL is defined, as in the source. *)
(***************************************************************************)
EXTENDS Integers, Sequences, FiniteSets, FiniteSetsExt

CONSTANTS X, V

VARIABLES
  reg,  \* the registers: the engines, in_busy_r, and resp_index_r if valid
  tb    \* the positions the testbench waits for

vars == <<reg, tb>>

Slice == 0 .. X - 1
Bit == 0 .. V - 1

-----------------------------------------------------------------------------
(* An engine.  load is the vector loaded, if any; en takes a zero away.    *)

resp_valid(e) == e.busy /\ e.zeros # {}
resp_index(e) == IF e.zeros = {} THEN 0 ELSE Min(e.zeros)

vector_w(e, load, en) ==
  IF load # <<>> THEN load[1] ELSE IF en THEN e.zeros \ {resp_index(e)} ELSE e.zeros

\* Mutant of is_final: the last zero is not known to be the last, and the
\* engine is never final.
FinalLate(zeros) == zeros = {}

\* is_1h: not more than one bit is left.
is_final(zeros) == Cardinality(zeros) <= 1

EngineNext(e, load, en) ==
  LET zeros == vector_w(e, load, en)
      busy == load # <<>> \/ (e.busy /\ zeros # {})
  IN  [zeros |-> zeros,
       busy |-> IF load # <<>> \/ en THEN busy ELSE e.busy,
       done |-> e.busy /\ zeros = {},
       final |-> busy /\ is_final(zeros)]

-----------------------------------------------------------------------------
(* The engines together.  start is the vector that is started, if any.     *)

select == reg.select
selected == resp_index(select)

slow_en(i) == resp_valid(select) /\ selected = i
select_en == resp_valid(select) /\ reg.slow[selected].final

SliceOf(zeros, i) == {b \in Bit : i * V + b \in zeros}
SlicesOf(zeros) == {i \in Slice : SliceOf(zeros, i) # {}}

Edge(start) ==
  reg' =
    [select |-> EngineNext(select, IF start = <<>> THEN <<>> ELSE <<SlicesOf(start[1])>>,
                           start # <<>> \/ select_en),
     slow |-> [i \in Slice |->
       EngineNext(reg.slow[i], IF start = <<>> THEN <<>> ELSE <<SliceOf(start[1], i)>>,
                  slow_en(i))],
     in_busy_r |-> start # <<>> \/ (reg.in_busy_r /\ ~select.done),
     resp |-> IF resp_valid(select) /\ resp_valid(reg.slow[selected])
              THEN <<selected * V + resp_index(reg.slow[selected])>> ELSE <<>>]

InOrder(S) == [n \in 1 .. Cardinality(S) |-> CHOOSE x \in S : Cardinality({y \in S : y < x}) = n - 1]

Score(start) ==
  tb' = (IF reg.resp # <<>> /\ tb # <<>> THEN Tail(tb) ELSE tb)
          \o (IF start = <<>> THEN <<>> ELSE InOrder(start[1]))

Clock ==
  \E start \in {<<>>} \cup
       (IF reg.in_busy_r THEN {} ELSE {<<z>> : z \in SUBSET (0 .. X * V - 1)}) :
    Edge(start) /\ Score(start)

Init ==
  LET Off == [zeros |-> {}, busy |-> FALSE, done |-> FALSE, final |-> FALSE]
  IN  /\ reg = [select |-> Off, slow |-> [i \in Slice |-> Off],
                in_busy_r |-> FALSE, resp |-> <<>>]
      /\ tb = <<>>

Next == Clock

-----------------------------------------------------------------------------
\* The zeros are reported in order and each once, and when in_busy_r falls
\* there is none that is not reported.
AnswersAsExpected ==
  /\ reg.resp # <<>> => tb # <<>> /\ reg.resp[1] = Head(tb)
  /\ ~reg.in_busy_r => tb = reg.resp
=============================================================================
