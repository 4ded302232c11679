-------------------------- MODULE ZeroIndicesSlow ---------------------------
(***************************************************************************)
(* zero_indices_slow.sv: the positions of the zeros of a W-bit vector, one *)
(* in every cycle, from the whole vector at once.  A vector is modelled by *)
(* the set of its zero bits.  A step is a rising edge of clk, after reset; *)
(* the testbench starts a vector while in_busy_r is low.                   *)
(***************************************************************************)
EXTENDS Integers, Sequences, FiniteSets, FiniteSetsExt

CONSTANT W

VARIABLES
  reg,  \* the registers: vector_r, in_busy_r, and resp_index_r if valid
  tb    \* the vector last started, and the positions that are waited for

vars == <<reg, tb>>

-----------------------------------------------------------------------------
ffs(x) == IF x = {} THEN {} ELSE {Min(x)}
encode(x) == IF x = {} THEN 0 ELSE Min(x)

first_zero == ffs(reg.vector_r)

\* start is the vector that is started, if any.
vector_w(start) ==
  IF start # <<>> THEN start[1]
  ELSE IF reg.in_busy_r THEN reg.vector_r \ first_zero ELSE reg.vector_r

Edge(start) ==
  reg' = [vector_r |-> vector_w(start),
          in_busy_r |-> start # <<>> \/ (reg.in_busy_r /\ vector_w(start) # {}),
          resp |-> IF reg.in_busy_r THEN <<encode(first_zero)>> ELSE <<>>]

construct_stimulus(v) ==
  [n \in 1 .. Cardinality(v) |-> CHOOSE i \in v : Cardinality({j \in v : j < i}) = n - 1]

m_checker == IF reg.resp # <<>> /\ tb.p # <<>> THEN Tail(tb.p) ELSE tb.p

b_issue_in ==
  \E v \in SUBSET (0 .. W - 1) :
    /\ ~reg.in_busy_r
    /\ Edge(<<v>>)
    /\ tb' = [v |-> v, p |-> m_checker \o construct_stimulus(v)]

Wait == Edge(<<>>) /\ tb' = [tb EXCEPT !.p = m_checker]

Init ==
  /\ reg = [vector_r |-> {}, in_busy_r |-> FALSE, resp |-> <<>>]
  /\ tb = [v |-> {}, p |-> <<>>]

Next == b_issue_in \/ Wait

-----------------------------------------------------------------------------
\* m_checker: a response is waited for, and is the next position of a zero
\* (zero_indices_slow.cpp:121-144).
Validated == reg.resp # <<>> => tb.p # <<>> /\ reg.resp[1] = Head(tb.p)

\* The zeros of a vector that has any are reported in order, each once, and
\* none is left out.
AnswersAsExpected == tb.v # {} => Validated /\ (~reg.in_busy_r => tb.p = reg.resp)
=============================================================================
