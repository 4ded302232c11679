------------------------ MODULE MultiCounterVariants ------------------------
(***************************************************************************)
(* multi_counter_variants.sv: three answers to the same question, driven   *)
(* by one command port.  Solution 1 keeps the counters in one table of     *)
(* flops, solution 2 gives each counter an engine of its own, and solution *)
(* 3 keeps them in an SRAM behind five stages p0 .. p4, of which p2        *)
(* executes, p3 writes back and p4 is only there to be forwarded from.     *)
(*                                                                         *)
(* A step is a rising edge of clk, after reset.  A stage is Empty while    *)
(* its valid bit is low.  The testbench initialises every counter once,    *)
(* then increments, decrements and queries them in every order.            *)
(***************************************************************************)
EXTENDS Integers, Sequences, FiniteSets

CONSTANTS
  CntrIds,
  M,        \* the number of values of a counter, 2^W in the code
  Stimulus, \* the commands issued once the counters are initialised
  REINIT    \* whether a counter is initialised again later

ASSUME WidthAssumption == M \in Nat \ {0} /\ REINIT \in BOOLEAN

Op == {"OP_INIT", "OP_INCR", "OP_DECR", "OP_QRY"}
CntrVals == 0 .. M - 1
Ucode == [op : Op, id : CntrIds, dat : CntrVals]

ASSUME StimulusAssumption == Stimulus \subseteq Ucode

VARIABLES
  s1_mem_r, s1_out,  \* the flop table, and the answer while s1_pass_r is high
  s2_mem_r, s2_out,  \* the engines
  p,                 \* p[0] .. p[4], the stages of solution 3
  s3_sram, s3_sram_dout1, s3_out,
  ready,             \* the counters that the testbench has initialised
  cntrs, expect      \* its model of them, and by solution the answers it waits for

vars == <<s1_mem_r, s1_out, s2_mem_r, s2_out, p, s3_sram, s3_sram_dout1, s3_out,
          ready, cntrs, expect>>

Empty == [op |-> "none"]
Holds(s) == p[s] # Empty
Writes(op) == op \in {"OP_INIT", "OP_INCR", "OP_DECR"}

\* What a command leaves of the value d.
Executed(op, dat, d) ==
  CASE op = "OP_INIT" -> dat
    [] op = "OP_INCR" -> (d + 1) % M
    [] op = "OP_DECR" -> (d + M - 1) % M
    [] OTHER -> d

-----------------------------------------------------------------------------
(* Solutions 1 and 2: cmd is the command passed, or Empty.                 *)

TableStep(cmd) ==
  /\ s1_mem_r' = IF Writes(cmd.op)
                 THEN [s1_mem_r EXCEPT ![cmd.id] = Executed(cmd.op, cmd.dat, @)]
                 ELSE s1_mem_r
  /\ s1_out' = IF cmd.op = "OP_QRY" THEN <<s1_mem_r[cmd.id]>> ELSE <<>>

s2_mem_en(i, cmd) == Writes(cmd.op) /\ cmd.id = i

EnginesStep(cmd) ==
  /\ s2_mem_r' = [i \in CntrIds |->
       IF s2_mem_en(i, cmd) THEN Executed(cmd.op, cmd.dat, s2_mem_r[i]) ELSE s2_mem_r[i]]
  /\ s2_out' = IF cmd.op = "OP_QRY" THEN <<s2_mem_r[cmd.id]>> ELSE <<>>

-----------------------------------------------------------------------------
(* Solution 3.                                                             *)

\* fwd__s<older>_to_s1 and _to_s2, by the number of the stage.
fwd(older, s) == Holds(older) /\ p[s].id = p[older].id

\* Mutant of p2_dat: the older of two older values wins.
OlderFirst == IF fwd(4, 2) THEN p[4].dat ELSE IF fwd(3, 2) THEN p[3].dat ELSE p[2].dat

p2_dat == IF fwd(3, 2) THEN p[3].dat ELSE IF fwd(4, 2) THEN p[4].dat ELSE p[2].dat

\* Mutant of p3_dat: a counter at its largest value does not wrap.
CountNoWrap == IF p[2].op = "OP_INCR" THEN p2_dat + 1 ELSE p2_dat

\* The operand is what an OP_INIT writes, too.
p3_dat == Executed(p[2].op, p2_dat, p2_dat)

\* Mutant of p2_dat_nxt: p4, which is written back, is not forwarded from.
NotFromWritten ==
  IF fwd(2, 1) THEN p3_dat
  ELSE IF fwd(3, 1) THEN p[3].dat
  ELSE IF p[1].op = "OP_INIT" THEN p[1].dat
  ELSE s3_sram_dout1

\* A forwarded value comes before the data of an OP_INIT.
p2_dat_nxt ==
  IF fwd(2, 1) THEN p3_dat
  ELSE IF fwd(3, 1) THEN p[3].dat
  ELSE IF fwd(4, 1) THEN p[4].dat
  ELSE IF p[1].op = "OP_INIT" THEN p[1].dat
  ELSE s3_sram_dout1

s3_wrbk == Holds(3) /\ Writes(p[3].op)

s0_collision == s3_wrbk /\ p[0].id = p[3].id

\* A read is skipped when the word is being written; one that is not sees the
\* old word.
PipelineStep(cmd) ==
  /\ p' = [s \in 0 .. 4 |->
       CASE s = 0 -> cmd
         [] s = 1 -> p[0]
         [] s = 2 -> IF Holds(1) THEN [p[1] EXCEPT !.dat = p2_dat_nxt] ELSE Empty
         [] s = 3 -> IF Holds(2) THEN [p[2] EXCEPT !.dat = p3_dat] ELSE Empty
         [] s = 4 -> p[3]]
  /\ s3_sram_dout1' = IF Holds(0) /\ ~s0_collision THEN s3_sram[p[0].id] ELSE s3_sram_dout1
  /\ s3_sram' = IF s3_wrbk THEN [s3_sram EXCEPT ![p[3].id] = p[3].dat] ELSE s3_sram
  /\ s3_out' = IF Holds(3) /\ p[3].op = "OP_QRY" THEN <<p[3].dat>> ELSE <<>>

-----------------------------------------------------------------------------
(* The testbench.                                                          *)

outs == <<s1_out, s2_out, s3_out>>

\* m_trace takes the answers of this cycle off its lists, b_cmd_issue adds to
\* all of them.
Score(cmd) ==
  /\ expect' = [k \in 1 .. 3 |->
       (IF outs[k] # <<>> /\ expect[k] # <<>> THEN Tail(expect[k]) ELSE expect[k])
         \o (IF cmd.op = "OP_QRY" THEN <<cntrs[cmd.id]>> ELSE <<>>)]
  /\ cntrs' = IF Writes(cmd.op)
              THEN [cntrs EXCEPT ![cmd.id] = Executed(cmd.op, cmd.dat, @)] ELSE cntrs

Clock(cmd) == TableStep(cmd) /\ EnginesStep(cmd) /\ PipelineStep(cmd) /\ Score(cmd)

Initialise ==
  \E i \in CntrIds, d \in CntrVals :
    /\ i \notin ready \/ REINIT
    /\ Clock([op |-> "OP_INIT", id |-> i, dat |-> d])
    /\ ready' = ready \cup {i}

Stimulate ==
  \E cmd \in Stimulus :
    /\ ready = CntrIds
    /\ Clock(cmd)
    /\ UNCHANGED ready

Idle == Clock(Empty) /\ UNCHANGED ready

Init ==
  /\ s1_mem_r = [i \in CntrIds |-> 0] /\ s1_out = <<>>
  /\ s2_mem_r = [i \in CntrIds |-> 0] /\ s2_out = <<>>
  /\ p = [s \in 0 .. 4 |-> Empty]
  /\ s3_sram \in [CntrIds -> CntrVals] /\ s3_sram_dout1 \in CntrVals /\ s3_out = <<>>
  /\ ready = {}
  /\ cntrs = [i \in CntrIds |-> 0]
  /\ expect = [k \in 1 .. 3 |-> <<>>]

Next == Initialise \/ Stimulate \/ Idle

Spec == Init /\ [][Next]_vars

-----------------------------------------------------------------------------
\* Every register holds a value of its width.
TypeOK ==
  /\ s1_mem_r \in [CntrIds -> CntrVals] /\ s2_mem_r \in [CntrIds -> CntrVals]
  /\ p \in [0 .. 4 -> Ucode \cup {Empty}]
  /\ s3_sram \in [CntrIds -> CntrVals] /\ s3_sram_dout1 \in CntrVals
  /\ \A k \in 1 .. 3 : outs[k] \in {<<>>} \cup {<<d>> : d \in CntrVals}

\* do_check: the three solutions answer every query with the value of the
\* testbench's counter, in the order of the queries, and no answer is left out.
AnswersAsExpected ==
  \A k \in 1 .. 3 :
    /\ outs[k] # <<>> => expect[k] # <<>> /\ outs[k][1] = Head(expect[k])
    /\ Len(expect[k]) =
         Len(outs[k]) + (IF k = 3 THEN Cardinality({s \in 0 .. 3 : p[s].op = "OP_QRY"}) ELSE 0)

\* The word of a counter in the SRAM is late by what the stages hold: it is
\* right, or a younger value of the counter is in p3, or on its way there.
SramCatchesUp ==
  \A i \in ready :
    (\A s \in 0 .. 2 : Holds(s) => p[s].id # i) =>
      (IF s3_wrbk /\ p[3].id = i THEN p[3].dat ELSE s3_sram[i]) = cntrs[i]
=============================================================================
