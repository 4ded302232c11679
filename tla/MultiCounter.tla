---------------------------- MODULE MultiCounter ----------------------------
(***************************************************************************)
(* multi_counter.sv: CNTRS_N counters kept in a dual-port RAM and updated  *)
(* by a four stage pipeline that accepts a command in every cycle.  A      *)
(* command reads the RAM in stage 1, meets its operand in stage 2,         *)
(* executes in stage 3 and is written back in stage 4; until then its      *)
(* result is only in the pipeline, and a younger command on the same       *)
(* counter must be handed it by the forwarding network.                    *)
(*                                                                         *)
(* One step is one rising edge of clk.  A wire of the RTL is a state       *)
(* function of the registers, with its name where TLA+ allows it.          *)
(***************************************************************************)
EXTENDS Naturals

CONSTANTS
  CntrIds,    \* the counters, 0 .. CNTRS_N - 1 in the code
  CNTRS_M,    \* the number of values of a counter, 2^CNTRS_W in the code
  Issued,     \* the commands the port is driven with
  Idle        \* what the port may show while cntr_pass is low

Op == {"OP_NOP", "OP_INIT", "OP_INCR", "OP_DECR", "OP_QRY"}
CntrVals == 0 .. CNTRS_M - 1
Ucode == [id : CntrIds, op : Op, cdat : CntrVals]

ASSUME ModulusAssumption == CNTRS_M \in Nat \ {0}
ASSUME PortAssumption == Issued \subseteq Ucode /\ Idle \subseteq Ucode

VARIABLES
  valid_r,    \* per stage, whether it holds a command
  ucode_r,    \* per stage, the command
  byp_vld,    \* ucode_r[2].byp_vld: the operand was met in stage 4, not read
  do_emit,    \* ucode_r[4].do_emit: the retiring command is a query
  ram,        \* the counters' words in the state table RAM
  dout        \* mem_prt1_dout: the word last read

vars == <<valid_r, ucode_r, byp_vld, do_emit, ram, dout>>

Stage == 1..4

\* The bits of the opcode <output>_<read><write>_<op>.
Outputs(op) == op = "OP_QRY"
Reads(op) == op \in {"OP_INCR", "OP_DECR", "OP_QRY"}
Writes(op) == op \in {"OP_INIT", "OP_INCR", "OP_DECR"}

-----------------------------------------------------------------------------
(* mem_PROC: read in stage 1, write back in stage 4.                       *)

mem_lkup == valid_r[1] /\ Reads(ucode_r[1].op)
mem_wrbk == valid_r[4] /\ Writes(ucode_r[4].op)

\* Mutant of mem_collision: a stage 1 read is not compared with stage 4.
NoCollision == FALSE

mem_collision == mem_lkup /\ mem_wrbk /\ ucode_r[1].id = ucode_r[4].id

\* The RAM: a read port whose output register keeps the last word read, and
\* a write port.  The two never meet on one word, the collision sees to it.
RamStep ==
  /\ dout' = IF mem_lkup /\ ~mem_collision THEN ram[ucode_r[1].id] ELSE dout
  /\ ram' = IF mem_wrbk THEN [ram EXCEPT ![ucode_r[4].id] = ucode_r[4].cdat]
                        ELSE ram

-----------------------------------------------------------------------------
(* fwd_PROC and exe_PROC: the operand of stage 3 and of stage 2.           *)

\* Stage s must take its operand from the older stage o.
Forwards(o, s) ==
  /\ valid_r[o]
  /\ ucode_r[s].id = ucode_r[o].id
  /\ ucode_r[s].op # "OP_INIT"

ucode_byp_3 == IF Forwards(4, 3) THEN ucode_r[4].cdat ELSE ucode_r[3].cdat

\* Mutant of ucode_cdat_3: a counter at its largest value does not wrap.
CountNoWrap ==
  CASE ucode_r[3].op = "OP_INCR" -> ucode_byp_3 + 1
    [] OTHER -> ucode_byp_3

ucode_cdat_3 ==
  CASE ucode_r[3].op = "OP_INCR" -> (ucode_byp_3 + 1) % CNTRS_M
    [] ucode_r[3].op = "OP_DECR" -> (ucode_byp_3 + CNTRS_M - 1) % CNTRS_M
    [] OTHER -> ucode_byp_3

\* Mutant of ucode_byp_2: stage 4, which is being written back, is not
\* forwarded from.
NotFromWritten ==
  IF ucode_r[2].op = "OP_INIT" THEN ucode_r[2].cdat
  ELSE IF Forwards(3, 2) THEN ucode_cdat_3
  ELSE IF byp_vld THEN ucode_r[2].cdat
  ELSE dout

\* The first of the four forwarding conditions that holds wins: the younger
\* of the two older commands has the later value.
ucode_byp_2 ==
  IF ucode_r[2].op = "OP_INIT" THEN ucode_r[2].cdat
  ELSE IF Forwards(3, 2) THEN ucode_cdat_3
  ELSE IF Forwards(4, 2) THEN ucode_r[4].cdat
  ELSE IF byp_vld THEN ucode_r[2].cdat
  ELSE dout

-----------------------------------------------------------------------------
(* ucode_PROC: what every stage loads, with cmd at the command port.       *)

ucode_nxt(cmd) ==
  [s \in Stage |->
     CASE s = 1 -> cmd
       [] s = 2 -> IF ucode_r[1].op = "OP_INIT"
                   THEN ucode_r[1]
                   ELSE [ucode_r[1] EXCEPT !.cdat = ucode_r[4].cdat]
       [] s = 3 -> [ucode_r[2] EXCEPT !.cdat = ucode_byp_2]
       [] s = 4 -> [ucode_r[3] EXCEPT !.cdat = ucode_cdat_3]]

\* The registers that are not reset, and the RAM, in every cycle.
Datapath(cmd) ==
  /\ ucode_r' = ucode_nxt(cmd)
  /\ byp_vld' = mem_collision
  /\ do_emit' = (valid_r[3] /\ Outputs(ucode_r[3].op))
  /\ RamStep

ShiftValid(pass) ==
  valid_r' = [s \in Stage |-> IF s = 1 THEN pass ELSE valid_r[s - 1]]

\* A command is issued.  valid_nxt compares ~cntr_op with OP_NOP, which no
\* opcode equals, so that every operation passed is valid, OP_NOP included.
Issue ==
  \E cmd \in Issued :
    /\ ShiftValid(TRUE)
    /\ Datapath(cmd)

\* cntr_pass is low: stage 1 loads whatever the port shows, invalid.
Bubble ==
  \E cmd \in Idle :
    /\ ShiftValid(FALSE)
    /\ Datapath(cmd)

\* rst clears the valid bits and nothing else; stage 4 is still written back.
Reset ==
  \E cmd \in Idle :
    /\ valid_r' = [s \in Stage |-> FALSE]
    /\ Datapath(cmd)

-----------------------------------------------------------------------------
\* After reset: no stage is valid, the RAM and the other registers hold what
\* they powered up with.
Init ==
  /\ valid_r = [s \in Stage |-> FALSE]
  /\ ucode_r \in [Stage -> Idle]
  /\ byp_vld \in BOOLEAN
  /\ do_emit = FALSE
  /\ ram \in [CntrIds -> CntrVals]
  /\ dout \in CntrVals

Next == Issue \/ Bubble \/ Reset

Spec == Init /\ [][Next]_vars

-----------------------------------------------------------------------------
\* Every register holds a value of its width; in particular, counting wraps.
TypeOK ==
  /\ valid_r \in [Stage -> BOOLEAN]
  /\ ucode_r \in [Stage -> Ucode]
  /\ byp_vld \in BOOLEAN
  /\ do_emit \in BOOLEAN
  /\ ram \in [CntrIds -> CntrVals]
  /\ dout \in CntrVals

\* Some stage of S older than s holds a command on the counter of stage s.
OlderIn(S, s) == \E o \in S : valid_r[o] /\ ucode_r[o].id = ucode_r[s].id

\* A command in stage 2 with no older command on its counter ahead of it has
\* its counter's word, from the RAM or from the write it collided with.
LookupCurrent ==
  /\ valid_r[2]
  /\ Reads(ucode_r[2].op)
  /\ ~OlderIn({3, 4}, 2)
  => (IF byp_vld THEN ucode_r[2].cdat ELSE dout) = ram[ucode_r[2].id]

\* A command in stage 3 that stage 4 does not forward to has its counter's
\* word.
OperandCurrent ==
  /\ valid_r[3]
  /\ Reads(ucode_r[3].op)
  /\ ~OlderIn({4}, 3)
  => ucode_r[3].cdat = ram[ucode_r[3].id]

\* A query in stage 4 shows its counter's word, and only a query is flagged
\* as one.
AnswerCurrent ==
  valid_r[4] =>
    /\ do_emit <=> Outputs(ucode_r[4].op)
    /\ do_emit => ucode_r[4].cdat = ram[ucode_r[4].id]

\* A value that is still in the pipeline is never also taken from the RAM:
\* what every stage works on is the value the commands before it left.
ForwardingInv == LookupCurrent /\ OperandCurrent /\ AnswerCurrent

-----------------------------------------------------------------------------
(* The pipeline implements the table.  A command takes effect as it enters *)
(* stage 4, so the table is the RAM with the write of stage 4 in it.       *)

tableCntrs ==
  IF mem_wrbk THEN [ram EXCEPT ![ucode_r[4].id] = ucode_r[4].cdat] ELSE ram

tableLine ==
  [s \in 1..3 |->
     IF ~valid_r[s] THEN [op |-> "none"]
     ELSE IF ucode_r[s].op = "OP_INIT"
          THEN [op |-> "OP_INIT", id |-> ucode_r[s].id, dat |-> ucode_r[s].cdat]
          ELSE [op |-> ucode_r[s].op, id |-> ucode_r[s].id]]

\* The status port: status_pass_r, status_qry_r, status_id_r, status_dat_r.
tableStatus ==
  IF ~valid_r[4] THEN [kind |-> "none"]
  ELSE IF do_emit
       THEN [kind |-> "answer", id |-> ucode_r[4].id, dat |-> ucode_r[4].cdat]
       ELSE [kind |-> "done", id |-> ucode_r[4].id]

Table == INSTANCE CounterTable
           WITH cntrs <- tableCntrs, line <- tableLine, status <- tableStatus

\* The forwarding pipeline is a table whose commands execute whole and in the
\* order they were issued, back-to-back commands on one counter included.
ImplementsTable == Table!TableSpec
=============================================================================
