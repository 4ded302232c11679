------------------------- MODULE MultiCounterProofs -------------------------
(***************************************************************************)
(* Proofs about multi_counter, for any set of counters, any modulus and    *)
(* any commands at the port.  The forwarding invariant, and with it the    *)
(* refinement, needs OP_NOP never to be issued: a passed OP_NOP is valid   *)
(* in the pipeline but reads nothing, and hands what it finds to the next  *)
(* command on its counter.                                                 *)
(***************************************************************************)
EXTENDS MultiCounter, TLAPS

\* The port is never driven with a no-operation.
NoNopIssued == \A c \in Issued : c.op # "OP_NOP"

\* Then no valid stage holds one, at any time.
NoNopInFlight == \A s \in Stage : valid_r[s] => ucode_r[s].op # "OP_NOP"

IInv == TypeOK /\ NoNopInFlight /\ ForwardingInv

-----------------------------------------------------------------------------
\* Counting stays within the width of a counter.
LEMMA CountWraps ==
  ASSUME NEW v \in CntrVals
  PROVE  /\ (v + 1) % CNTRS_M \in CntrVals
         /\ (v + CNTRS_M - 1) % CNTRS_M \in CntrVals
  BY ModulusAssumption DEF CntrVals

\* What stage 2 and stage 3 hand on is a counter's value.
LEMMA OperandTypes ==
  ASSUME TypeOK
  PROVE  /\ ucode_byp_3 \in CntrVals
         /\ ucode_cdat_3 \in CntrVals
         /\ ucode_byp_2 \in CntrVals
<1>1. \A s \in Stage : ucode_r[s].cdat \in CntrVals
  BY DEF TypeOK, Ucode
<1>2. ucode_byp_3 \in CntrVals
  BY <1>1 DEF ucode_byp_3, Stage
<1>3. ucode_cdat_3 \in CntrVals
  BY <1>2, CountWraps DEF ucode_cdat_3
<1>4. ucode_byp_2 \in CntrVals
  BY <1>1, <1>3 DEF ucode_byp_2, Stage, TypeOK
<1>5. QED
  BY <1>2, <1>3, <1>4

\* Every step advances the registers from one command at the port.
LEMMA StepShape ==
  ASSUME TypeOK, Next
  PROVE  \E cmd \in Ucode : Datapath(cmd)
  BY PortAssumption DEF Next, Issue, Bubble, Reset

\* The registers of each stage after a step, stage by stage.
LEMMA DatapathStages ==
  ASSUME NEW cmd \in Ucode, TypeOK, Datapath(cmd)
  PROVE  /\ ucode_r'[1] = cmd
         /\ ucode_r'[2] = IF ucode_r[1].op = "OP_INIT" THEN ucode_r[1]
                          ELSE [ucode_r[1] EXCEPT !.cdat = ucode_r[4].cdat]
         /\ ucode_r'[3] = [ucode_r[2] EXCEPT !.cdat = ucode_byp_2]
         /\ ucode_r'[4] = [ucode_r[3] EXCEPT !.cdat = ucode_cdat_3]
         /\ ucode_r' = [s \in Stage |-> ucode_r'[s]]
  BY DEF Datapath, ucode_nxt, Stage

LEMMA TypePreserved == TypeOK /\ [Next]_vars => TypeOK'
<1> SUFFICES ASSUME TypeOK, [Next]_vars
             PROVE  TypeOK'
  OBVIOUS
<1>1. CASE UNCHANGED vars
  BY <1>1 DEF vars, TypeOK
<1>2. CASE Next
  <2>1. PICK cmd \in Ucode : Datapath(cmd)
    BY <1>2, StepShape
  <2>2. valid_r' \in [Stage -> BOOLEAN]
    <3>1. \A s \in Stage : s = 1 \/ s - 1 \in Stage
      BY DEF Stage
    <3>2. ASSUME NEW pass \in BOOLEAN, ShiftValid(pass)
          PROVE  valid_r' \in [Stage -> BOOLEAN]
      BY <3>1, <3>2, Zenon DEF ShiftValid, TypeOK
    <3>3. QED
      BY <1>2, <3>2, Zenon DEF Next, Issue, Bubble, Reset
  <2>3. ucode_r' \in [Stage -> Ucode]
    <3>1. \A s \in Stage : ucode_r'[s] \in Ucode
      <4>1. \A s \in Stage : ucode_r[s] \in Ucode
        BY DEF TypeOK
      <4>2. \A u \in Ucode, v \in CntrVals : [u EXCEPT !.cdat = v] \in Ucode
        BY DEF Ucode
      <4>3. ucode_r[4].cdat \in CntrVals
        BY <4>1 DEF Ucode, Stage
      <4>4. QED
        BY <2>1, <4>1, <4>2, <4>3, OperandTypes, DatapathStages DEF Stage
    <3>2. QED
      BY <2>1, <3>1, DatapathStages
  <2>4. byp_vld' \in BOOLEAN /\ do_emit' \in BOOLEAN
    BY <2>1 DEF Datapath, mem_collision, mem_lkup
  <2>5. ram' \in [CntrIds -> CntrVals] /\ dout' \in CntrVals
    BY <2>1 DEF Datapath, RamStep, TypeOK, Ucode, Stage
  <2>6. QED
    BY <2>2, <2>3, <2>4, <2>5 DEF TypeOK
<1>3. QED
  BY <1>1, <1>2

\* Every register always holds a value of its width: counting never leaves
\* the range of a counter, whatever is issued, OP_NOP included.
THEOREM TypeCorrect == Spec => []TypeOK
<1>1. Init => TypeOK
  BY PortAssumption DEF Init, TypeOK
<1>2. QED
  BY <1>1, TypePreserved, PTL DEF Spec

-----------------------------------------------------------------------------
\* What a step does to the valid bits: a reset clears them, any other step
\* shifts them, and a command enters stage 1 only if it was issued.
LEMMA ValidStages ==
  ASSUME Next
  PROVE  \E cmd \in Ucode :
           /\ Datapath(cmd)
           /\ \/ \A s \in Stage : ~valid_r'[s]
              \/ /\ valid_r'[1] => cmd \in Issued
                 /\ valid_r'[2] = valid_r[1]
                 /\ valid_r'[3] = valid_r[2]
                 /\ valid_r'[4] = valid_r[3]
<1>1. ASSUME NEW pass, ShiftValid(pass)
      PROVE  /\ valid_r'[1] = pass
             /\ valid_r'[2] = valid_r[1]
             /\ valid_r'[3] = valid_r[2]
             /\ valid_r'[4] = valid_r[3]
  BY <1>1 DEF ShiftValid, Stage
<1>2. CASE Issue
  BY <1>1, <1>2, PortAssumption DEF Issue
<1>3. CASE Bubble
  BY <1>1, <1>3, PortAssumption DEF Bubble
<1>4. CASE Reset
  BY <1>4, PortAssumption DEF Reset
<1>5. QED
  BY <1>2, <1>3, <1>4 DEF Next

LEMMA NoNopPreserved ==
  ASSUME NoNopIssued, TypeOK, NoNopInFlight, Next
  PROVE  NoNopInFlight'
<1>1. PICK cmd \in Ucode :
        /\ Datapath(cmd)
        /\ \/ \A s \in Stage : ~valid_r'[s]
           \/ /\ valid_r'[1] => cmd \in Issued
              /\ valid_r'[2] = valid_r[1]
              /\ valid_r'[3] = valid_r[2]
              /\ valid_r'[4] = valid_r[3]
  BY ValidStages
<1>2. /\ ucode_r'[1].op = cmd.op
      /\ ucode_r'[2].op = ucode_r[1].op
      /\ ucode_r'[3].op = ucode_r[2].op
      /\ ucode_r'[4].op = ucode_r[3].op
  BY <1>1, DatapathStages DEF TypeOK, Ucode, Stage
<1>3. QED
  BY <1>1, <1>2 DEF NoNopIssued, NoNopInFlight, Stage

\* The forwarding network keeps up with every step: one conjunct for each of
\* the stages that works on an operand.
LEMMA ForwardingPreserved ==
  ASSUME TypeOK, NoNopInFlight, ForwardingInv, Next
  PROVE  ForwardingInv'
<1>1. PICK cmd \in Ucode :
        /\ Datapath(cmd)
        /\ \/ \A s \in Stage : ~valid_r'[s]
           \/ /\ valid_r'[1] => cmd \in Issued
              /\ valid_r'[2] = valid_r[1]
              /\ valid_r'[3] = valid_r[2]
              /\ valid_r'[4] = valid_r[3]
  BY ValidStages
<1>2. CASE \A s \in Stage : ~valid_r'[s]
  BY <1>2 DEF ForwardingInv, LookupCurrent, OperandCurrent, AnswerCurrent, Stage
<1>3. CASE /\ valid_r'[2] = valid_r[1]
           /\ valid_r'[3] = valid_r[2]
           /\ valid_r'[4] = valid_r[3]
  <2>1. /\ ucode_r'[2] = IF ucode_r[1].op = "OP_INIT" THEN ucode_r[1]
                          ELSE [ucode_r[1] EXCEPT !.cdat = ucode_r[4].cdat]
        /\ ucode_r'[3] = [ucode_r[2] EXCEPT !.cdat = ucode_byp_2]
        /\ ucode_r'[4] = [ucode_r[3] EXCEPT !.cdat = ucode_cdat_3]
    BY <1>1, DatapathStages
  <2>2. \A s \in Stage : ucode_r[s] \in Ucode
    BY DEF TypeOK
  <2>3. /\ ucode_r'[2].id = ucode_r[1].id /\ ucode_r'[2].op = ucode_r[1].op
        /\ ucode_r'[2].op # "OP_INIT" => ucode_r'[2].cdat = ucode_r[4].cdat
        /\ ucode_r'[3].id = ucode_r[2].id /\ ucode_r'[3].op = ucode_r[2].op
        /\ ucode_r'[3].cdat = ucode_byp_2
        /\ ucode_r'[4].id = ucode_r[3].id /\ ucode_r'[4].op = ucode_r[3].op
        /\ ucode_r'[4].cdat = ucode_cdat_3
    BY <2>1, <2>2 DEF Ucode, Stage
  <2>4. \A s \in Stage : ucode_r[s].id \in CntrIds
    BY <2>2 DEF Ucode
  \* The write of stage 4 is the only change of the RAM.
  <2>5. \A i \in CntrIds :
          ram'[i] = IF mem_wrbk /\ ucode_r[4].id = i THEN ucode_r[4].cdat ELSE ram[i]
    BY <1>1 DEF Datapath, RamStep, TypeOK
  \* If stage 4 is valid its counter's word is its cdat after the step: a
  \* query leaves the word it answers, any other command writes it.
  <2>6. valid_r[4] => ram'[ucode_r[4].id] = ucode_r[4].cdat
    <3>1. CASE mem_wrbk
      BY <3>1, <2>4, <2>5 DEF Stage
    <3>2. CASE valid_r[4] /\ ~mem_wrbk
      <4>1. ucode_r[4].op = "OP_QRY"
        BY <3>2, <2>2 DEF mem_wrbk, Writes, NoNopInFlight, Ucode, Op, Stage
      <4>2. do_emit
        BY <3>2, <4>1 DEF ForwardingInv, AnswerCurrent, Outputs
      <4>3. QED
        BY <3>2, <4>2, <2>4, <2>5 DEF ForwardingInv, AnswerCurrent, Stage
    <3>3. QED
      BY <3>1, <3>2
  <2>7. LookupCurrent'
    <3> SUFFICES ASSUME valid_r[1], Reads(ucode_r[1].op), ~OlderIn({3, 4}, 2)'
                 PROVE  (IF byp_vld' THEN ucode_r'[2].cdat ELSE dout')
                           = ram'[ucode_r[1].id]
      BY <1>3, <2>3 DEF LookupCurrent
    <3>1. mem_lkup /\ byp_vld' = mem_collision
      BY <1>1, Zenon DEF Datapath, mem_lkup
    <3>2. CASE mem_collision
      <4>1. byp_vld' /\ mem_wrbk /\ ucode_r[1].id = ucode_r[4].id
        BY <3>1, <3>2, Zenon DEF mem_collision
      <4>2. ucode_r'[2].cdat = ucode_r[4].cdat
        BY <2>3 DEF Reads
      <4>3. QED
        BY <4>1, <4>2, <2>4, <2>5 DEF Stage
    <3>3. CASE ~mem_collision
      <4>1. ~byp_vld' /\ ~(mem_wrbk /\ ucode_r[1].id = ucode_r[4].id)
        BY <3>1, <3>3, Zenon DEF mem_collision
      <4>2. dout' = ram[ucode_r[1].id]
        BY <1>1, <3>1, <3>3, Zenon DEF Datapath, RamStep
      <4>3. QED
        BY <4>1, <4>2, <2>4, <2>5 DEF Stage
    <3>4. QED
      BY <3>2, <3>3
  <2>8. OperandCurrent'
    <3> SUFFICES ASSUME valid_r[2], Reads(ucode_r[2].op),
                        ~(valid_r[3] /\ ucode_r[3].id = ucode_r[2].id)
                 PROVE  ucode_byp_2 = ram'[ucode_r[2].id]
      BY <1>3, <2>3 DEF OperandCurrent, OlderIn
    <3>1. ucode_r[2].op # "OP_INIT" /\ ~Forwards(3, 2)
      BY DEF Reads, Forwards
    <3>2. CASE Forwards(4, 2)
      BY <3>1, <3>2, <2>6 DEF ucode_byp_2, Forwards
    <3>3. CASE ~Forwards(4, 2)
      <4>1. ~(valid_r[4] /\ ucode_r[2].id = ucode_r[4].id)
        BY <3>1, <3>3 DEF Forwards
      <4>2. ~OlderIn({3, 4}, 2)
        BY <4>1 DEF OlderIn
      <4>3. ucode_byp_2 = ram[ucode_r[2].id]
        BY <3>1, <3>3, <4>2 DEF ForwardingInv, LookupCurrent, ucode_byp_2
      <4>4. QED
        BY <4>1, <4>3, <2>4, <2>5 DEF mem_wrbk, Stage
    <3>4. QED
      BY <3>2, <3>3
  <2>9. AnswerCurrent'
    <3> SUFFICES ASSUME valid_r[3]
                 PROVE  /\ do_emit' <=> Outputs(ucode_r[3].op)
                        /\ do_emit' => ucode_cdat_3 = ram'[ucode_r[3].id]
      BY <1>3, <2>3 DEF AnswerCurrent
    <3>1. do_emit' <=> Outputs(ucode_r[3].op)
      BY <1>1 DEF Datapath
    <3>2. ASSUME ucode_r[3].op = "OP_QRY"
          PROVE  ucode_cdat_3 = ram'[ucode_r[3].id]
      <4>1. ucode_cdat_3 = ucode_byp_3
        BY <3>2 DEF ucode_cdat_3
      <4>2. CASE Forwards(4, 3)
        BY <4>1, <4>2, <2>6 DEF Forwards, ucode_byp_3
      <4>3. CASE ~Forwards(4, 3)
        <5>1. ~(valid_r[4] /\ ucode_r[3].id = ucode_r[4].id)
          BY <3>2, <4>3 DEF Forwards
        <5>2. ucode_r[3].cdat = ram[ucode_r[3].id]
          BY <3>2, <5>1 DEF ForwardingInv, OperandCurrent, OlderIn, Reads
        <5>3. QED
          BY <4>1, <4>3, <5>1, <5>2, <2>4, <2>5 DEF ucode_byp_3, mem_wrbk, Stage
      <4>4. QED
        BY <4>2, <4>3
    <3>3. QED
      BY <3>1, <3>2 DEF Outputs
  <2>10. QED
    BY <2>7, <2>8, <2>9 DEF ForwardingInv
<1>4. QED
  BY <1>1, <1>2, <1>3

\* While no OP_NOP is issued, a value that is still in the pipeline is never
\* also taken from the RAM, however the commands follow each other.
THEOREM ForwardingCorrect ==
  ASSUME NoNopIssued
  PROVE  Spec => []ForwardingInv
<1>1. Init => IInv
  <2>1. Init => TypeOK
    BY PortAssumption DEF Init, TypeOK
  <2>2. QED
    BY <2>1 DEF Init, IInv, NoNopInFlight, ForwardingInv, LookupCurrent,
                OperandCurrent, AnswerCurrent, Stage
<1>2. IInv /\ [Next]_vars => IInv'
  <2> SUFFICES ASSUME IInv, [Next]_vars
               PROVE  IInv'
    OBVIOUS
  <2>1. CASE Next
    BY <2>1, TypePreserved, NoNopPreserved, ForwardingPreserved DEF IInv
  <2>2. CASE UNCHANGED vars
    BY <2>2 DEF IInv, vars, TypeOK, NoNopInFlight, ForwardingInv, LookupCurrent,
                OperandCurrent, AnswerCurrent, OlderIn
  <2>3. QED
    BY <2>1, <2>2
<1>3. IInv => ForwardingInv
  BY DEF IInv
<1>4. QED
  BY <1>1, <1>2, <1>3, PTL DEF Spec
-----------------------------------------------------------------------------
\* The operand a non-initialising command executes on in stage 3 is its
\* counter's value in the table the pipeline stands for.
LEMMA OperandIsTable ==
  ASSUME IInv, valid_r[3], ucode_r[3].op # "OP_INIT"
  PROVE  ucode_byp_3 = tableCntrs[ucode_r[3].id]
<1>1. /\ ucode_r[3].id \in CntrIds
      /\ ucode_r[4].id \in CntrIds
      /\ ram \in [CntrIds -> CntrVals]
      /\ ucode_r[3] \in Ucode /\ ucode_r[4] \in Ucode
  BY DEF IInv, TypeOK, Ucode, Stage
<1>2. Reads(ucode_r[3].op)
  BY <1>1 DEF IInv, NoNopInFlight, Reads, Ucode, Op, Stage
<1>3. CASE Forwards(4, 3)
  <2>1. valid_r[4] /\ ucode_r[3].id = ucode_r[4].id /\ ucode_byp_3 = ucode_r[4].cdat
    BY <1>3 DEF Forwards, ucode_byp_3
  <2>2. CASE mem_wrbk
    BY <2>1, <2>2, <1>1 DEF tableCntrs
  <2>3. CASE ~mem_wrbk
    <3>1. do_emit
      BY <2>1, <2>3, <1>1 DEF mem_wrbk, Writes, Outputs, IInv, NoNopInFlight,
                              ForwardingInv, AnswerCurrent, Ucode, Op, Stage
    <3>2. QED
      BY <2>1, <2>3, <3>1 DEF tableCntrs, IInv, ForwardingInv, AnswerCurrent
  <2>4. QED
    BY <2>2, <2>3
<1>4. CASE ~Forwards(4, 3)
  <2>1. ~(valid_r[4] /\ ucode_r[3].id = ucode_r[4].id)
    BY <1>4 DEF Forwards
  <2>2. ucode_byp_3 = ram[ucode_r[3].id]
    BY <1>2, <1>4, <2>1 DEF ucode_byp_3, IInv, ForwardingInv, OperandCurrent, OlderIn
  <2>3. QED
    BY <2>1, <2>2, <1>1 DEF tableCntrs, mem_wrbk
<1>5. QED
  BY <1>3, <1>4

\* Entering stage 4 is executing on the table: the table after a step that
\* shifts the pipeline is the table with the command of stage 3 executed.
LEMMA ExecuteStep ==
  ASSUME IInv, NEW cmd \in Ucode, Datapath(cmd), valid_r'[4] = valid_r[3]
  PROVE  Table!Execute(tableLine[3])
<1>1. /\ \A s \in Stage : ucode_r[s] \in Ucode
      /\ ram \in [CntrIds -> CntrVals]
  BY DEF IInv, TypeOK
<1>2. ucode_r'[4] = [ucode_r[3] EXCEPT !.cdat = ucode_cdat_3]
  BY DatapathStages DEF IInv
<1>3. /\ ucode_r'[4].id = ucode_r[3].id
      /\ ucode_r'[4].op = ucode_r[3].op
      /\ ucode_r'[4].cdat = ucode_cdat_3
  BY <1>1, <1>2 DEF Ucode, Stage
<1>4. ram' = tableCntrs
  BY DEF Datapath, RamStep, tableCntrs
<1>5. tableCntrs \in [CntrIds -> CntrVals]
  BY <1>1 DEF tableCntrs, Ucode, Stage
<1>6. mem_wrbk' <=> valid_r[3] /\ Writes(ucode_r[3].op)
  BY <1>3 DEF mem_wrbk
<1>7. do_emit' <=> valid_r[3] /\ Outputs(ucode_r[3].op)
  BY DEF Datapath
<1>8. CASE ~valid_r[3]
  <2>1. tableLine[3] = Table!NoCommand
    BY <1>8 DEF tableLine, Table!NoCommand
  <2>2. tableCntrs' = tableCntrs
    BY <1>4, <1>6, <1>8 DEF tableCntrs
  <2>3. tableStatus' = Table!NoStatus
    BY <1>8 DEF tableStatus, Table!NoStatus
  <2>4. QED
    BY <2>1, <2>2, <2>3 DEF Table!Execute
<1>9. CASE valid_r[3]
  <2> DEFINE c == tableLine[3]
  <2>1. c = IF ucode_r[3].op = "OP_INIT"
            THEN [op |-> "OP_INIT", id |-> ucode_r[3].id, dat |-> ucode_r[3].cdat]
            ELSE [op |-> ucode_r[3].op, id |-> ucode_r[3].id]
    BY <1>9 DEF tableLine
  <2>2. c.op = ucode_r[3].op /\ c.id = ucode_r[3].id /\ c # Table!NoCommand
    BY <2>1, <1>1, <1>9 DEF Table!NoCommand, Ucode, Op, Stage
  <2>3. c.id \in CntrIds
    BY <2>2, <1>1 DEF Ucode, Stage
  <2>4. tableCntrs' = [tableCntrs EXCEPT ![c.id] = Table!ValueAfter(c)]
    <3>1. CASE ucode_r[3].op = "OP_INIT"
      <4>1. ucode_cdat_3 = ucode_r[3].cdat
        BY <3>1 DEF ucode_cdat_3, ucode_byp_3, Forwards
      <4>2. Table!ValueAfter(c) = ucode_cdat_3
        BY <2>1, <3>1, <4>1 DEF Table!ValueAfter
      <4>3. QED
        BY <1>3, <1>4, <1>6, <1>9, <2>2, <3>1, <4>2 DEF tableCntrs, Writes
    <3>2. CASE ucode_r[3].op # "OP_INIT"
      <4>1. ucode_byp_3 = tableCntrs[c.id]
        BY <1>9, <2>2, <3>2, OperandIsTable
      <4>2. Table!ValueAfter(c) = ucode_cdat_3
        BY <2>2, <3>2, <4>1 DEF Table!ValueAfter, ucode_cdat_3
      <4>3. CASE Writes(ucode_r[3].op)
        BY <1>3, <1>4, <1>6, <1>9, <2>2, <4>2, <4>3 DEF tableCntrs
      <4>4. CASE ~Writes(ucode_r[3].op)
        <5>1. Table!ValueAfter(c) = tableCntrs[c.id]
          BY <2>2, <3>2, <4>4 DEF Table!ValueAfter, Writes
        <5>2. tableCntrs' = tableCntrs
          BY <1>4, <1>6, <4>4 DEF tableCntrs
        <5>3. QED
          BY <5>1, <5>2, <2>3, <1>5
      <4>5. QED
        BY <4>3, <4>4
    <3>3. QED
      BY <3>1, <3>2
  <2>5. tableStatus' = IF c.op = "OP_QRY" THEN Table!Answer(c.id, tableCntrs[c.id])
                                          ELSE Table!Done(c.id)
    <3>1. CASE ucode_r[3].op = "OP_QRY"
      <4>1. ucode_cdat_3 = tableCntrs[c.id]
        BY <1>9, <2>2, <3>1, OperandIsTable DEF ucode_cdat_3
      <4>2. QED
        BY <1>3, <1>7, <1>9, <2>2, <3>1, <4>1
           DEF tableStatus, Table!Answer, Outputs
    <3>2. CASE ucode_r[3].op # "OP_QRY"
      BY <1>3, <1>7, <1>9, <2>2, <3>2 DEF tableStatus, Table!Done, Outputs
    <3>3. QED
      BY <3>1, <3>2
  <2>6. QED
    BY <2>2, <2>4, <2>5 DEF Table!Execute
<1>10. QED
  BY <1>8, <1>9

\* The commands in stages 1 to 3 move on unchanged: only cdat is rewritten on
\* the way, and never that of an initialisation.
LEMMA LineStep ==
  ASSUME TypeOK, NEW cmd \in Ucode, Datapath(cmd),
         valid_r'[2] = valid_r[1], valid_r'[3] = valid_r[2]
  PROVE  /\ tableLine'[2] = tableLine[1]
         /\ tableLine'[3] = tableLine[2]
<1>1. \A s \in Stage : ucode_r[s] \in Ucode
  BY DEF TypeOK
<1>2. /\ ucode_r'[2].id = ucode_r[1].id /\ ucode_r'[2].op = ucode_r[1].op
      /\ ucode_r[1].op = "OP_INIT" => ucode_r'[2].cdat = ucode_r[1].cdat
  BY <1>1, DatapathStages DEF Ucode, Stage
<1>3. /\ ucode_r'[3].id = ucode_r[2].id /\ ucode_r'[3].op = ucode_r[2].op
      /\ ucode_r'[3].cdat = ucode_byp_2
  BY <1>1, DatapathStages DEF Ucode, Stage
<1>4. ucode_r[2].op = "OP_INIT" => ucode_byp_2 = ucode_r[2].cdat
  BY DEF ucode_byp_2
<1>5. QED
  BY <1>2, <1>3, <1>4 DEF tableLine

\* Every step of the pipeline is a step of the table.
LEMMA TableStep ==
  ASSUME IInv, Next, TypeOK'
  PROVE  Table!TableNext
<1>1. PICK cmd \in Ucode :
        /\ Datapath(cmd)
        /\ \/ \A s \in Stage : ~valid_r'[s]
           \/ /\ valid_r'[1] => cmd \in Issued
              /\ valid_r'[2] = valid_r[1]
              /\ valid_r'[3] = valid_r[2]
              /\ valid_r'[4] = valid_r[3]
  BY ValidStages
<1>2. CASE \A s \in Stage : ~valid_r'[s]
  <2>1. tableLine' = [i \in 1..3 |-> Table!NoCommand]
    BY <1>2 DEF tableLine, Table!NoCommand, Stage
  <2>2. tableStatus' = Table!NoStatus
    BY <1>2 DEF tableStatus, Table!NoStatus, Stage
  <2>3. tableCntrs' = tableCntrs
    <3>1. ~mem_wrbk'
      BY <1>2 DEF mem_wrbk, Stage
    <3>2. QED
      BY <1>1, <3>1 DEF tableCntrs, Datapath, RamStep
  <2>4. QED
    BY <2>1, <2>2, <2>3 DEF Table!TableNext, Table!Drop
<1>3. CASE /\ valid_r'[2] = valid_r[1]
           /\ valid_r'[3] = valid_r[2]
           /\ valid_r'[4] = valid_r[3]
  <2> DEFINE c == tableLine'[1]
  <2>1. c \in Table!Command \cup {Table!NoCommand}
    <3>1. ucode_r'[1] \in Ucode
      BY DEF TypeOK, Stage
    <3>2. QED
      BY <3>1 DEF tableLine, Table!Command, Table!NoCommand, Table!CntrVals,
                  Ucode, Op, CntrVals
  <2>2. tableLine'[2] = tableLine[1] /\ tableLine'[3] = tableLine[2]
    BY <1>1, <1>3, LineStep DEF IInv
  <2>3. tableLine' = [i \in 1..3 |-> IF i = 1 THEN c ELSE tableLine[i - 1]]
    <3>1. tableLine' = [i \in 1..3 |-> tableLine'[i]]
      BY DEF tableLine
    <3>2. \A i \in 1..3 : i = 1 \/ i = 2 \/ i = 3
      OBVIOUS
    <3>3. \A i \in 1..3 : tableLine'[i] = IF i = 1 THEN c ELSE tableLine[i - 1]
      BY <2>2, <3>2
    <3>4. QED
      BY <3>1, <3>3
  <2>4. Table!Execute(tableLine[3])
    BY <1>1, <1>3, ExecuteStep
  <2>5. Table!Step(c)
    BY <2>3, <2>4 DEF Table!Step
  <2>6. QED
    BY <2>1, <2>5 DEF Table!TableNext
<1>4. QED
  BY <1>1, <1>2, <1>3

\* While no OP_NOP is issued, the pipeline is a table of counters on which
\* commands execute whole, in the order they were issued and each after the
\* same number of cycles, back-to-back commands on one counter included.
THEOREM PipelineImplementsTable ==
  ASSUME NoNopIssued
  PROVE  Spec => ImplementsTable
<1>1. Init => IInv /\ Table!TableInit
  <2>1. ASSUME Init
        PROVE  TypeOK
    BY <2>1, PortAssumption DEF Init, TypeOK
  <2>2. ASSUME Init
        PROVE  NoNopInFlight /\ ForwardingInv
    BY <2>2 DEF Init, NoNopInFlight, ForwardingInv, LookupCurrent,
                OperandCurrent, AnswerCurrent, Stage
  <2>3. ASSUME Init
        PROVE  Table!TableInit
    BY <2>3 DEF Init, Table!TableInit, tableCntrs, tableLine, tableStatus, mem_wrbk,
                Table!NoCommand, Table!NoStatus, Table!CntrVals, CntrVals, Stage
  <2>4. QED
    BY <2>1, <2>2, <2>3 DEF IInv
<1>2. IInv /\ [Next]_vars => IInv' /\ [Table!TableNext]_(Table!tableVars)
  <2> SUFFICES ASSUME IInv, [Next]_vars
               PROVE  IInv' /\ [Table!TableNext]_(Table!tableVars)
    OBVIOUS
  <2>1. CASE Next
    <3>1. IInv'
      BY <2>1, TypePreserved, NoNopPreserved, ForwardingPreserved DEF IInv
    <3>2. QED
      BY <2>1, <3>1, TableStep DEF IInv
  <2>2. CASE UNCHANGED vars
    BY <2>2 DEF IInv, vars, TypeOK, NoNopInFlight, ForwardingInv, LookupCurrent,
                OperandCurrent, AnswerCurrent, OlderIn, Table!tableVars,
                tableCntrs, tableLine, tableStatus, mem_wrbk
  <2>3. QED
    BY <2>1, <2>2
<1>3. QED
  BY <1>1, <1>2, PTL DEF Spec, ImplementsTable, Table!TableSpec
=============================================================================
