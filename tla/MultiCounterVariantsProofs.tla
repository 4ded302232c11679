--------------------- MODULE MultiCounterVariantsProofs ----------------------
(***************************************************************************)
(* Proofs about multi_counter_variants, for any counters, any width and    *)
(* any stimulus that initialises each counter once: that the three         *)
(* solutions give the testbench the answers it waits for.                  *)
(***************************************************************************)
EXTENDS MultiCounterVariants, FiniteSetTheorems, SequenceTheorems, TLAPS

\* As the testbench has it.  An OP_INIT that follows another command of its
\* counter closely is given the wrong data by solution 3.
InitialisedOnce == ~REINIT /\ \A cmd \in Stimulus : cmd.op # "OP_INIT"

-----------------------------------------------------------------------------
(* The invariant.                                                          *)

\* The value of counter i once p3 has been written back, and once the commands
\* of p2, of p1 and of p0 have been executed, too.
Written(i) == IF Holds(3) /\ p[3].id = i THEN p[3].dat ELSE s3_sram[i]
Done(s, i, d) == IF Holds(s) /\ p[s].id = i THEN Executed(p[s].op, p[s].dat, d) ELSE d
After2(i) == Done(2, i, Written(i))
After1(i) == Done(1, i, After2(i))
After0(i) == Done(0, i, After1(i))

Types ==
  /\ TypeOK
  /\ ready \subseteq CntrIds /\ cntrs \in [CntrIds -> CntrVals]
  /\ expect \in [1 .. 3 -> Seq(CntrVals)]

\* Solutions 1 and 2 are the testbench's model with a register behind it.
TablesInv ==
  /\ s1_mem_r = cntrs /\ s2_mem_r = cntrs
  /\ expect[1] = s1_out /\ expect[2] = s2_out

\* Nothing of a counter is in front of its OP_INIT.
OnceInv ==
  /\ \A s \in 0 .. 4 : Holds(s) => p[s].id \in ready
  /\ \A s \in 0 .. 4, t \in 0 .. 4 :
       s < t /\ Holds(s) /\ Holds(t) /\ p[s].op = "OP_INIT" => p[s].id # p[t].id

\* A query has nothing to write back, and p4 has been written back.
WrittenInv ==
  /\ Holds(3) /\ p[3].op = "OP_QRY" => p[3].dat = s3_sram[p[3].id]
  /\ Holds(4) => p[4].dat = s3_sram[p[4].id]

\* What was read is right unless it can be forwarded.
ReadInv ==
  Holds(1) /\ (\A s \in 2 .. 4 : Holds(s) => p[s].id # p[1].id) =>
    s3_sram_dout1 = s3_sram[p[1].id]

\* The operand in p2, after forwarding.
OperandInv == Holds(2) /\ p[2].op # "OP_INIT" => p2_dat = Written(p[2].id)

ModelInv == \A i \in ready : After0(i) = cntrs[i]

\* The answer to a query in stage s, if the value of its counter is d there.
Answer(s, d) == IF p[s].op = "OP_QRY" THEN <<d>> ELSE <<>>

\* The answers still to come, from the oldest to the newest.
AnswersInv ==
  expect[3] = s3_out \o (Answer(3, p[3].dat) \o (Answer(2, Written(p[2].id))
                \o (Answer(1, After2(p[1].id)) \o Answer(0, After1(p[0].id)))))

IInv ==
  /\ Types /\ TablesInv /\ OnceInv /\ WrittenInv /\ ReadInv /\ OperandInv
  /\ ModelInv /\ AnswersInv

-----------------------------------------------------------------------------
(* Values and stages.                                                      *)

LEMMA ExecutedType ==
  ASSUME NEW op \in Op, NEW dat \in CntrVals, NEW d \in CntrVals
  PROVE  Executed(op, dat, d) \in CntrVals
<1>1. PICK m \in Nat \ {0} : m = M
  BY WidthAssumption
<1>2. d \in Nat /\ d + m - 1 \in Nat /\ d + 1 \in Nat
  BY <1>1 DEF CntrVals
<1>3. (d + 1) % m \in 0 .. m - 1 /\ (d + m - 1) % m \in 0 .. m - 1
  BY <1>2
<1>4. QED
  BY <1>1, <1>3 DEF Executed, CntrVals

LEMMA Held ==
  ASSUME TypeOK, NEW s \in 0 .. 4
  PROVE  /\ Holds(s) => p[s].op \in Op /\ p[s].id \in CntrIds /\ p[s].dat \in CntrVals
         /\ ~Holds(s) => p[s].op \notin Op
         /\ Holds(s) => p[s] \in Ucode
<1>1. p[s] \in Ucode \cup {Empty}
  BY DEF TypeOK
<1>2. Empty.op \notin Op
  BY DEF Empty, Op
<1>3. QED
  BY <1>1, <1>2 DEF Holds, Ucode

LEMMA OperandType ==
  ASSUME TypeOK
  PROVE  /\ Holds(2) => p2_dat \in CntrVals /\ p3_dat \in CntrVals
         /\ Holds(1) => p2_dat_nxt \in CntrVals
<1>1. ASSUME Holds(2)
      PROVE  p2_dat \in CntrVals /\ p3_dat \in CntrVals
  <2>1. p2_dat \in CntrVals
    BY <1>1, Held DEF p2_dat, fwd
  <2>2. QED
    BY <1>1, <2>1, Held, ExecutedType DEF p3_dat
<1>2. ASSUME Holds(1)
      PROVE  p2_dat_nxt \in CntrVals
  <2>1. s3_sram_dout1 \in CntrVals
    BY DEF TypeOK
  <2>2. QED
    BY <1>1, <1>2, <2>1, Held DEF p2_dat_nxt, fwd
<1>3. QED
  BY <1>1, <1>2

\* The stages after an edge of clk.
LEMMA Stages ==
  ASSUME TypeOK, NEW cmd \in Ucode \cup {Empty}, PipelineStep(cmd)
  PROVE  /\ p' \in [0 .. 4 -> Ucode \cup {Empty}]
         /\ p'[0] = cmd /\ p'[1] = p[0] /\ p'[4] = p[3]
         /\ Holds(1) => /\ p'[2] # Empty /\ p'[2].op = p[1].op
                        /\ p'[2].id = p[1].id /\ p'[2].dat = p2_dat_nxt
         /\ ~Holds(1) => p'[2] = Empty
         /\ Holds(2) => /\ p'[3] # Empty /\ p'[3].op = p[2].op
                        /\ p'[3].id = p[2].id /\ p'[3].dat = p3_dat
         /\ ~Holds(2) => p'[3] = Empty
<1> DEFINE f(s) == CASE s = 0 -> cmd
                     [] s = 1 -> p[0]
                     [] s = 2 -> IF Holds(1) THEN [p[1] EXCEPT !.dat = p2_dat_nxt] ELSE Empty
                     [] s = 3 -> IF Holds(2) THEN [p[2] EXCEPT !.dat = p3_dat] ELSE Empty
                     [] s = 4 -> p[3]
<1>1. p' = [s \in 0 .. 4 |-> f(s)]
  BY DEF PipelineStep
<1>2. /\ f(0) = cmd /\ f(1) = p[0] /\ f(4) = p[3]
      /\ f(2) = IF Holds(1) THEN [p[1] EXCEPT !.dat = p2_dat_nxt] ELSE Empty
      /\ f(3) = IF Holds(2) THEN [p[2] EXCEPT !.dat = p3_dat] ELSE Empty
  OBVIOUS
<1> HIDE DEF f
<1>3. p'[0] = f(0) /\ p'[1] = f(1) /\ p'[2] = f(2) /\ p'[3] = f(3) /\ p'[4] = f(4)
  BY <1>1
<1>4. Empty.op \notin Op
  BY DEF Empty, Op
<1>5. Holds(1) => /\ p'[2] \in Ucode /\ p'[2].op = p[1].op
                  /\ p'[2].id = p[1].id /\ p'[2].dat = p2_dat_nxt
  BY <1>2, <1>3, Held, OperandType DEF Ucode
<1>6. Holds(2) => /\ p'[3] \in Ucode /\ p'[3].op = p[2].op
                  /\ p'[3].id = p[2].id /\ p'[3].dat = p3_dat
  BY <1>2, <1>3, Held, OperandType DEF Ucode
<1>7. \A u \in Ucode : u.op \in Op
  BY DEF Ucode
<1>8. p[0] \in Ucode \cup {Empty} /\ p[3] \in Ucode \cup {Empty}
  BY DEF TypeOK
<1>9. /\ p'[0] \in Ucode \cup {Empty} /\ p'[1] \in Ucode \cup {Empty}
      /\ p'[2] \in Ucode \cup {Empty} /\ p'[3] \in Ucode \cup {Empty}
      /\ p'[4] \in Ucode \cup {Empty}
  BY <1>2, <1>3, <1>5, <1>6, <1>8
<1>10. p' \in [0 .. 4 -> Ucode \cup {Empty}]
  <2>1. \A s \in 0 .. 4 : f(s) \in Ucode \cup {Empty}
    <3>1. \A s \in 0 .. 4 : s = 0 \/ s = 1 \/ s = 2 \/ s = 3 \/ s = 4
      OBVIOUS
    <3>2. QED
      BY <1>3, <1>9, <3>1
  <2>2. QED
    BY <1>1, <2>1
<1>11. QED
  BY <1>2, <1>3, <1>4, <1>5, <1>6, <1>7, <1>10

LEMMA StagesHold ==
  ASSUME TypeOK, NEW cmd \in Ucode \cup {Empty}, PipelineStep(cmd)
  PROVE  /\ Holds(0)' <=> cmd # Empty
         /\ Holds(1)' <=> Holds(0)
         /\ Holds(2)' <=> Holds(1)
         /\ Holds(3)' <=> Holds(2)
         /\ Holds(4)' <=> Holds(3)
  BY Stages DEF Holds

-----------------------------------------------------------------------------
(* Types.                                                                  *)

LEMMA AnswerType ==
  ASSUME NEW q, q \in {<<>>} \cup {<<d>> : d \in CntrVals}
  PROVE  q \in Seq(CntrVals)
<1>1. \A d \in CntrVals : <<d>> \in Seq(CntrVals)
  OBVIOUS
<1>2. QED
  BY <1>1, EmptySeq

LEMMA TypesStep ==
  ASSUME Types, NEW cmd \in Ucode \cup {Empty}, Clock(cmd), ready' \subseteq CntrIds
  PROVE  Types'
<1>1. TypeOK /\ cntrs \in [CntrIds -> CntrVals] /\ expect \in [1 .. 3 -> Seq(CntrVals)]
  BY DEF Types
<1>2. TableStep(cmd) /\ EnginesStep(cmd) /\ PipelineStep(cmd) /\ Score(cmd)
  BY DEF Clock
<1>3. Empty.op \notin Op /\ Op = {"OP_INIT", "OP_INCR", "OP_DECR", "OP_QRY"}
  BY DEF Empty, Op
<1>4. cmd.op \in Op => cmd.id \in CntrIds /\ cmd.dat \in CntrVals
  BY <1>3 DEF Ucode
<1>5. Writes(cmd.op) \/ cmd.op = "OP_QRY" => cmd.op \in Op
  BY <1>3 DEF Writes
<1>6. s1_mem_r' \in [CntrIds -> CntrVals]
  BY <1>1, <1>2, <1>4, <1>5, ExecutedType DEF TableStep, TypeOK
<1>7. s1_out' \in {<<>>} \cup {<<d>> : d \in CntrVals}
  BY <1>1, <1>2, <1>4, <1>5 DEF TableStep, TypeOK
<1>8. s2_mem_r' \in [CntrIds -> CntrVals]
  <2>1. \A i \in CntrIds : s2_mem_en(i, cmd) => Executed(cmd.op, cmd.dat, s2_mem_r[i]) \in CntrVals
    BY <1>1, <1>4, <1>5, ExecutedType DEF s2_mem_en, TypeOK
  <2>2. QED
    BY <1>1, <1>2, <2>1 DEF EnginesStep, TypeOK
<1>9. s2_out' \in {<<>>} \cup {<<d>> : d \in CntrVals}
  BY <1>1, <1>2, <1>4, <1>5 DEF EnginesStep, TypeOK
<1>10. p' \in [0 .. 4 -> Ucode \cup {Empty}]
  BY <1>1, <1>2, Stages
<1>11. s3_sram_dout1' \in CntrVals
  BY <1>1, <1>2, Held DEF PipelineStep, TypeOK
<1>12. s3_sram' \in [CntrIds -> CntrVals]
  BY <1>1, <1>2, Held DEF PipelineStep, TypeOK, s3_wrbk
<1>13. s3_out' \in {<<>>} \cup {<<d>> : d \in CntrVals}
  BY <1>1, <1>2, Held DEF PipelineStep
<1>14. cntrs' \in [CntrIds -> CntrVals]
  BY <1>1, <1>2, <1>4, <1>5, ExecutedType DEF Score
<1>15. expect' \in [1 .. 3 -> Seq(CntrVals)]
  <2> DEFINE new == IF cmd.op = "OP_QRY" THEN <<cntrs[cmd.id]>> ELSE <<>>
             old(k) == IF outs[k] # <<>> /\ expect[k] # <<>> THEN Tail(expect[k]) ELSE expect[k]
  <2>1. new \in Seq(CntrVals)
    <3>1. new \in {<<>>} \cup {<<d>> : d \in CntrVals}
      BY <1>1, <1>4, <1>5
    <3>2. QED
      BY <3>1, AnswerType
  <2>2. \A k \in 1 .. 3 : old(k) \in Seq(CntrVals)
    BY <1>1, HeadTailProperties
  <2> HIDE DEF new, old
  <2>3. \A k \in 1 .. 3 : old(k) \o new \in Seq(CntrVals)
    BY <2>1, <2>2, ConcatProperties
  <2>4. expect' = [k \in 1 .. 3 |-> old(k) \o new]
    BY <1>2 DEF Score, old, new
  <2>5. QED
    BY <2>3, <2>4
<1>16. \A k \in 1 .. 3 : outs'[k] \in {<<>>} \cup {<<d>> : d \in CntrVals}
  <2>1. outs'[1] = s1_out' /\ outs'[2] = s2_out' /\ outs'[3] = s3_out'
    BY DEF outs
  <2>2. \A k \in 1 .. 3 : k = 1 \/ k = 2 \/ k = 3
    OBVIOUS
  <2>3. QED
    BY <1>7, <1>9, <1>13, <2>1, <2>2
<1>17. TypeOK'
  BY <1>6, <1>8, <1>10, <1>11, <1>12, <1>16 DEF TypeOK
<1>18. QED
  BY <1>14, <1>15, <1>17 DEF Types

\* The commands that are issued, and the counters initialised before and by them.
Issues(cmd) ==
  /\ cmd \in Ucode \cup {Empty}
  /\ \/ ready' = ready
     \/ cmd # Empty /\ cmd.op = "OP_INIT" /\ ready' = ready \cup {cmd.id}
  /\ ready' \subseteq CntrIds

LEMMA NextIssues ==
  ASSUME Types, Next
  PROVE  \E cmd \in Ucode \cup {Empty} : Issues(cmd) /\ Clock(cmd)
<1>1. CASE Initialise
  <2>1. PICK i \in CntrIds, d \in CntrVals :
          /\ Clock([op |-> "OP_INIT", id |-> i, dat |-> d])
          /\ ready' = ready \cup {i}
    BY <1>1 DEF Initialise
  <2> DEFINE cmd == [op |-> "OP_INIT", id |-> i, dat |-> d]
  <2>2. cmd \in Ucode /\ cmd.op = "OP_INIT" /\ cmd.id = i
    BY DEF Ucode, Op
  <2>3. cmd # Empty
    BY <2>2 DEF Empty
  <2>4. QED
    BY <2>1, <2>2, <2>3 DEF Issues, Types
<1>2. CASE Stimulate
  BY <1>2, StimulusAssumption DEF Stimulate, Issues, Types
<1>3. CASE Idle
  BY <1>3 DEF Idle, Issues, Types
<1>4. QED
  BY <1>1, <1>2, <1>3 DEF Next

LEMMA TypesInit == Init => Types
<1> SUFFICES ASSUME Init
             PROVE  Types
  OBVIOUS
<1>1. 0 \in CntrVals
  BY WidthAssumption DEF CntrVals
<1>2. \A k \in 1 .. 3 : outs[k] = <<>>
  <2>1. outs[1] = <<>> /\ outs[2] = <<>> /\ outs[3] = <<>>
    BY DEF Init, outs
  <2>2. \A k \in 1 .. 3 : k = 1 \/ k = 2 \/ k = 3
    OBVIOUS
  <2>3. QED
    BY <2>1, <2>2
<1>3. expect \in [1 .. 3 -> Seq(CntrVals)]
  BY EmptySeq DEF Init
<1>4. QED
  BY <1>1, <1>2, <1>3 DEF Init, Types, TypeOK

LEMMA TypesNext == Types /\ [Next]_vars => Types'
<1>1. ASSUME Types, Next
      PROVE  Types'
  <2>1. PICK cmd \in Ucode \cup {Empty} : Issues(cmd) /\ Clock(cmd)
    BY <1>1, NextIssues
  <2>2. QED
    BY <1>1, <2>1, TypesStep DEF Issues
<1>2. ASSUME Types, UNCHANGED vars
      PROVE  Types'
  BY <1>2 DEF vars, Types, TypeOK, outs
<1>3. QED
  BY <1>1, <1>2

\* In every state each register holds a value of its width, and each stage a
\* command or nothing, whatever is issued.
THEOREM TypeCorrect == Spec => []TypeOK
<1>1. Types => TypeOK
  BY DEF Types
<1>2. QED
  BY <1>1, TypesInit, TypesNext, PTL DEF Spec

-----------------------------------------------------------------------------
(* What an edge does to the values that the stages stand for.              *)

\* What the stages carry is what the invariant says of them.
Pipeline == Types /\ OnceInv /\ WrittenInv /\ ReadInv /\ OperandInv

\* The data of an OP_INIT in front of nothing of its counter reaches p3 as it is.
LEMMA InitKept ==
  ASSUME Pipeline
  PROVE  /\ Holds(1) /\ p[1].op = "OP_INIT" => p2_dat_nxt = p[1].dat
         /\ Holds(2) /\ p[2].op = "OP_INIT" => p2_dat = p[2].dat
<1>1. \A s \in 0 .. 4, t \in 0 .. 4 :
        s < t /\ Holds(s) /\ Holds(t) /\ p[s].op = "OP_INIT" => p[s].id # p[t].id
  BY DEF Pipeline, OnceInv
<1>2. Holds(1) /\ p[1].op = "OP_INIT" => ~fwd(2, 1) /\ ~fwd(3, 1) /\ ~fwd(4, 1)
  BY <1>1 DEF fwd
<1>3. Holds(2) /\ p[2].op = "OP_INIT" => ~fwd(3, 2) /\ ~fwd(4, 2)
  BY <1>1 DEF fwd
<1>4. QED
  BY <1>2, <1>3 DEF p2_dat_nxt, p2_dat

\* The SRAM after an edge.
LEMMA WriteBack ==
  ASSUME Pipeline, NEW cmd \in Ucode \cup {Empty}, PipelineStep(cmd), NEW i \in CntrIds
  PROVE  s3_sram'[i] = Written(i)
<1>1. TypeOK /\ s3_sram \in [CntrIds -> CntrVals]
  BY DEF Pipeline, Types, TypeOK
<1>2. s3_sram' = IF s3_wrbk THEN [s3_sram EXCEPT ![p[3].id] = p[3].dat] ELSE s3_sram
  BY DEF PipelineStep
<1>3. Holds(3) => p[3].op \in Op
  BY <1>1, Held
<1>4. Holds(3) /\ p[3].op = "OP_QRY" => p[3].dat = s3_sram[p[3].id]
  BY DEF Pipeline, WrittenInv
<1>5. Holds(3) /\ p[3].op # "OP_QRY" => s3_wrbk
  BY <1>3 DEF Op, Writes, s3_wrbk
<1>6. s3_wrbk => Holds(3)
  BY DEF s3_wrbk
<1>7. CASE s3_wrbk
  BY <1>1, <1>2, <1>6, <1>7 DEF Written
<1>8. CASE ~s3_wrbk
  BY <1>2, <1>4, <1>5, <1>8 DEF Written
<1>9. QED
  BY <1>7, <1>8

\* Each value moves up by a stage.
LEMMA ExecutedIgnores ==
  ASSUME NEW op, op # "OP_INIT", NEW a, NEW b, NEW d
  PROVE  Executed(op, a, d) = Executed(op, b, d)
  BY DEF Executed

LEMMA WrittenMoves ==
  ASSUME Pipeline, NEW cmd \in Ucode \cup {Empty}, PipelineStep(cmd), NEW i \in CntrIds
  PROVE  Written(i)' = After2(i)
<1>1. TypeOK
  BY DEF Pipeline, Types
<1>2. s3_sram'[i] = Written(i)
  BY WriteBack
<1>3. /\ Holds(2) => p'[3].id = p[2].id /\ p'[3].dat = p3_dat
      /\ Holds(3)' <=> Holds(2)
  BY <1>1, Stages, StagesHold
<1>4. CASE Holds(2) /\ p[2].id = i
  <2>1. p3_dat = Executed(p[2].op, p2_dat, p2_dat)
    BY DEF p3_dat
  <2>2. Executed(p[2].op, p2_dat, p2_dat) = Executed(p[2].op, p[2].dat, Written(i))
    <3>1. CASE p[2].op = "OP_INIT"
      BY <1>4, <3>1, InitKept DEF Executed
    <3>2. CASE p[2].op # "OP_INIT"
      <4>1. p2_dat = Written(i)
        BY <1>4, <3>2 DEF Pipeline, OperandInv
      <4>2. QED
        BY <3>2, <4>1, ExecutedIgnores
    <3>3. QED
      BY <3>1, <3>2
  <2>3. QED
    BY <1>3, <1>4, <2>1, <2>2 DEF Written, After2, Done
<1>5. CASE ~(Holds(2) /\ p[2].id = i)
  BY <1>2, <1>3, <1>5 DEF Written, After2, Done
<1>6. QED
  BY <1>4, <1>5

LEMMA After2Moves ==
  ASSUME Pipeline, NEW cmd \in Ucode \cup {Empty}, PipelineStep(cmd), NEW i \in CntrIds
  PROVE  After2(i)' = After1(i)
<1>1. TypeOK
  BY DEF Pipeline, Types
<1>2. Written(i)' = After2(i)
  BY WrittenMoves
<1>3. /\ Holds(1) => p'[2].op = p[1].op /\ p'[2].id = p[1].id /\ p'[2].dat = p2_dat_nxt
      /\ Holds(2)' <=> Holds(1)
  BY <1>1, Stages, StagesHold
<1>4. Holds(1) => Executed(p[1].op, p2_dat_nxt, After2(i)) = Executed(p[1].op, p[1].dat, After2(i))
  <2>1. Holds(1) /\ p[1].op = "OP_INIT" => p2_dat_nxt = p[1].dat
    BY InitKept
  <2>2. QED
    BY <2>1, ExecutedIgnores
<1>5. After2(i)' = IF Holds(2)' /\ p'[2].id = i
                   THEN Executed(p'[2].op, p'[2].dat, Written(i)') ELSE Written(i)'
  BY DEF After2, Done, Executed
<1>6. QED
  BY <1>2, <1>3, <1>4, <1>5 DEF After1, Done

LEMMA After1Moves ==
  ASSUME Pipeline, NEW cmd \in Ucode \cup {Empty}, PipelineStep(cmd), NEW i \in CntrIds
  PROVE  After1(i)' = After0(i)
<1>1. TypeOK
  BY DEF Pipeline, Types
<1>2. After2(i)' = After1(i)
  BY After2Moves
<1>3. p'[1] = p[0] /\ (Holds(1)' <=> Holds(0))
  BY <1>1, Stages, StagesHold
<1>4. After1(i)' = IF Holds(1)' /\ p'[1].id = i
                   THEN Executed(p'[1].op, p'[1].dat, After2(i)') ELSE After2(i)'
  BY DEF After1, Done, Executed
<1>5. QED
  BY <1>2, <1>3, <1>4 DEF After0, Done

-----------------------------------------------------------------------------
(* A step of the testbench that initialises each counter once.             *)

\* A counter is initialised before any other command of it is issued.
IssuesOnce(cmd) ==
  /\ cmd \in Ucode \cup {Empty}
  /\ cmd = Empty => ready' = ready
  /\ cmd # Empty => /\ cmd.op = "OP_INIT" <=> cmd.id \notin ready
                    /\ ready' = ready \cup {cmd.id}

LEMMA NextIssuesOnce ==
  ASSUME InitialisedOnce, Types, Next
  PROVE  \E cmd \in Ucode \cup {Empty} : IssuesOnce(cmd) /\ Clock(cmd)
<1>1. CASE Initialise
  <2>1. PICK i \in CntrIds, d \in CntrVals :
          /\ i \notin ready
          /\ Clock([op |-> "OP_INIT", id |-> i, dat |-> d])
          /\ ready' = ready \cup {i}
    BY <1>1 DEF Initialise, InitialisedOnce
  <2> DEFINE cmd == [op |-> "OP_INIT", id |-> i, dat |-> d]
  <2>2. cmd \in Ucode /\ cmd.op = "OP_INIT" /\ cmd.id = i
    BY DEF Ucode, Op
  <2>3. cmd # Empty
    BY <2>2 DEF Empty
  <2>4. QED
    BY <2>1, <2>2, <2>3 DEF IssuesOnce
<1>2. CASE Stimulate
  <2>1. PICK cmd \in Stimulus : ready = CntrIds /\ Clock(cmd) /\ ready' = ready
    BY <1>2 DEF Stimulate
  <2>2. cmd \in Ucode /\ cmd.id \in CntrIds /\ cmd.op # "OP_INIT"
    BY StimulusAssumption DEF Ucode, InitialisedOnce
  <2>3. ready' = ready \cup {cmd.id}
    BY <2>1, <2>2
  <2>4. cmd # Empty => (cmd.op = "OP_INIT" <=> cmd.id \notin ready)
    BY <2>1, <2>2
  <2>5. cmd # Empty
    BY <2>2 DEF Ucode, Empty, Op
  <2>6. IssuesOnce(cmd)
    BY <2>2, <2>3, <2>4, <2>5 DEF IssuesOnce
  <2>7. QED
    BY <2>1, <2>2, <2>6
<1>3. CASE Idle
  BY <1>3 DEF Idle, IssuesOnce
<1>4. QED
  BY <1>1, <1>2, <1>3 DEF Next

LEMMA OnceStep ==
  ASSUME TypeOK, OnceInv, NEW cmd \in Ucode \cup {Empty}, IssuesOnce(cmd), PipelineStep(cmd)
  PROVE  OnceInv'
<1>1. /\ p'[0] = cmd /\ p'[1] = p[0] /\ p'[4] = p[3]
      /\ Holds(1) => p'[2].op = p[1].op /\ p'[2].id = p[1].id
      /\ Holds(2) => p'[3].op = p[2].op /\ p'[3].id = p[2].id
  BY Stages
<1>2. /\ Holds(0)' <=> cmd # Empty
      /\ Holds(1)' <=> Holds(0)
      /\ Holds(2)' <=> Holds(1)
      /\ Holds(3)' <=> Holds(2)
      /\ Holds(4)' <=> Holds(3)
  BY StagesHold
<1>3. ready \subseteq ready' /\ (cmd # Empty => cmd.id \in ready')
  BY DEF IssuesOnce
<1>4. \A s \in 1 .. 4 : Holds(s)' => Holds(s - 1) /\ p'[s].op = p[s - 1].op /\ p'[s].id = p[s - 1].id
  BY <1>1, <1>2
<1>5. ASSUME NEW s \in 0 .. 4, Holds(s)'
      PROVE  p'[s].id \in ready'
  <2>1. CASE s = 0
    BY <1>1, <1>2, <1>3, <1>5, <2>1
  <2>2. CASE s # 0
    <3>1. s \in 1 .. 4 /\ s - 1 \in 0 .. 4
      BY <2>2
    <3>2. p[s - 1].id \in ready
      BY <1>4, <1>5, <3>1 DEF OnceInv
    <3>3. QED
      BY <1>3, <1>4, <1>5, <3>1, <3>2
  <2>3. QED
    BY <2>1, <2>2
<1>6. ASSUME NEW s \in 0 .. 4, NEW t \in 0 .. 4, s < t, Holds(s)', Holds(t)', p'[s].op = "OP_INIT"
      PROVE  p'[s].id # p'[t].id
  <2>1. t \in 1 .. 4 /\ t - 1 \in 0 .. 4
    BY <1>6
  <2>2. Holds(t - 1) /\ p'[t].id = p[t - 1].id
    BY <1>4, <1>6, <2>1
  <2>3. CASE s = 0
    <3>1. cmd # Empty /\ cmd.id \notin ready
      BY <1>1, <1>2, <1>6, <2>3 DEF IssuesOnce
    <3>2. p[t - 1].id \in ready
      BY <2>1, <2>2 DEF OnceInv
    <3>3. QED
      BY <1>1, <2>2, <2>3, <3>1, <3>2
  <2>4. CASE s # 0
    <3>1. s \in 1 .. 4 /\ s - 1 \in 0 .. 4 /\ s - 1 < t - 1
      BY <1>6, <2>4
    <3>2. Holds(s - 1) /\ p'[s].id = p[s - 1].id /\ p'[s].op = p[s - 1].op
      BY <1>4, <1>6, <3>1
    <3>3. p[s - 1].id # p[t - 1].id
      BY <1>6, <2>1, <2>2, <3>1, <3>2 DEF OnceInv
    <3>4. QED
      BY <2>2, <3>2, <3>3
  <2>5. QED
    BY <2>3, <2>4
<1>7. QED
  BY <1>5, <1>6 DEF OnceInv, Holds

LEMMA WrittenStep ==
  ASSUME Pipeline, NEW cmd \in Ucode \cup {Empty}, PipelineStep(cmd)
  PROVE  WrittenInv'
<1>1. TypeOK
  BY DEF Pipeline, Types
<1>2. /\ p'[4] = p[3]
      /\ Holds(2) => p'[3].op = p[2].op /\ p'[3].id = p[2].id /\ p'[3].dat = p3_dat
  BY <1>1, Stages
<1>3. (Holds(3)' <=> Holds(2)) /\ (Holds(4)' <=> Holds(3))
  BY <1>1, StagesHold
<1>4. ASSUME Holds(2), p[2].op = "OP_QRY"
      PROVE  p3_dat = s3_sram'[p[2].id]
  <2>1. p3_dat = p2_dat
    BY <1>4 DEF p3_dat, Executed
  <2>2. p2_dat = Written(p[2].id)
    BY <1>4 DEF Pipeline, OperandInv
  <2>3. p[2].id \in CntrIds
    BY <1>1, <1>4, Held
  <2>4. s3_sram'[p[2].id] = Written(p[2].id)
    BY <2>3, WriteBack
  <2>5. QED
    BY <2>1, <2>2, <2>4
<1>5. ASSUME Holds(3)
      PROVE  p[3].dat = s3_sram'[p[3].id]
  <2>1. p[3].id \in CntrIds
    BY <1>1, <1>5, Held
  <2>2. s3_sram'[p[3].id] = Written(p[3].id)
    BY <2>1, WriteBack
  <2>3. QED
    BY <1>5, <2>2 DEF Written
<1>6. Holds(3)' /\ p'[3].op = "OP_QRY" => p'[3].dat = s3_sram'[p'[3].id]
  BY <1>2, <1>3, <1>4
<1>7. Holds(4)' => p'[4].dat = s3_sram'[p'[4].id]
  BY <1>2, <1>3, <1>5
<1>8. QED
  BY <1>6, <1>7 DEF WrittenInv

LEMMA ReadStep ==
  ASSUME Pipeline, NEW cmd \in Ucode \cup {Empty}, PipelineStep(cmd)
  PROVE  ReadInv'
<1>1. TypeOK
  BY DEF Pipeline, Types
<1>2. /\ p'[1] = p[0] /\ p'[4] = p[3]
      /\ Holds(1) => p'[2].id = p[1].id
      /\ Holds(2) => p'[3].id = p[2].id
  BY <1>1, Stages
<1>3. /\ Holds(1)' <=> Holds(0)
      /\ Holds(2)' <=> Holds(1)
      /\ Holds(3)' <=> Holds(2)
      /\ Holds(4)' <=> Holds(3)
  BY <1>1, StagesHold
<1>4. ASSUME Holds(0), ~(Holds(3) /\ p[3].id = p[0].id)
      PROVE  s3_sram_dout1' = s3_sram'[p[0].id]
  <2>1. p[0].id \in CntrIds
    BY <1>1, <1>4, Held
  <2>2. s3_sram'[p[0].id] = Written(p[0].id)
    BY <2>1, WriteBack
  <2>3. ~s0_collision
    BY <1>4 DEF s0_collision, s3_wrbk
  <2>4. s3_sram_dout1' = s3_sram[p[0].id]
    BY <1>4, <2>3 DEF PipelineStep
  <2>5. QED
    BY <1>4, <2>2, <2>4 DEF Written
<1>5. (\A s \in 2 .. 4 : Holds(s)' => p'[s].id # p'[1].id) => ~(Holds(3) /\ p[3].id = p[0].id)
  BY <1>2, <1>3
<1>6. Holds(1)' /\ (\A s \in 2 .. 4 : Holds(s)' => p'[s].id # p'[1].id) =>
        s3_sram_dout1' = s3_sram'[p'[1].id]
  BY <1>2, <1>3, <1>4, <1>5
<1>7. QED
  BY <1>6 DEF ReadInv, Holds

\* p2_dat_nxt with the forwarding that p2_dat does of it: from p2, from p3, from
\* p4, or from the SRAM.
LEMMA OperandStep ==
  ASSUME Pipeline, NEW cmd \in Ucode \cup {Empty}, PipelineStep(cmd)
  PROVE  OperandInv'
<1>1. TypeOK
  BY DEF Pipeline, Types
<1>2. /\ p'[4] = p[3]
      /\ Holds(1) => p'[2].op = p[1].op /\ p'[2].id = p[1].id /\ p'[2].dat = p2_dat_nxt
      /\ Holds(2) => p'[3].id = p[2].id /\ p'[3].dat = p3_dat
  BY <1>1, Stages
<1>3. /\ Holds(2)' <=> Holds(1)
      /\ Holds(3)' <=> Holds(2)
      /\ Holds(4)' <=> Holds(3)
  BY <1>1, StagesHold
<1>4. p2_dat' = IF fwd(3, 2)' THEN p'[3].dat ELSE IF fwd(4, 2)' THEN p'[4].dat ELSE p'[2].dat
  BY DEF p2_dat, fwd
<1>5. ASSUME Holds(1), p[1].op # "OP_INIT", ~fwd(2, 1)
      PROVE  p2_dat' = s3_sram'[p[1].id]
  <2>1. p[1].id \in CntrIds
    BY <1>1, <1>5, Held
  <2>2. s3_sram'[p[1].id] = Written(p[1].id)
    BY <2>1, WriteBack
  <2>3. ~fwd(3, 2)'
    BY <1>2, <1>3, <1>5 DEF fwd, Holds
  <2>4. fwd(4, 2)' <=> fwd(3, 1)
    BY <1>2, <1>3, <1>5 DEF fwd, Holds
  <2>5. CASE fwd(3, 1)
    BY <1>2, <1>4, <2>2, <2>3, <2>4, <2>5 DEF fwd, Written
  <2>6. CASE ~fwd(3, 1) /\ fwd(4, 1)
    <3>1. p2_dat_nxt = p[4].dat
      BY <1>5, <2>6 DEF p2_dat_nxt
    <3>2. p[4].dat = s3_sram[p[1].id]
      BY <2>6 DEF fwd, Pipeline, WrittenInv
    <3>3. QED
      BY <1>2, <1>4, <1>5, <2>2, <2>3, <2>4, <2>6, <3>1, <3>2 DEF fwd, Written
  <2>7. CASE ~fwd(3, 1) /\ ~fwd(4, 1)
    <3>1. p2_dat_nxt = s3_sram_dout1
      BY <1>5, <2>7 DEF p2_dat_nxt
    <3>2. \A s \in 2 .. 4 : Holds(s) => p[s].id # p[1].id
      <4>1. \A s \in 2 .. 4 : s = 2 \/ s = 3 \/ s = 4
        OBVIOUS
      <4>2. QED
        BY <1>5, <2>7, <4>1 DEF fwd
    <3>3. s3_sram_dout1 = s3_sram[p[1].id]
      BY <1>5, <3>2 DEF Pipeline, ReadInv
    <3>4. QED
      BY <1>2, <1>4, <1>5, <2>2, <2>3, <2>4, <2>7, <3>1, <3>3 DEF fwd, Written
  <2>8. QED
    BY <2>5, <2>6, <2>7
<1>6. ASSUME Holds(1), p[1].op # "OP_INIT"
      PROVE  p2_dat' = IF Holds(3)' /\ p'[3].id = p'[2].id THEN p'[3].dat ELSE s3_sram'[p'[2].id]
  <2>1. CASE fwd(2, 1)
    <3>1. fwd(3, 2)' /\ Holds(3)' /\ p'[3].id = p'[2].id
      BY <1>2, <1>3, <1>6, <2>1 DEF fwd, Holds
    <3>2. QED
      BY <1>4, <3>1
  <2>2. CASE ~fwd(2, 1)
    <3>1. ~(Holds(3)' /\ p'[3].id = p'[2].id)
      BY <1>2, <1>3, <1>6, <2>2 DEF fwd
    <3>2. p2_dat' = s3_sram'[p[1].id]
      BY <1>5, <1>6, <2>2
    <3>3. QED
      BY <1>2, <1>6, <3>1, <3>2
  <2>3. QED
    BY <2>1, <2>2
<1>7. Holds(2)' /\ p'[2].op # "OP_INIT" => Holds(1) /\ p[1].op # "OP_INIT"
  BY <1>2, <1>3
<1>8. QED
  BY <1>6, <1>7 DEF OperandInv, Written, Holds

-----------------------------------------------------------------------------
(* The testbench's model, and its answers.                                 *)

\* Both tables do to a counter what the model does to it.
LEMMA TablesStep ==
  ASSUME Types, TablesInv, NEW cmd \in Ucode \cup {Empty}, Clock(cmd)
  PROVE  TablesInv'
<1>1. /\ cntrs \in [CntrIds -> CntrVals] /\ s1_mem_r = cntrs /\ s2_mem_r = cntrs
      /\ expect[1] = s1_out /\ expect[2] = s2_out /\ TypeOK
  BY DEF Types, TablesInv
<1>2. TableStep(cmd) /\ EnginesStep(cmd) /\ Score(cmd)
  BY DEF Clock
<1>3. s1_mem_r' = cntrs'
  BY <1>1, <1>2 DEF TableStep, Score
<1>4. s2_mem_r' = cntrs'
  <2> DEFINE e(i) == Executed(cmd.op, cmd.dat, cntrs[i])
  <2>1. cntrs' = [i \in CntrIds |-> IF Writes(cmd.op) /\ cmd.id = i THEN e(i) ELSE cntrs[i]]
    BY <1>1, <1>2 DEF Score
  <2>2. s2_mem_r' = [i \in CntrIds |-> IF Writes(cmd.op) /\ cmd.id = i THEN e(i) ELSE cntrs[i]]
    BY <1>1, <1>2 DEF EnginesStep, s2_mem_en
  <2>3. QED
    BY <2>1, <2>2
<1> DEFINE new == IF cmd.op = "OP_QRY" THEN <<cntrs[cmd.id]>> ELSE <<>>
           popped(q, e) == IF q # <<>> /\ e # <<>> THEN Tail(e) ELSE e
<1>5. \A k \in 1 .. 3 : expect'[k] = popped(outs[k], expect[k]) \o new
  BY <1>2 DEF Score
<1>6. new \in Seq(CntrVals)
  <2>1. cmd.op = "OP_QRY" => cmd.id \in CntrIds
    BY DEF Ucode, Empty
  <2>2. new \in {<<>>} \cup {<<d>> : d \in CntrVals}
    BY <1>1, <2>1
  <2>3. QED
    BY <2>2, AnswerType
<1>7. ASSUME NEW q, q \in {<<>>} \cup {<<d>> : d \in CntrVals}
      PROVE  popped(q, q) = <<>>
  <2>1. \A d : <<d>> # <<>> /\ Tail(<<d>>) = <<>>
    OBVIOUS
  <2>2. QED
    BY <1>7, <2>1
<1>8. s1_out' = new /\ s2_out' = new
  BY <1>1, <1>2 DEF TableStep, EnginesStep
<1> HIDE DEF new, popped
<1>9. outs[1] = s1_out /\ outs[2] = s2_out
  BY DEF outs
<1>10. popped(s1_out, s1_out) = <<>> /\ popped(s2_out, s2_out) = <<>>
  BY <1>1, <1>7, <1>9 DEF TypeOK
<1>11. <<>> \o new = new
  BY <1>6, ConcatEmptySeq
<1>12. expect'[1] = s1_out' /\ expect'[2] = s2_out'
  <2>1. /\ expect'[1] = popped(outs[1], expect[1]) \o new
        /\ expect'[2] = popped(outs[2], expect[2]) \o new
    BY <1>5
  <2>2. popped(outs[1], expect[1]) = <<>> /\ popped(outs[2], expect[2]) = <<>>
    BY <1>1, <1>9, <1>10
  <2>3. expect'[1] = new /\ expect'[2] = new
    BY <1>11, <2>1, <2>2
  <2>4. QED
    BY <1>8, <2>3
<1>13. QED
  BY <1>3, <1>4, <1>12 DEF TablesInv

\* The model executes a command at once, and solution 3 in the end.
LEMMA ModelStep ==
  ASSUME Pipeline, ModelInv, NEW cmd \in Ucode \cup {Empty}, IssuesOnce(cmd), Clock(cmd)
  PROVE  ModelInv'
<1>1. TypeOK /\ cntrs \in [CntrIds -> CntrVals] /\ ready \subseteq CntrIds
  BY DEF Pipeline, Types
<1>2. PipelineStep(cmd) /\ Score(cmd)
  BY DEF Clock
<1>3. p'[0] = cmd /\ (Holds(0)' <=> cmd # Empty)
  BY <1>1, <1>2, Stages, StagesHold
<1>4. cmd # Empty => cmd.op \in Op /\ cmd.id \in CntrIds
  BY DEF Ucode
<1>5. ASSUME NEW i \in ready'
      PROVE  After0(i)' = cntrs'[i]
  <2>1. i \in CntrIds /\ (i \in ready \/ (cmd # Empty /\ cmd.id = i /\ cmd.op = "OP_INIT"))
    BY <1>1, <1>4, <1>5 DEF IssuesOnce
  <2>2. After1(i)' = After0(i)
    BY <1>2, <2>1, After1Moves
  <2>3. After0(i)' = IF Holds(0)' /\ p'[0].id = i
                     THEN Executed(p'[0].op, p'[0].dat, After1(i)') ELSE After1(i)'
    BY DEF After0, Done, Executed
  <2>4. i \in ready => After0(i) = cntrs[i]
    BY DEF ModelInv
  <2>5. CASE cmd # Empty /\ cmd.id = i
    <3>1. After0(i)' = Executed(cmd.op, cmd.dat, After0(i))
      BY <1>3, <2>2, <2>3, <2>5
    <3>2. Executed(cmd.op, cmd.dat, After0(i)) = Executed(cmd.op, cmd.dat, cntrs[i])
      <4>1. CASE i \in ready
        BY <2>4, <4>1
      <4>2. CASE i \notin ready
        BY <2>1, <4>2 DEF Executed
      <4>3. QED
        BY <4>1, <4>2
    <3>3. CASE Writes(cmd.op)
      BY <1>1, <1>2, <2>1, <2>5, <3>1, <3>2, <3>3 DEF Score
    <3>4. CASE ~Writes(cmd.op)
      <4>1. cmd.op = "OP_QRY"
        BY <1>4, <2>5, <3>4 DEF Writes, Op
      <4>2. Executed(cmd.op, cmd.dat, cntrs[i]) = cntrs[i]
        BY <4>1 DEF Executed
      <4>3. cntrs' = cntrs
        BY <1>2, <3>4 DEF Score
      <4>4. QED
        BY <3>1, <3>2, <4>2, <4>3
    <3>5. QED
      BY <3>3, <3>4
  <2>6. CASE ~(cmd # Empty /\ cmd.id = i)
    <3>1. After0(i)' = cntrs[i]
      BY <1>3, <2>1, <2>2, <2>3, <2>4, <2>6
    <3>2. CASE Writes(cmd.op)
      <4>1. cmd # Empty
        BY <3>2 DEF Writes, Empty
      <4>2. cmd.id # i
        BY <2>6, <4>1
      <4>3. QED
        BY <1>1, <1>2, <2>1, <3>1, <3>2, <4>2 DEF Score
    <3>3. CASE ~Writes(cmd.op)
      BY <1>2, <3>1, <3>3 DEF Score
    <3>4. QED
      BY <3>2, <3>3
  <2>7. QED
    BY <2>5, <2>6
<1>6. QED
  BY <1>5 DEF ModelInv

-----------------------------------------------------------------------------
(* The answers of solution 3.                                              *)

LEMMA ValuesType ==
  ASSUME TypeOK, NEW i \in CntrIds
  PROVE  Written(i) \in CntrVals /\ After2(i) \in CntrVals /\ After1(i) \in CntrVals
<1>1. s3_sram \in [CntrIds -> CntrVals]
  BY DEF TypeOK
<1>2. Written(i) \in CntrVals
  BY <1>1, Held DEF Written
<1>3. After2(i) \in CntrVals
  BY <1>2, Held, ExecutedType DEF After2, Done
<1>4. After1(i) \in CntrVals
  BY <1>3, Held, ExecutedType DEF After1, Done
<1>5. QED
  BY <1>2, <1>3, <1>4

LEMMA Headed ==
  ASSUME NEW S, NEW d \in S, NEW r \in Seq(S)
  PROVE  /\ <<d>> \o r \in Seq(S) /\ Len(<<d>> \o r) = 1 + Len(r)
         /\ <<d>> \o r # <<>> /\ Head(<<d>> \o r) = d /\ Tail(<<d>> \o r) = r
<1> DEFINE w == <<d>> \o r
<1>1. <<d>> \in Seq(S) /\ Len(<<d>>) = 1 /\ <<d>>[1] = d
  OBVIOUS
<1>2. w \in Seq(S) /\ Len(w) = 1 + Len(r) /\ Len(r) \in Nat
  BY <1>1, ConcatProperties, LenProperties
<1>3. \A i \in 1 .. 1 + Len(r) : w[i] = IF i <= 1 THEN <<d>>[i] ELSE r[i - 1]
  BY <1>1, ConcatProperties
<1> HIDE DEF w
<1>4. w # <<>>
  BY <1>2, EmptySeq
<1>5. Tail(w) \in Seq(S) /\ Len(Tail(w)) = Len(r) /\ \A i \in 1 .. Len(r) : Tail(w)[i] = w[i + 1]
  BY <1>2, <1>4
<1>6. \A i \in 1 .. Len(r) : Tail(w)[i] = r[i]
  <2>1. \A i \in 1 .. Len(r) : i + 1 \in 1 .. 1 + Len(r) /\ ~(i + 1 <= 1) /\ (i + 1) - 1 = i
    BY <1>2
  <2>2. QED
    BY <1>3, <1>5, <2>1
<1>7. Tail(w) = r
  BY <1>5, <1>6, SeqEqual
<1>8. Head(w) = d
  BY <1>1, <1>2, <1>3, <1>4
<1>9. QED
  BY <1>2, <1>4, <1>7, <1>8 DEF w

\* The answers in the stages.
LEMMA AnswersType ==
  ASSUME TypeOK
  PROVE  /\ Answer(3, p[3].dat) \in Seq(CntrVals)
         /\ Answer(2, Written(p[2].id)) \in Seq(CntrVals)
         /\ Answer(1, After2(p[1].id)) \in Seq(CntrVals)
         /\ Answer(0, After1(p[0].id)) \in Seq(CntrVals)
<1>1. \A s \in 0 .. 4 : p[s].op = "OP_QRY" => Holds(s)
  BY DEF Holds, Empty
<1>2. ASSUME NEW s \in 0 .. 4, NEW d, Holds(s) => d \in CntrVals
      PROVE  Answer(s, d) \in Seq(CntrVals)
  <2>1. Answer(s, d) \in {<<>>} \cup {<<e>> : e \in CntrVals}
    BY <1>1, <1>2 DEF Answer
  <2>2. QED
    BY <2>1, AnswerType
<1>3. Holds(3) => p[3].dat \in CntrVals
  BY Held
<1>4. Holds(2) => Written(p[2].id) \in CntrVals
  BY Held, ValuesType
<1>5. Holds(1) => After2(p[1].id) \in CntrVals
  BY Held, ValuesType
<1>6. Holds(0) => After1(p[0].id) \in CntrVals
  BY Held, ValuesType
<1>7. 0 \in 0 .. 4 /\ 1 \in 0 .. 4 /\ 2 \in 0 .. 4 /\ 3 \in 0 .. 4
  OBVIOUS
<1>8. QED
  BY <1>2, <1>3, <1>4, <1>5, <1>6, <1>7

LEMMA AnswersStep ==
  ASSUME Pipeline, ModelInv, AnswersInv,
         NEW cmd \in Ucode \cup {Empty}, IssuesOnce(cmd), Clock(cmd)
  PROVE  AnswersInv'
<1>1. TypeOK /\ cntrs \in [CntrIds -> CntrVals] /\ expect \in [1 .. 3 -> Seq(CntrVals)]
  BY DEF Pipeline, Types
<1>2. PipelineStep(cmd) /\ Score(cmd)
  BY DEF Clock
<1> DEFINE a3 == Answer(3, p[3].dat)
           a2 == Answer(2, Written(p[2].id))
           a1 == Answer(1, After2(p[1].id))
           a0 == Answer(0, After1(p[0].id))
           new == IF cmd.op = "OP_QRY" THEN <<cntrs[cmd.id]>> ELSE <<>>
           later == a2 \o (a1 \o a0)
<1>3. /\ a3 \in Seq(CntrVals) /\ a2 \in Seq(CntrVals) /\ a1 \in Seq(CntrVals)
      /\ a0 \in Seq(CntrVals)
  BY <1>1, AnswersType
<1>4. cmd.op = "OP_QRY" => cmd # Empty /\ cmd.id \in CntrIds
  BY DEF Ucode, Empty
<1>5. new \in Seq(CntrVals)
  <2>1. new \in {<<>>} \cup {<<d>> : d \in CntrVals}
    BY <1>1, <1>4
  <2>2. QED
    BY <2>1, AnswerType
<1>6. expect[3] = s3_out \o (a3 \o later)
  BY DEF AnswersInv
<1>7. expect'[3] = (IF s3_out # <<>> /\ expect[3] # <<>> THEN Tail(expect[3]) ELSE expect[3]) \o new
  <2>1. expect' = [k \in 1 .. 3 |->
         (IF outs[k] # <<>> /\ expect[k] # <<>> THEN Tail(expect[k]) ELSE expect[k]) \o new]
    BY <1>2, Zenon DEF Score
  <2>2. outs[3] = s3_out
    BY DEF outs
  <2>3. 3 \in 1 .. 3
    OBVIOUS
  <2> HIDE DEF new
  <2>4. QED
    BY <2>1, <2>2, <2>3, Zenon
\* What is in the stages moves up.
<1>8. /\ p'[0] = cmd /\ p'[1] = p[0]
      /\ Holds(1) => p'[2].op = p[1].op /\ p'[2].id = p[1].id
      /\ ~Holds(1) => p'[2] = Empty
      /\ Holds(2) => p'[3].op = p[2].op /\ p'[3].dat = p3_dat
      /\ ~Holds(2) => p'[3] = Empty
  BY <1>1, <1>2, Stages
<1>9. \A s \in 0 .. 4 : p[s].op = "OP_QRY" => Holds(s) /\ p[s].id \in CntrIds
  BY <1>1, Held DEF Op
<1>10. Empty.op # "OP_QRY"
  BY DEF Empty
<1>11. Answer(3, p[3].dat)' = a2
  <2>1. p'[3].op = "OP_QRY" <=> p[2].op = "OP_QRY"
    BY <1>8, <1>9, <1>10
  <2>2. p[2].op = "OP_QRY" => p'[3].dat = Written(p[2].id)
    <3>1. p[2].op = "OP_QRY" => Holds(2) /\ p3_dat = p2_dat
      BY <1>9 DEF p3_dat, Executed
    <3>2. p[2].op = "OP_QRY" => p2_dat = Written(p[2].id)
      BY <3>1 DEF Pipeline, OperandInv
    <3>3. QED
      BY <1>8, <3>1, <3>2
  <2>3. Answer(3, p[3].dat)' = IF p'[3].op = "OP_QRY" THEN <<p'[3].dat>> ELSE <<>>
    BY DEF Answer
  <2>4. QED
    BY <2>1, <2>2, <2>3 DEF Answer
<1>12. Answer(2, Written(p[2].id))' = a1
  <2>1. p'[2].op = "OP_QRY" <=> p[1].op = "OP_QRY"
    BY <1>8, <1>9, <1>10
  <2>2. ASSUME p[1].op = "OP_QRY"
        PROVE  Written(p[2].id)' = After2(p[1].id)
    <3>1. PICK i \in CntrIds : i = p[1].id
      BY <1>9, <2>2
    <3>2. Written(i)' = After2(i)
      BY <1>2, WrittenMoves
    <3>3. p'[2].id = i
      BY <1>8, <1>9, <2>2, <3>1
    <3>4. QED
      BY <3>1, <3>2, <3>3 DEF Written, Holds
  <2>3. Answer(2, Written(p[2].id))' = IF p'[2].op = "OP_QRY" THEN <<Written(p[2].id)'>> ELSE <<>>
    BY DEF Answer
  <2>4. QED
    BY <2>1, <2>2, <2>3 DEF Answer
<1>13. Answer(1, After2(p[1].id))' = a0
  <2>1. ASSUME p[0].op = "OP_QRY"
        PROVE  After2(p[1].id)' = After1(p[0].id)
    <3>1. PICK i \in CntrIds : i = p[0].id
      BY <1>9, <2>1
    <3>2. After2(i)' = After1(i)
      BY <1>2, After2Moves
    <3>3. p'[1].id = i
      BY <1>8, <3>1
    <3>4. QED
      BY <3>1, <3>2, <3>3 DEF After2, Done, Written, Holds, Executed
  <2>2. Answer(1, After2(p[1].id))' = IF p'[1].op = "OP_QRY" THEN <<After2(p[1].id)'>> ELSE <<>>
    BY DEF Answer
  <2>3. QED
    BY <1>8, <2>1, <2>2 DEF Answer
<1>14. Answer(0, After1(p[0].id))' = new
  <2>1. ASSUME cmd.op = "OP_QRY"
        PROVE  After1(p[0].id)' = cntrs[cmd.id]
    <3>1. PICK i \in CntrIds : i = cmd.id
      BY <1>4, <2>1
    <3>2. After1(i)' = After0(i)
      BY <1>2, After1Moves
    <3>3. i \in ready
      BY <1>4, <2>1, <3>1 DEF IssuesOnce
    <3>4. After0(i) = cntrs[i]
      BY <3>3 DEF ModelInv
    <3>5. p'[0].id = i
      BY <1>8, <3>1
    <3>6. After1(p[0].id)' = After1(i)'
      BY <3>5 DEF After1, After2, Done, Written, Holds, Executed
    <3>7. QED
      BY <3>1, <3>2, <3>4, <3>6
  <2>2. Answer(0, After1(p[0].id))' = IF p'[0].op = "OP_QRY" THEN <<After1(p[0].id)'>> ELSE <<>>
    BY DEF Answer
  <2>3. QED
    BY <1>8, <2>1, <2>2
<1>15. s3_out' = a3
  <2>1. s3_out' = IF Holds(3) /\ p[3].op = "OP_QRY" THEN <<p[3].dat>> ELSE <<>>
    BY <1>2 DEF PipelineStep
  <2>2. QED
    BY <1>9, <2>1 DEF Answer
<1>16. /\ later \in Seq(CntrVals)
       /\ (a3 \o later) \o new = a3 \o (a2 \o (a1 \o (a0 \o new)))
  <2>1. later = a2 \o (a1 \o a0)
    OBVIOUS
  <2> HIDE DEF a3, a2, a1, a0, new, later
  <2>2. /\ (a3 \o (a2 \o (a1 \o a0))) \o new = a3 \o (a2 \o (a1 \o (a0 \o new)))
        /\ a2 \o (a1 \o a0) \in Seq(CntrVals)
    <3>1. PICK x3 \in Seq(CntrVals), x2 \in Seq(CntrVals), x1 \in Seq(CntrVals),
               x0 \in Seq(CntrVals), y \in Seq(CntrVals) :
            a3 = x3 /\ a2 = x2 /\ a1 = x1 /\ a0 = x0 /\ new = y
      BY <1>3, <1>5
    <3>2. PICK z \in Seq(CntrVals) : z = x1 \o x0
      BY ConcatProperties
    <3>3. PICK w \in Seq(CntrVals) : w = x2 \o z
      BY ConcatProperties
    <3>4. (x3 \o w) \o y = x3 \o (w \o y)
      OBVIOUS
    <3>5. (x2 \o z) \o y = x2 \o (z \o y)
      OBVIOUS
    <3>6. (x1 \o x0) \o y = x1 \o (x0 \o y)
      OBVIOUS
    <3>7. QED
      BY <3>1, <3>2, <3>3, <3>4, <3>5, <3>6, Zenon
  <2>3. QED
    BY <2>1, <2>2
<1>17. expect'[3] = (a3 \o later) \o new
  <2> HIDE DEF a3, later, new
  <2>1. a3 \o later \in Seq(CntrVals)
    BY <1>3, <1>16, ConcatProperties
  <2>2. s3_out \in {<<>>} \cup {<<d>> : d \in CntrVals}
    <3>1. outs[3] = s3_out
      BY DEF outs
    <3>2. QED
      BY <1>1, <3>1 DEF TypeOK
  <2>3. CASE s3_out = <<>>
    <3>1. <<>> \o (a3 \o later) = a3 \o later
      BY <2>1, ConcatEmptySeq
    <3>2. expect[3] = a3 \o later
      BY <1>6, <2>3, <3>1
    <3>3. QED
      BY <1>7, <2>3, <3>2
  <2>4. CASE s3_out # <<>>
    <3>1. PICK d \in CntrVals : s3_out = <<d>>
      BY <2>2, <2>4
    <3>2. expect[3] # <<>> /\ Tail(expect[3]) = a3 \o later
      BY <1>6, <2>1, <3>1, Headed
    <3>3. QED
      BY <1>7, <2>4, <3>2
  <2>5. QED
    BY <2>3, <2>4
<1>18. expect'[3] = s3_out' \o (Answer(3, p[3].dat)' \o (Answer(2, Written(p[2].id))'
                       \o (Answer(1, After2(p[1].id))' \o Answer(0, After1(p[0].id))')))
  <2> HIDE DEF a3, a2, a1, a0, later, new
  <2>1. QED
    BY <1>11, <1>12, <1>13, <1>14, <1>15, <1>16, <1>17
<1>19. QED
  BY <1>18 DEF AnswersInv

-----------------------------------------------------------------------------
(* The invariant holds in every state.                                     *)

LEMMA InvInit == Init => IInv
<1> SUFFICES ASSUME Init
             PROVE  IInv
  OBVIOUS
<1>1. Types
  BY TypesInit
<1>2. \A s \in 0 .. 4 : p[s] = Empty /\ ~Holds(s)
  BY DEF Init, Holds
<1>3. Empty.op # "OP_QRY"
  BY DEF Empty
<1>4. TablesInv
  BY DEF Init, TablesInv
<1>5. OnceInv
  BY <1>2 DEF OnceInv
<1>6. WrittenInv /\ ReadInv /\ OperandInv
  BY <1>2 DEF WrittenInv, ReadInv, OperandInv
<1>7. ModelInv
  BY DEF Init, ModelInv
<1>8. AnswersInv
  <2>1. \A s \in 0 .. 4 : p[s].op # "OP_QRY"
    BY <1>2, <1>3
  <2>2. \A s \in 0 .. 4 : \A d : Answer(s, d) = <<>>
    BY <2>1 DEF Answer
  <2>3. expect[3] = <<>> /\ s3_out = <<>>
    BY DEF Init
  <2>4. <<>> \o <<>> = <<>>
    BY EmptySeq, ConcatEmptySeq
  <2>5. /\ Answer(3, p[3].dat) = <<>> /\ Answer(2, Written(p[2].id)) = <<>>
        /\ Answer(1, After2(p[1].id)) = <<>> /\ Answer(0, After1(p[0].id)) = <<>>
    <3>1. 0 \in 0 .. 4 /\ 1 \in 0 .. 4 /\ 2 \in 0 .. 4 /\ 3 \in 0 .. 4
      OBVIOUS
    <3>2. QED
      BY <2>2, <3>1, Zenon
  <2>6. QED
    BY <2>3, <2>4, <2>5, Zenon DEF AnswersInv
<1>9. QED
  BY <1>1, <1>4, <1>5, <1>6, <1>7, <1>8 DEF IInv

LEMMA InvNext ==
  ASSUME InitialisedOnce
  PROVE  IInv /\ [Next]_vars => IInv'
<1>1. ASSUME IInv, Next
      PROVE  IInv'
  <2>1. Types /\ TypeOK /\ TablesInv /\ OnceInv /\ ModelInv /\ AnswersInv /\ Pipeline
    BY <1>1 DEF IInv, Pipeline, Types
  <2>2. PICK cmd \in Ucode \cup {Empty} : IssuesOnce(cmd) /\ Clock(cmd)
    BY <1>1, <2>1, NextIssuesOnce
  <2>3. PipelineStep(cmd)
    BY <2>2 DEF Clock
  <2>4. Types'
    BY <1>1, <2>1, TypesNext
  <2>5. TablesInv'
    BY <2>1, <2>2, TablesStep
  <2>6. OnceInv'
    BY <2>1, <2>2, <2>3, OnceStep
  <2>7. WrittenInv'
    BY <2>1, <2>3, WrittenStep
  <2>8. ReadInv'
    BY <2>1, <2>3, ReadStep
  <2>9. OperandInv'
    BY <2>1, <2>3, OperandStep
  <2>10. ModelInv'
    BY <2>1, <2>2, ModelStep
  <2>11. AnswersInv'
    BY <2>1, <2>2, AnswersStep
  <2>12. QED
    BY <2>4, <2>5, <2>6, <2>7, <2>8, <2>9, <2>10, <2>11 DEF IInv
<1>2. ASSUME IInv, UNCHANGED vars
      PROVE  IInv'
  <2>1. /\ p' = p /\ ready' = ready /\ cntrs' = cntrs /\ expect' = expect
        /\ s1_mem_r' = s1_mem_r /\ s2_mem_r' = s2_mem_r /\ s1_out' = s1_out /\ s2_out' = s2_out
        /\ s3_sram' = s3_sram /\ s3_sram_dout1' = s3_sram_dout1 /\ s3_out' = s3_out
    BY <1>2 DEF vars
  <2>2. Types'
    BY <1>2, <2>1 DEF IInv, Types, TypeOK, outs
  <2>3. TablesInv' /\ OnceInv'
    BY <1>2, <2>1 DEF IInv, TablesInv, OnceInv, Holds
  <2>4. WrittenInv' /\ ReadInv'
    BY <1>2, <2>1 DEF IInv, WrittenInv, ReadInv, Holds
  <2>5. OperandInv'
    BY <1>2, <2>1 DEF IInv, OperandInv, Written, p2_dat, fwd, Holds
  <2>6. \A i : After0(i)' = After0(i)
    BY <2>1 DEF After0, After1, After2, Written, Done, Holds, Executed
  <2>7. ModelInv'
    BY <1>2, <2>1, <2>6 DEF IInv, ModelInv
  <2>8. AnswersInv'
    <3>1. /\ Answer(3, p[3].dat)' = Answer(3, p[3].dat)
          /\ Answer(2, Written(p[2].id))' = Answer(2, Written(p[2].id))
      BY <2>1 DEF Answer, Written, Holds
    <3>2. Answer(1, After2(p[1].id))' = Answer(1, After2(p[1].id))
      BY <2>1 DEF Answer, After2, Written, Done, Holds, Executed
    <3>3. Answer(0, After1(p[0].id))' = Answer(0, After1(p[0].id))
      BY <2>1 DEF Answer, After1, After2, Written, Done, Holds, Executed
    <3>4. QED
      BY <1>2, <2>1, <3>1, <3>2, <3>3, Zenon DEF IInv, AnswersInv
  <2>9. QED
    BY <2>2, <2>3, <2>4, <2>5, <2>7, <2>8 DEF IInv
<1>3. QED
  BY <1>1, <1>2

\* The queries in the first four stages, counted.
LEMMA CountFour ==
  ASSUME NEW Q
  PROVE  Cardinality({s \in 0 .. 3 : s \in Q}) =
           (IF 0 \in Q THEN 1 ELSE 0) + (IF 1 \in Q THEN 1 ELSE 0)
             + (IF 2 \in Q THEN 1 ELSE 0) + (IF 3 \in Q THEN 1 ELSE 0)
<1> DEFINE U(k) == {s \in 0 .. 3 : s < k /\ s \in Q}
           n(k) == IF k \in Q THEN 1 ELSE 0
<1>1. IsFiniteSet(U(0)) /\ Cardinality(U(0)) = 0
  <2>1. U(0) = {}
    OBVIOUS
  <2>2. QED
    BY <2>1, FS_EmptySet
<1>2. ASSUME NEW k \in 0 .. 3, IsFiniteSet(U(k)), Cardinality(U(k)) \in Nat
      PROVE  IsFiniteSet(U(k + 1)) /\ Cardinality(U(k + 1)) = Cardinality(U(k)) + n(k)
  <2>1. k \notin U(k)
    OBVIOUS
  <2>2. CASE k \in Q
    <3>1. U(k + 1) = U(k) \cup {k}
      BY <2>2
    <3>2. n(k) = 1
      BY <2>2
    <3> HIDE DEF U, n
    <3>3. QED
      BY <1>2, <2>1, <3>1, <3>2, FS_AddElement
  <2>3. CASE k \notin Q
    <3>1. U(k + 1) = U(k)
      BY <2>3
    <3>2. n(k) = 0
      BY <2>3
    <3> HIDE DEF U, n
    <3>3. QED
      BY <1>2, <3>1, <3>2
  <2>4. QED
    BY <2>2, <2>3
<1>3. {s \in 0 .. 3 : s \in Q} = U(4)
  OBVIOUS
<1>4. n(0) \in Nat /\ n(1) \in Nat /\ n(2) \in Nat /\ n(3) \in Nat
  OBVIOUS
<1>5. 0 + 1 = 1 /\ 1 + 1 = 2 /\ 2 + 1 = 3 /\ 3 + 1 = 4
  OBVIOUS
<1> HIDE DEF U
<1>6. IsFiniteSet(U(1)) /\ Cardinality(U(1)) = n(0)
  BY <1>1, <1>2, <1>4, <1>5
<1>7. IsFiniteSet(U(2)) /\ Cardinality(U(2)) = n(0) + n(1)
  BY <1>2, <1>4, <1>5, <1>6
<1>8. IsFiniteSet(U(3)) /\ Cardinality(U(3)) = n(0) + n(1) + n(2)
  BY <1>2, <1>4, <1>5, <1>7
<1>9. IsFiniteSet(U(4)) /\ Cardinality(U(4)) = n(0) + n(1) + n(2) + n(3)
  BY <1>2, <1>4, <1>5, <1>8
<1>10. QED
  BY <1>3, <1>9

LEMMA AnswersFollow == IInv => AnswersAsExpected
<1> SUFFICES ASSUME IInv
             PROVE  AnswersAsExpected
  OBVIOUS
<1>1. /\ TypeOK /\ TablesInv /\ AnswersInv /\ expect \in [1 .. 3 -> Seq(CntrVals)]
  BY DEF IInv, Types
<1>2. /\ outs[1] = s1_out /\ outs[2] = s2_out /\ outs[3] = s3_out
      /\ s1_out \in {<<>>} \cup {<<d>> : d \in CntrVals}
      /\ s2_out \in {<<>>} \cup {<<d>> : d \in CntrVals}
      /\ s3_out \in {<<>>} \cup {<<d>> : d \in CntrVals}
  <2>1. outs[1] = s1_out /\ outs[2] = s2_out /\ outs[3] = s3_out
    BY DEF outs
  <2>2. QED
    BY <1>1, <2>1 DEF TypeOK
<1> DEFINE waits(k) == IF k = 3 THEN Cardinality({s \in 0 .. 3 : p[s].op = "OP_QRY"}) ELSE 0
           right(k) == /\ outs[k] # <<>> => expect[k] # <<>> /\ outs[k][1] = Head(expect[k])
                       /\ Len(expect[k]) = Len(outs[k]) + waits(k)
\* The tables answer at once.
<1>3. ASSUME NEW q, q \in {<<>>} \cup {<<d>> : d \in CntrVals}
      PROVE  (q # <<>> => q[1] = Head(q)) /\ Len(q) = Len(q) + 0
  <2>1. \A d : <<d>>[1] = Head(<<d>>)
    OBVIOUS
  <2>2. Len(q) \in Nat
    BY <1>3, AnswerType, LenProperties
  <2>3. QED
    BY <1>3, <2>1, <2>2
<1>4. right(1)
  <2>1. waits(1) = 0 /\ expect[1] = s1_out
    BY <1>1 DEF TablesInv
  <2>2. QED
    BY <1>2, <1>3, <2>1
<1>5. right(2)
  <2>1. waits(2) = 0 /\ expect[2] = s2_out
    BY <1>1 DEF TablesInv
  <2>2. QED
    BY <1>2, <1>3, <2>1
\* Solution 3 answers from the stages.
<1>6. PICK a3 \in Seq(CntrVals), a2 \in Seq(CntrVals), a1 \in Seq(CntrVals), a0 \in Seq(CntrVals) :
        /\ a3 = Answer(3, p[3].dat) /\ a2 = Answer(2, Written(p[2].id))
        /\ a1 = Answer(1, After2(p[1].id)) /\ a0 = Answer(0, After1(p[0].id))
  BY <1>1, AnswersType
<1>7. PICK z \in Seq(CntrVals) : z = a1 \o a0 /\ Len(z) = Len(a1) + Len(a0)
  BY ConcatProperties
<1>8. PICK y \in Seq(CntrVals) : y = a2 \o z /\ Len(y) = Len(a2) + Len(z)
  BY ConcatProperties
<1>9. PICK x \in Seq(CntrVals) : x = a3 \o y /\ Len(x) = Len(a3) + Len(y)
  BY ConcatProperties
<1>10. expect[3] = s3_out \o x
  BY <1>1, <1>6, <1>7, <1>8, <1>9, Zenon DEF AnswersInv
<1>11. Len(x) = waits(3)
  <2> DEFINE Q == {s \in 0 .. 3 : p[s].op = "OP_QRY"}
  <2>1. Q = {s \in 0 .. 3 : s \in Q}
    OBVIOUS
  <2>2. /\ 0 \in Q <=> p[0].op = "OP_QRY"
        /\ 1 \in Q <=> p[1].op = "OP_QRY"
        /\ 2 \in Q <=> p[2].op = "OP_QRY"
        /\ 3 \in Q <=> p[3].op = "OP_QRY"
    OBVIOUS
  <2>3. \A s \in 0 .. 4 : \A d : Len(Answer(s, d)) = IF p[s].op = "OP_QRY" THEN 1 ELSE 0
    <3>1. \A d : Len(<<d>>) = 1
      OBVIOUS
    <3>2. Len(<<>>) = 0
      OBVIOUS
    <3>3. QED
      BY <3>1, <3>2 DEF Answer
  <2>4. /\ Len(a3) = IF p[3].op = "OP_QRY" THEN 1 ELSE 0
        /\ Len(a2) = IF p[2].op = "OP_QRY" THEN 1 ELSE 0
        /\ Len(a1) = IF p[1].op = "OP_QRY" THEN 1 ELSE 0
        /\ Len(a0) = IF p[0].op = "OP_QRY" THEN 1 ELSE 0
    <3>1. 0 \in 0 .. 4 /\ 1 \in 0 .. 4 /\ 2 \in 0 .. 4 /\ 3 \in 0 .. 4
      OBVIOUS
    <3>2. QED
      BY <1>6, <2>3, <3>1, Zenon
  <2>5. waits(3) = Cardinality(Q)
    OBVIOUS
  <2> HIDE DEF Q, waits
  <2>6. Cardinality({s \in 0 .. 3 : s \in Q}) =
          (IF 0 \in Q THEN 1 ELSE 0) + (IF 1 \in Q THEN 1 ELSE 0)
            + (IF 2 \in Q THEN 1 ELSE 0) + (IF 3 \in Q THEN 1 ELSE 0)
    BY CountFour
  <2>7. waits(3) = (IF 0 \in Q THEN 1 ELSE 0) + (IF 1 \in Q THEN 1 ELSE 0)
            + (IF 2 \in Q THEN 1 ELSE 0) + (IF 3 \in Q THEN 1 ELSE 0)
    BY <2>1, <2>5, <2>6
  <2>8. QED
    BY <1>7, <1>8, <1>9, <2>2, <2>4, <2>7
<1>12. right(3)
  <2> HIDE DEF waits
  <2>1. CASE s3_out = <<>>
    <3>1. <<>> \o x = x
      BY ConcatEmptySeq
    <3>2. expect[3] = x /\ outs[3] = <<>>
      BY <1>2, <1>10, <2>1, <3>1
    <3>3. Len(<<>>) = 0 /\ Len(x) \in Nat
      BY LenProperties
    <3>4. QED
      BY <1>11, <3>2, <3>3
  <2>2. CASE s3_out # <<>>
    <3>1. PICK d \in CntrVals : s3_out = <<d>>
      BY <1>2, <2>2
    <3>2. expect[3] # <<>> /\ Head(expect[3]) = d /\ Len(expect[3]) = 1 + Len(x)
      BY <1>10, <3>1, Headed
    <3>3. <<d>>[1] = d /\ Len(<<d>>) = 1
      OBVIOUS
    <3>4. outs[3][1] = d /\ Len(outs[3]) = 1
      BY <1>2, <3>1, <3>3
    <3>5. QED
      BY <1>11, <3>2, <3>4
  <2>3. QED
    BY <2>1, <2>2
<1>13. \A k \in 1 .. 3 : k = 1 \/ k = 2 \/ k = 3
  OBVIOUS
<1>14. \A k \in 1 .. 3 : right(k)
  <2> HIDE DEF right
  <2>1. QED
    BY <1>4, <1>5, <1>12, <1>13
<1>15. QED
  BY <1>14 DEF AnswersAsExpected

LEMMA SramFollows == IInv => SramCatchesUp
<1> SUFFICES ASSUME IInv, NEW i \in ready, \A s \in 0 .. 2 : Holds(s) => p[s].id # i
             PROVE  (IF s3_wrbk /\ p[3].id = i THEN p[3].dat ELSE s3_sram[i]) = cntrs[i]
  BY DEF SramCatchesUp
<1>1. After0(i) = cntrs[i]
  BY DEF IInv, ModelInv
<1>2. After0(i) = Written(i)
  <2>1. \A s \in 0 .. 2 : \A d : Done(s, i, d) = d
    BY DEF Done
  <2>2. QED
    BY <2>1 DEF After0, After1, After2
<1>3. Holds(3) => p[3].op \in Op
  BY Held DEF IInv, Types
<1>4. Holds(3) /\ ~s3_wrbk => p[3].op = "OP_QRY"
  BY <1>3 DEF s3_wrbk, Writes, Op
<1>5. Holds(3) /\ ~s3_wrbk => p[3].dat = s3_sram[p[3].id]
  BY <1>4 DEF IInv, WrittenInv
<1>6. QED
  BY <1>1, <1>2, <1>5 DEF Written, s3_wrbk

-----------------------------------------------------------------------------
(* The theorems.                                                           *)

\* Every answer that a solution gives is the next one the testbench waits for,
\* and every query has an answer on its way, whatever was forwarded to it.
THEOREM AnswersCorrect ==
  ASSUME InitialisedOnce
  PROVE  Spec => []AnswersAsExpected
<1>1. IInv /\ [Next]_vars => IInv'
  BY InvNext
<1>2. QED
  BY <1>1, InvInit, AnswersFollow, PTL DEF Spec

\* The SRAM holds what the testbench expects of a counter, as soon as no command
\* of it is in front of p3.
THEOREM SramCorrect ==
  ASSUME InitialisedOnce
  PROVE  Spec => []SramCatchesUp
<1>1. IInv /\ [Next]_vars => IInv'
  BY InvNext
<1>2. QED
  BY <1>1, InvInit, SramFollows, PTL DEF Spec
=============================================================================
