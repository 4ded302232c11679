---------------------------- MODULE CounterTable ----------------------------
(***************************************************************************)
(* What multi_counter promises: a table of counters on which commands      *)
(* execute one at a time, whole, in the order they were issued, each a     *)
(* fixed number of cycles after it was issued.  MultiCounter, the          *)
(* forwarding pipeline of the RTL, is shown to implement this              *)
(* specification.                                                          *)
(***************************************************************************)
EXTENDS Naturals

CONSTANTS
  CntrIds,   \* the counters
  CNTRS_M    \* the values of one counter are 0 .. CNTRS_M - 1

VARIABLES
  cntrs,     \* the value of each counter
  line,      \* the commands in flight: line[1] is the youngest
  status     \* what the status port shows in this cycle

tableVars == <<cntrs, line, status>>

CntrVals == 0 .. CNTRS_M - 1

\* Only an initialisation carries data.
Command ==
       [op : {"OP_INIT"}, id : CntrIds, dat : CntrVals]
  \cup [op : {"OP_NOP", "OP_INCR", "OP_DECR", "OP_QRY"}, id : CntrIds]

NoCommand == [op |-> "none"]

\* A retired query shows the counter's value, any other command only its id.
NoStatus == [kind |-> "none"]
Done(i) == [kind |-> "done", id |-> i]
Answer(i, v) == [kind |-> "answer", id |-> i, dat |-> v]

TableTypeOK ==
  /\ cntrs \in [CntrIds -> CntrVals]
  /\ line \in [1..3 -> Command \cup {NoCommand}]

-----------------------------------------------------------------------------
\* The value of c's counter once c has executed.
ValueAfter(c) ==
  CASE c.op = "OP_INIT" -> c.dat
    [] c.op = "OP_INCR" -> (cntrs[c.id] + 1) % CNTRS_M
    [] c.op = "OP_DECR" -> (cntrs[c.id] + CNTRS_M - 1) % CNTRS_M
    [] OTHER -> cntrs[c.id]

Execute(c) ==
  IF c = NoCommand
  THEN /\ status' = NoStatus
       /\ UNCHANGED cntrs
  ELSE /\ cntrs' = [cntrs EXCEPT ![c.id] = ValueAfter(c)]
       /\ status' = IF c.op = "OP_QRY" THEN Answer(c.id, cntrs[c.id])
                                       ELSE Done(c.id)

\* The oldest command executes, and a command may be issued.
Step(c) ==
  /\ Execute(line[3])
  /\ line' = [i \in 1..3 |-> IF i = 1 THEN c ELSE line[i - 1]]

\* A reset drops the commands that have not executed and keeps the table.
Drop ==
  /\ line' = [i \in 1..3 |-> NoCommand]
  /\ status' = NoStatus
  /\ UNCHANGED cntrs

TableInit ==
  /\ cntrs \in [CntrIds -> CntrVals]
  /\ line = [i \in 1..3 |-> NoCommand]
  /\ status = NoStatus

TableNext == Drop \/ \E c \in Command \cup {NoCommand} : Step(c)

TableSpec == TableInit /\ [][TableNext]_tableVars
=============================================================================
