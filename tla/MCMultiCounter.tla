--------------------------- MODULE MCMultiCounter ---------------------------
(***************************************************************************)
(* A small multi_counter for TLC: two counters of CNTRS_M values, and an   *)
(* idle port that shows a command.  Only OP_INIT uses cntr_dat, so every   *)
(* other command is issued with one value of it.  Every command is issued  *)
(* on c0; c1 gets the two kinds that write, one that reads and one that    *)
(* does not, to run between them.                                          *)
(***************************************************************************)
EXTENDS MultiCounter

CONSTANTS c0, c1

MCCntrIds == {c0, c1}

MCIdle == { [id |-> c0, op |-> "OP_INCR", cdat |-> 2] }

MCIssued ==
       { [id |-> c0, op |-> op, cdat |-> 0] : op \in {"OP_INCR", "OP_DECR", "OP_QRY"} }
  \cup { [id |-> c1, op |-> "OP_INCR", cdat |-> 0] }
  \cup { [id |-> c, op |-> "OP_INIT", cdat |-> 1] : c \in MCCntrIds }

\* The same port, driven with OP_NOP as well.
MCIssuedWithNop == MCIssued \cup { [id |-> c0, op |-> "OP_NOP", cdat |-> 0] }
=============================================================================
