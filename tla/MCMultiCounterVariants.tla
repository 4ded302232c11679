----------------------- MODULE MCMultiCounterVariants -----------------------
(***************************************************************************)
(* Two counters.  Everything is issued on c0; c1 is incremented and        *)
(* queried in between.  Only OP_INIT looks at the data of a command.       *)
(***************************************************************************)
EXTENDS MultiCounterVariants

CONSTANTS c0, c1

MCCntrIds == {c0, c1}

MCStimulus ==
       { [op |-> op, id |-> c0, dat |-> 0] : op \in {"OP_INCR", "OP_DECR", "OP_QRY"} }
  \cup { [op |-> "OP_INCR", id |-> c1, dat |-> 0] }
=============================================================================
