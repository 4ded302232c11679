---------------------------- MODULE SortedLists -----------------------------
(***************************************************************************)
(* sorted_lists.sv up to the sorting network: the update pipeline, which   *)
(* reads a list in stage 0, executes in stage 2 and writes back in stage   *)
(* 3, and the query pipeline's lookup in the second copy of the table.     *)
(*                                                                         *)
(* One step is one rising edge of clk.  A stage is Empty while its valid   *)
(* bit is low: the registers then keep an old command, which no wire reads *)
(* without the valid bit.  A RAM's output is Empty except in the cycle     *)
(* after a read, the only one in which the RTL looks at it.  The module is *)
(* the RTL as it is built, with DISABLE_FORWARDING defined.                *)
(*                                                                         *)
(* The testbench is part of the model: it updates its machine model as it  *)
(* issues an update, adds no key that is in the list already, and does not *)
(* query a list that is being modified.                                    *)
(***************************************************************************)
EXTENDS SortedListsPkg

CONSTANTS
  PowerUp,    \* the lists the tables may hold after power-up
  Issued,     \* the updates the testbench issues
  Queried,    \* the lists it queries
  QueriesMax  \* bound: the queries in flight at a time

ASSUME PowerUpAssumption == PowerUp \subseteq List
ASSUME StimulusAssumption == Issued \subseteq Update /\ Queried \subseteq Lists

VARIABLES
  upt0, upt1,  \* ucode_upt_0_r and ucode_upt_1_r: an update
  upt2,        \* ucode_upt_2_r: an update u and the list t it was handed
  upt3,        \* ucode_upt_3_r: u, its result t, error, and hit_e_r
  wrbk,        \* upt_table_wrbk_r: the list a stage 0 read collided with
  upt_dout,    \* upt_table_dout1: the list t just read for an update
  upt_table,   \* the update pipeline's copy of the table
  qry_table,   \* the query pipeline's copy
  qry0, qry1,  \* ucode_qry_0_r and ucode_qry_1_r: a query
  qry2,        \* ucode_qry_2_r: a query and the list t it read
  qry_dout,    \* qry_table_dout1: the list t just read for a query
  ntf,         \* the notification port
  model        \* the testbench's machine model

vars == <<upt0, upt1, upt2, upt3, wrbk, upt_dout, upt_table, ntf,
          qry0, qry1, qry2, qry_dout, qry_table, model>>

Empty == [empty |-> TRUE]
Holds(stage) == stage # Empty

-----------------------------------------------------------------------------
(* The update pipeline.                                                    *)

\* Mutant of wrbk_vld_w: stage 0 reads a list that stage 3 is writing.
NoWriteback == FALSE

\* Stage 0 reads the list that stage 3 writes: the written list is kept.
wrbk_vld_w == Holds(upt0) /\ Holds(upt3) /\ upt0.id = upt3.u.id

\* The list handed from stage 1 to stage 2.  Forwarding from stage 2 is
\* compiled out, so only stage 3 and the kept list are looked at.
upt_2_t ==
  IF Holds(upt3) /\ upt1.id = upt3.u.id THEN upt3.t
  ELSE IF Holds(wrbk) THEN wrbk.t
  ELSE upt_dout.t

\* Mutant of upt_2_t_fwd: no forwarding in the execute stage.
NotForwarded == upt2.t

\* The list stage 2 executes on: the result of stage 3 if that is the same.
upt_2_t_fwd ==
  IF Holds(upt3) /\ upt2.u.id = upt3.u.id THEN upt3.t ELSE upt2.t

AdvanceUpdates(u) ==
  /\ upt0' = u
  /\ upt1' = upt0
  /\ upt2' = IF Holds(upt1) THEN [u |-> upt1, t |-> upt_2_t] ELSE Empty
  /\ upt3' = IF Holds(upt2)
             THEN [u |-> upt2.u,
                   t |-> Executed(upt_2_t_fwd, upt2.u),
                   error |-> Error(upt_2_t_fwd, upt2.u),
                   hit |-> HitIndex(upt_2_t_fwd, upt2.u.key)]
             ELSE Empty
  /\ wrbk' = IF wrbk_vld_w THEN [t |-> upt3.t] ELSE Empty

-----------------------------------------------------------------------------
(* The tables.  Both copies are written by stage 3.                        *)

Written(table) ==
  IF Holds(upt3) THEN [table EXCEPT ![upt3.u.id] = upt3.t] ELSE table

\* The read ports, one for each pipeline.
ReadTables ==
  /\ upt_dout' = IF Holds(upt0) /\ ~wrbk_vld_w THEN [t |-> upt_table[upt0.id]]
                                               ELSE Empty
  /\ qry_dout' = IF Holds(qry0) THEN [t |-> qry_table[qry0.id]] ELSE Empty

\* Mutant of AccessTables: the query table misses the result of an ADD.
AccessTablesNoAdd ==
  /\ ReadTables
  /\ upt_table' = Written(upt_table)
  /\ qry_table' = IF Holds(upt3) /\ upt3.u.op = "OP_ADD" THEN qry_table
                                                         ELSE Written(qry_table)

AccessTables ==
  /\ ReadTables
  /\ upt_table' = Written(upt_table)
  /\ qry_table' = Written(qry_table)

-----------------------------------------------------------------------------
(* Notifications.                                                          *)

\* ntf_PROC looks at the list after the update has been executed.
ntf_vld_w ==
  /\ Holds(upt3)
  /\ \/ upt3.u.op = "OP_CLEAR"
     \/ /\ upt3.u.op = "OP_DELETE"
        /\ Cardinality(Vld(upt3.t)) = 1
        /\ ~upt3.error

Notify ==
  ntf' = IF ntf_vld_w
         THEN [id |-> upt3.u.id, key |-> upt3.t[upt3.hit].key,
               size |-> upt3.t[upt3.hit].size]
         ELSE Empty

-----------------------------------------------------------------------------
(* The query pipeline up to the sorting network.  want is the answer the   *)
(* testbench expects, which it computes as it issues the query.            *)

AdvanceQueries(q) ==
  /\ qry0' = q
  /\ qry1' = qry0
  /\ qry2' = IF Holds(qry1) THEN [id |-> qry1.id, want |-> qry1.want, t |-> qry_dout.t]
                            ELSE Empty

-----------------------------------------------------------------------------
(* The testbench.                                                          *)

\* An update to id is on its way to the table and will not have been written
\* when a query issued now reads it.
BeingModified(id) ==
  \/ Holds(upt0) /\ upt0.id = id
  \/ Holds(upt1) /\ upt1.id = id
  \/ Holds(upt2) /\ upt2.u.id = id

QueriesInFlight ==
  Cardinality({s \in 0..2 : CASE s = 0 -> Holds(qry0) [] s = 1 -> Holds(qry1)
                              [] s = 2 -> Holds(qry2)})

IssueUpdate ==
  \E u \in Issued :
    /\ u.op = "OP_ADD" => ~HasKey(model[u.id], u.key)
    /\ AdvanceUpdates(u)
    /\ model' = [model EXCEPT ![u.id] = ModelUpdated(@, u)]

NoUpdate == AdvanceUpdates(Empty) /\ UNCHANGED model

IssueQuery ==
  \E id \in Queried :
    /\ ~BeingModified(id)
    /\ QueriesInFlight < QueriesMax
    /\ AdvanceQueries([id |-> id, want |-> model[id]])

NoQuery == AdvanceQueries(Empty)

Init ==
  /\ upt0 = Empty /\ upt1 = Empty /\ upt2 = Empty /\ upt3 = Empty
  /\ qry0 = Empty /\ qry1 = Empty /\ qry2 = Empty
  /\ wrbk = Empty /\ ntf = Empty
  /\ upt_dout = Empty /\ qry_dout = Empty
  /\ upt_table \in [Lists -> PowerUp]
  /\ qry_table = upt_table
  /\ model = [l \in Lists |-> Pairs(upt_table[l])]

Next ==
  /\ IssueUpdate \/ NoUpdate
  /\ IssueQuery \/ NoQuery
  /\ AccessTables
  /\ Notify

Spec == Init /\ [][Next]_vars

-----------------------------------------------------------------------------
Query == [id : Lists, want : SUBSET Pair]
Optional(S) == S \cup {Empty}

\* Every register holds what its declaration says.
TypeOK ==
  /\ upt0 \in Optional(Update) /\ upt1 \in Optional(Update)
  /\ upt2 \in Optional([u : Update, t : List])
  /\ upt3 \in Optional([u : Update, t : List, error : BOOLEAN, hit : Slot])
  /\ wrbk \in Optional([t : List])
  /\ upt_dout \in Optional([t : List]) /\ qry_dout \in Optional([t : List])
  /\ upt_table \in [Lists -> List] /\ qry_table \in [Lists -> List]
  /\ ntf \in Optional([id : Lists, key : Keys, size : Sizes])

\* A list that no update in the pipeline addresses is, in both tables, the
\* list of the machine model: no update was lost, doubled or applied to an
\* old state, whatever the distance between updates of one list, and the two
\* copies agree.
TablesMatchModel ==
  \A l \in Lists :
    ~BeingModified(l) /\ ~(Holds(upt3) /\ upt3.u.id = l) =>
      /\ Pairs(upt_table[l]) = model[l]
      /\ qry_table[l] = upt_table[l]

\* A query finds the list as it was when the query was issued, though other
\* lists are updated meanwhile and this list may be right after it.
QueryFindsModel == Holds(qry2) => Pairs(qry2.t) = qry2.want

\* What is signalled: a notification follows a CLEAR, and a DELETE that took
\* the last entry of its list (sorted_lists.sv:342-349).
NotifyWhenEmptied ==
  [][Holds(ntf') <=> /\ Holds(upt3)
                     /\ ~upt3.error
                     /\ upt3.u.op \in {"OP_CLEAR", "OP_DELETE"}
                     /\ Vld(upt3.t) = {}]_vars

-----------------------------------------------------------------------------
(* The pipeline implements the list table.  An update takes effect as it   *)
(* enters stage 3.                                                         *)

LineOf(u) == IF Holds(u) THEN u ELSE [op |-> "none"]

tableLine ==
  [s \in 1..3 |->
     CASE s = 1 -> LineOf(upt0)
       [] s = 2 -> LineOf(upt1)
       [] s = 3 -> IF Holds(upt2) THEN upt2.u ELSE [op |-> "none"]]

tableExecuted ==
  IF Holds(upt3)
  THEN [op |-> upt3.u.op, id |-> upt3.u.id, error |-> upt3.error]
  ELSE [op |-> "none"]

Table == INSTANCE ListTable
           WITH lists <- Written(upt_table), line <- tableLine,
                executed <- tableExecuted

\* Updates execute whole and in order, back-to-back updates of one list
\* included.
ImplementsListTable == Table!ListSpec
=============================================================================
