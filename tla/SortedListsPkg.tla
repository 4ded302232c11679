--------------------------- MODULE SortedListsPkg ---------------------------
(***************************************************************************)
(* The data of sorted_lists: a list is a tuple of N entries in no order,   *)
(* and an update finds the entry it changes by its key.  The operators are *)
(* the list computations of the execute stage, and the list as the         *)
(* testbench's machine model keeps it.                                     *)
(***************************************************************************)
EXTENDS Integers, FiniteSets

CONSTANTS
  Lists,    \* the list identifiers, 0 .. M - 1 in the code
  N,        \* the entries of a list
  Keys,     \* the keys; 0 is the key of a cleared entry
  Sizes     \* the payloads; 0 is the payload of a cleared entry

ASSUME EntriesAssumption == N \in Nat \ {0}
ASSUME KeyAssumption == 0 \in Keys /\ 0 \in Sizes /\ Keys \subseteq Nat

Slot == 0 .. N - 1
Entry == [vld : BOOLEAN, key : Keys, size : Sizes]
List == [Slot -> Entry]
UpdateOp == {"OP_CLEAR", "OP_ADD", "OP_DELETE", "OP_REPLACE"}
Update == [id : Lists, op : UpdateOp, key : Keys, size : Sizes]

Cleared == [e \in Slot |-> [vld |-> FALSE, key |-> 0, size |-> 0]]

\* ucode_upt_2_t_vld and ucode_upt_2_t_hit, as sets of slots.
Vld(t) == {e \in Slot : t[e].vld}
Hit(t, k) == {e \in Slot : t[e].vld /\ t[e].key = k}

\* The ffs cell: the first slot that is not valid.
VldNotSet(t) == CHOOSE e \in Slot \ Vld(t) : \A f \in Slot \ Vld(t) : e <= f

\* Mutant of HitIndex: a key that is not found is reported as slot N.
HitIndexOrN(t, k) ==
  IF Hit(t, k) = {} THEN N ELSE CHOOSE e \in Hit(t, k) : TRUE

\* The encoder cell: the slot that was hit, 0 if none was.
HitIndex(t, k) ==
  IF Hit(t, k) = {} THEN 0 ELSE CHOOSE e \in Hit(t, k) : TRUE

\* An ADD to a full list, and a DELETE or REPLACE of a key that is not there,
\* are errors and change nothing.
Error(t, u) ==
  CASE u.op = "OP_CLEAR" -> FALSE
    [] u.op = "OP_ADD" -> Vld(t) = Slot
    [] OTHER -> Hit(t, u.key) = {}

Executed(t, u) ==
  IF Error(t, u) THEN t
  ELSE CASE u.op = "OP_CLEAR" -> Cleared
         [] u.op = "OP_ADD" ->
              [t EXCEPT ![VldNotSet(t)] =
                 [vld |-> TRUE, key |-> u.key, size |-> u.size]]
         [] u.op = "OP_DELETE" ->
              [t EXCEPT ![HitIndex(t, u.key)].vld = FALSE,
                        ![HitIndex(t, u.key)].key = 0]
         [] u.op = "OP_REPLACE" ->
              [t EXCEPT ![HitIndex(t, u.key)].size = u.size]

-----------------------------------------------------------------------------
\* The machine model of the testbench: a list is the set of its pairs.  (The
\* testbench keeps a vector; with distinct keys only its elements matter.)
Pair == [key : Keys, size : Sizes]
Pairs(t) == {[key |-> t[e].key, size |-> t[e].size] : e \in Vld(t)}
HasKey(ps, k) == \E p \in ps : p.key = k

ModelUpdated(ps, u) ==
  CASE u.op = "OP_CLEAR" -> {}
    [] u.op = "OP_ADD" ->
         IF Cardinality(ps) < N THEN ps \cup {[key |-> u.key, size |-> u.size]}
                                ELSE ps
    [] u.op = "OP_DELETE" -> {p \in ps : p.key # u.key}
    [] u.op = "OP_REPLACE" ->
         {IF p.key = u.key THEN [p EXCEPT !.size = u.size] ELSE p : p \in ps}
=============================================================================
