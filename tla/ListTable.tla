----------------------------- MODULE ListTable ------------------------------
(***************************************************************************)
(* What the update pipeline of sorted_lists promises: lists on which the   *)
(* updates execute one at a time, whole, in the order they were issued,    *)
(* three cycles after they were issued.                                    *)
(***************************************************************************)
EXTENDS SortedListsPkg

VARIABLES
  lists,    \* the contents of each list
  line,     \* the updates in flight: line[1] is the youngest
  executed  \* the update executed in this cycle and whether it was in error

listVars == <<lists, line, executed>>

NoUpdate == [op |-> "none"]

Execute(u) ==
  IF u = NoUpdate
  THEN /\ executed' = NoUpdate
       /\ UNCHANGED lists
  ELSE /\ lists' = [lists EXCEPT ![u.id] = Executed(lists[u.id], u)]
       /\ executed' = [op |-> u.op, id |-> u.id, error |-> Error(lists[u.id], u)]

Step(u) ==
  /\ Execute(line[3])
  /\ line' = [i \in 1..3 |-> IF i = 1 THEN u ELSE line[i - 1]]

ListInit ==
  /\ lists \in [Lists -> List]
  /\ line = [i \in 1..3 |-> NoUpdate]
  /\ executed = NoUpdate

ListNext == \E u \in Update \cup {NoUpdate} : Step(u)

ListSpec == ListInit /\ [][ListNext]_listVars
=============================================================================
