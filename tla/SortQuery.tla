----------------------------- MODULE SortQuery ------------------------------
(***************************************************************************)
(* sorted_lists.sv from the list that was looked up to the response:       *)
(* sorting_network.sv, which sorts a list of four entries in three stages, *)
(* the delay pipe that carries the level that was asked for beside it, and *)
(* the multiplexer that picks the entry of that level.                     *)
(*                                                                         *)
(* A step is a rising edge of clk, after reset.  A list register is        *)
(* Cleared while its valid bit is low: it then keeps an old list, which    *)
(* the delay pipe does not select from.                                    *)
(***************************************************************************)
EXTENDS SortedListsPkg, Sequences

CONSTANTS
  Lookups,  \* the lists that may have been looked up
  Repeated  \* bound: of other queries than these, one is in flight at a time

\* N is 4, and the lists are such as updates leave that add no key twice: key
\* 0 is in every entry that is not valid, and may be in one that is.
Query == [t : Lookups, level : Slot]

VARIABLES
  reg,  \* ucode_qry_2_r, the stages of the network and of the delay pipe, and
        \* the response
  tb    \* r_list_: the queries the testbench waits for the responses of

vars == <<reg, tb>>

-----------------------------------------------------------------------------
\* Mutant of compare_and_swap: the payloads stay where they are.
SwapKeys(x, a, b) ==
  IF x[a].key < x[b].key
  THEN [x EXCEPT ![a].key = x[b].key, ![b].key = x[a].key] ELSE x

compare_and_swap(x, a, b) ==
  IF x[a].key < x[b].key THEN [x EXCEPT ![a] = x[b], ![b] = x[a]] ELSE x

\* Mutant of s0_w: neighbours are compared, as in the next stage.
Neighbours(x) == compare_and_swap(compare_and_swap(x, 2, 3), 0, 1)

s0_w(x) == compare_and_swap(compare_and_swap(x, 1, 3), 0, 2)
s1_w(x) == compare_and_swap(compare_and_swap(x, 2, 3), 0, 1)
s2_w(x) == compare_and_swap(x, 1, 2)

Selected(x, level) ==
  [key |-> x[level].key, size |-> x[level].size,
   listsize |-> Cardinality(Vld(x)), error |-> ~x[level].vld]

\* qry2 and the stages of delay are tuples of one element or none.
Edge(q) ==
  reg' =
    [qry2 |-> q,
     s0 |-> IF reg.qry2 # <<>> THEN s0_w(reg.qry2[1].t) ELSE Cleared,
     s1 |-> s1_w(reg.s0),
     s2 |-> s2_w(reg.s1),
     delay |-> << IF reg.qry2 # <<>> THEN <<reg.qry2[1].level>> ELSE <<>>,
                  reg.delay[1], reg.delay[2] >>,
     resp |-> IF reg.delay[3] # <<>> THEN <<Selected(reg.s2, reg.delay[3][1])>> ELSE <<>>]

-----------------------------------------------------------------------------
(* The testbench.                                                          *)

\* apply_query: the pair with exactly level pairs of a larger key.
Expected(q) ==
  IF q.level >= Cardinality(Pairs(q.t))
  THEN [error |-> TRUE]
  ELSE LET pair == CHOOSE p1 \in Pairs(q.t) :
                     Cardinality({p2 \in Pairs(q.t) : p2.key > p1.key}) = q.level
       IN  [key |-> pair.key, size |-> pair.size,
            listsize |-> Cardinality(Pairs(q.t)), error |-> FALSE]

\* operator==: of two errors nothing else is compared; here an error differs
\* from an answer that is none, whatever its fields.
Same(actual, expected) == (actual.error /\ expected.error) \/ actual = expected

Score(q) == tb' = (IF reg.resp # <<>> /\ tb # <<>> THEN Tail(tb) ELSE tb) \o q

OthersInFlight == \E i \in DOMAIN tb : tb[i] \notin Repeated

Ask ==
  \E q \in IF OthersInFlight THEN Repeated ELSE Query :
    Edge(<<q>>) /\ Score(<<q>>)

Idle == Edge(<<>>) /\ Score(<<>>)

Init ==
  /\ reg = [qry2 |-> <<>>, s0 |-> Cleared, s1 |-> Cleared, s2 |-> Cleared,
            delay |-> << <<>>, <<>>, <<>> >>, resp |-> <<>>]
  /\ tb = <<>>

Next == Ask \/ Idle

-----------------------------------------------------------------------------
\* No stage of the network loses, doubles or tears an entry: each holds the
\* list of a query that is in flight, or none.
NetworkKeepsEntries ==
  \A s \in {reg.s0, reg.s1, reg.s2} :
    s = Cleared \/ \E i \in DOMAIN tb : Pairs(s) = Pairs(tb[i].t)

\* The network compares keys and not valid bits.  A valid key 0 is lost among
\* the entries that are free, and a query of its rank or beyond may find it or
\* one of them.
AmongFree(q) ==
  /\ Hit(q.t, 0) # {} /\ Vld(q.t) # Slot
  /\ q.level >= Cardinality(Vld(q.t)) - 1

\* m_query_checker: a response is waited for, and is that of the machine model
\* (sorted_lists.cpp:401-411).
Validated == reg.resp # <<>> => tb # <<>> /\ Same(reg.resp[1], Expected(Head(tb)))

\* m_query_checker: queries are answered in order, each with the entry that
\* has the rank that was asked for, whatever queries are around it, and no
\* response is left out.
AnswersAsExpected ==
  /\ reg.resp # <<>> =>
       /\ tb # <<>>
       /\ LET resp == reg.resp[1]
              q == Head(tb)
          IN  IF AmongFree(q) THEN resp.error \/ resp.key = 0 ELSE Same(resp, Expected(q))
  /\ Len(tb) = Len(reg.qry2 \o reg.delay[1] \o reg.delay[2] \o reg.delay[3] \o reg.resp)
=============================================================================
