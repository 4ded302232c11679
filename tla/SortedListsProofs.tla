------------------------- MODULE SortedListsProofs --------------------------
(***************************************************************************)
(* Proofs about sorted_lists, for any lists of any length, any updates and *)
(* queries, and any contents at power-up.  The machine model is matched    *)
(* provided that the tables power up without double keys.                  *)
(*                                                                         *)
(* First, what executing an update does to a list of any length, and that  *)
(* the machine model's set of pairs follows it.  The list finds an entry   *)
(* by a first free slot or by one slot that was hit; the set knows no      *)
(* slots.  They agree on every list in which no two valid entries have one *)
(* key.                                                                    *)
(***************************************************************************)
EXTENDS SortedLists, FiniteSetTheorems, WellFoundedInduction, TLAPS

\* No two valid entries of t have one key: Hit is one-hot.
DistinctKeys(t) == \A e, f \in Vld(t) : t[e].key = t[f].key => e = f

\* An update that may be sent to a list with the pairs ps.
MayUpdate(ps, u) == u.op = "OP_ADD" => ~HasKey(ps, u.key)

-----------------------------------------------------------------------------
(* The slots that the execute stage chooses.                               *)

LEMMA LessOnNat == IsWellFoundedOn({p \in Nat \X Nat : p[1] < p[2]}, Nat)
<1>1. {p \in Nat \X Nat : p[1] < p[2]} = OpToRel(<, Nat)
  BY DEF OpToRel
<1>2. QED
  BY <1>1, NatLessThanWellFounded

\* A set of slots that is not empty has a first one.
LEMMA FirstSlot ==
  ASSUME NEW T \in SUBSET Slot, T # {}
  PROVE  \E e \in T : \A f \in T : e <= f
<1>1. T \subseteq Nat
  BY EntriesAssumption DEF Slot
<1>2. PICK e \in T : \A f \in T : ~(<<f, e>> \in {p \in Nat \X Nat : p[1] < p[2]})
  <2> DEFINE R == {p \in Nat \X Nat : p[1] < p[2]}
  <2>1. IsWellFoundedOn(R, Nat)
    BY LessOnNat
  <2> HIDE DEF R
  <2>2. \E x \in T : \A y \in T : ~(<<y, x>> \in R)
    BY <1>1, <2>1, WFMin
  <2>3. QED
    BY <2>2 DEF R
<1>3. ASSUME NEW f \in T
      PROVE  e <= f
  <2>1. e \in Nat /\ f \in Nat /\ ~(<<f, e>> \in {p \in Nat \X Nat : p[1] < p[2]})
    BY <1>1, <1>2
  <2>2. ~(f < e)
    BY <2>1
  <2>3. QED
    BY <2>1, <2>2
<1>4. QED
  BY <1>3

LEMMA FreeSlot ==
  ASSUME NEW t \in List, Vld(t) # Slot
  PROVE  VldNotSet(t) \in Slot \ Vld(t)
<1>1. Slot \ Vld(t) # {} /\ Slot \ Vld(t) \in SUBSET Slot
  BY DEF Vld
<1>2. \E e \in Slot \ Vld(t) : \A f \in Slot \ Vld(t) : e <= f
  BY <1>1, FirstSlot
<1>3. QED
  BY <1>2 DEF VldNotSet

LEMMA ZeroIsSlot == 0 \in Slot
  BY EntriesAssumption DEF Slot

LEMMA HitSlot ==
  ASSUME NEW t, NEW k
  PROVE  /\ HitIndex(t, k) \in Slot
         /\ Hit(t, k) # {} => HitIndex(t, k) \in Hit(t, k)
<1>1. Hit(t, k) # {} => (CHOOSE e \in Hit(t, k) : TRUE) \in Hit(t, k)
  OBVIOUS
<1>2. Hit(t, k) \subseteq Slot
  BY DEF Hit
<1>3. QED
  BY <1>1, <1>2, ZeroIsSlot DEF HitIndex
-----------------------------------------------------------------------------
(* The entries after an update, slot by slot.                              *)

LEMMA ClearedIsList == Cleared \in List
  BY KeyAssumption DEF Cleared, List, Entry

LEMMA ClearedEntries ==
  ASSUME NEW t \in List, NEW u \in Update, u.op = "OP_CLEAR"
  PROVE  Executed(t, u) = Cleared
  BY DEF Executed, Error

LEMMA AddedEntries ==
  ASSUME NEW t \in List, NEW u \in Update, u.op = "OP_ADD", Vld(t) # Slot
  PROVE  \E s \in Slot \ Vld(t) :
           Executed(t, u) =
             [t EXCEPT ![s] = [vld |-> TRUE, key |-> u.key, size |-> u.size]]
  BY FreeSlot DEF Executed, Error

LEMMA DeletedEntries ==
  ASSUME NEW t \in List, NEW u \in Update, u.op = "OP_DELETE", Hit(t, u.key) # {}
  PROVE  \E s \in Hit(t, u.key) :
           Executed(t, u) = [t EXCEPT ![s].vld = FALSE, ![s].key = 0]
  BY HitSlot DEF Executed, Error

LEMMA ReplacedEntries ==
  ASSUME NEW t \in List, NEW u \in Update, u.op = "OP_REPLACE", Hit(t, u.key) # {}
  PROVE  \E s \in Hit(t, u.key) : Executed(t, u) = [t EXCEPT ![s].size = u.size]
  BY HitSlot DEF Executed, Error

\* The only other case: an update in error.
LEMMA NothingExecuted ==
  ASSUME NEW t, NEW u, Error(t, u)
  PROVE  Executed(t, u) = t
  BY DEF Executed

LEMMA ErrorCases ==
  ASSUME NEW t \in List, NEW u \in Update
  PROVE  \/ Error(t, u)
         \/ u.op = "OP_CLEAR"
         \/ u.op = "OP_ADD" /\ Vld(t) # Slot
         \/ u.op = "OP_DELETE" /\ Hit(t, u.key) # {}
         \/ u.op = "OP_REPLACE" /\ Hit(t, u.key) # {}
  BY DEF Error, Update, UpdateOp

\* A list stays a list.
LEMMA ExecutedType ==
  ASSUME NEW t \in List, NEW u \in Update
  PROVE  Executed(t, u) \in List
<1>1. u.key \in Keys /\ u.size \in Sizes
  BY DEF Update
<1>2. CASE Error(t, u)
  BY <1>2, NothingExecuted
<1>3. CASE u.op = "OP_CLEAR"
  BY <1>3, ClearedEntries, ClearedIsList
<1>4. CASE u.op = "OP_ADD" /\ Vld(t) # Slot
  <2>1. PICK s \in Slot \ Vld(t) :
          Executed(t, u) =
            [t EXCEPT ![s] = [vld |-> TRUE, key |-> u.key, size |-> u.size]]
    BY <1>4, AddedEntries
  <2>2. QED
    BY <1>1, <2>1 DEF List, Entry
<1>5. CASE u.op = "OP_DELETE" /\ Hit(t, u.key) # {}
  <2>1. PICK s \in Hit(t, u.key) :
          Executed(t, u) = [t EXCEPT ![s].vld = FALSE, ![s].key = 0]
    BY <1>5, DeletedEntries
  <2>2. QED
    BY <2>1, KeyAssumption DEF List, Entry, Hit
<1>6. CASE u.op = "OP_REPLACE" /\ Hit(t, u.key) # {}
  <2>1. PICK s \in Hit(t, u.key) : Executed(t, u) = [t EXCEPT ![s].size = u.size]
    BY <1>6, ReplacedEntries
  <2>2. QED
    BY <1>1, <2>1 DEF List, Entry, Hit
<1>7. QED
  BY <1>2, <1>3, <1>4, <1>5, <1>6, ErrorCases
-----------------------------------------------------------------------------
(* The machine model's set of pairs.                                       *)

LEMMA PairsType == ASSUME NEW t \in List PROVE Pairs(t) \in SUBSET Pair
  BY DEF Pairs, Pair, List, Entry, Vld

\* With distinct keys a list has as many pairs as valid entries.
LEMMA PairsCount ==
  ASSUME NEW t \in List, DistinctKeys(t)
  PROVE  Cardinality(Pairs(t)) = Cardinality(Vld(t)) /\ IsFiniteSet(Vld(t))
<1>1. IsFiniteSet(Vld(t))
  <2>1. IsFiniteSet(Slot)
    BY EntriesAssumption, FS_Interval DEF Slot
  <2>2. Vld(t) \in SUBSET Slot
    BY DEF Vld
  <2>3. QED
    BY <2>1, <2>2, FS_Subset
<1>2. ExistsBijection(Vld(t), Pairs(t))
  <2> DEFINE f == [e \in Vld(t) |-> [key |-> t[e].key, size |-> t[e].size]]
  <2>1. f \in [Vld(t) -> Pairs(t)]
    BY DEF Pairs
  <2>2. \A p \in Pairs(t) : \E e \in Vld(t) : f[e] = p
    BY DEF Pairs
  <2>3. \A e, g \in Vld(t) : f[e] = f[g] => e = g
    BY DEF DistinctKeys
  <2>4. f \in Bijection(Vld(t), Pairs(t))
    BY <2>1, <2>2, <2>3 DEF Bijection, Injection, Surjection, IsInjective
  <2>5. QED
    BY <2>4 DEF ExistsBijection
<1>3. QED
  BY <1>1, <1>2, FS_Bijection

\* The machine model has room exactly when the list has a free slot.
LEMMA RoomIsFreeSlot ==
  ASSUME NEW t \in List, DistinctKeys(t)
  PROVE  Cardinality(Pairs(t)) < N <=> Vld(t) # Slot
<1>1. IsFiniteSet(Slot) /\ Cardinality(Slot) = N
  BY EntriesAssumption, FS_Interval DEF Slot
<1>2. Vld(t) \in SUBSET Slot
  BY DEF Vld
<1>3. /\ Cardinality(Vld(t)) <= N
      /\ Cardinality(Vld(t)) = N => Vld(t) = Slot
  BY <1>1, <1>2, FS_Subset
<1>4. Cardinality(Vld(t)) \in Nat
  BY <1>1, <1>2, FS_Subset, FS_CardinalityType
<1>5. Cardinality(Vld(t)) < N <=> Vld(t) # Slot
  BY <1>1, <1>3, <1>4, EntriesAssumption
<1>6. QED
  BY <1>5, PairsCount

\* A list has a pair with key k exactly when some entry is hit.
LEMMA HasKeyIsHit ==
  ASSUME NEW t, NEW k
  PROVE  HasKey(Pairs(t), k) <=> Hit(t, k) # {}
<1>1. ASSUME HasKey(Pairs(t), k)
      PROVE  Hit(t, k) # {}
  <2>1. PICK p \in Pairs(t) : p.key = k
    BY <1>1 DEF HasKey
  <2>2. PICK e \in Vld(t) : p = [key |-> t[e].key, size |-> t[e].size]
    BY DEF Pairs
  <2>3. e \in Hit(t, k)
    BY <2>1, <2>2 DEF Hit, Vld
  <2>4. QED
    BY <2>3
<1>2. ASSUME NEW e \in Hit(t, k)
      PROVE  HasKey(Pairs(t), k)
  <2> DEFINE p == [key |-> t[e].key, size |-> t[e].size]
  <2>1. p \in Pairs(t) /\ p.key = k
    BY DEF Pairs, Hit, Vld
  <2>2. QED
    BY <2>1 DEF HasKey
<1>3. QED
  BY <1>1, <1>2

\* Distinct keys stay distinct, provided no key is added that is there.
LEMMA KeysStayDistinct ==
  ASSUME NEW t \in List, NEW u \in Update, DistinctKeys(t), MayUpdate(Pairs(t), u)
  PROVE  DistinctKeys(Executed(t, u))
<1>1. CASE Error(t, u)
  BY <1>1, NothingExecuted
<1>2. CASE u.op = "OP_CLEAR"
  BY <1>2, ClearedEntries DEF DistinctKeys, Vld, Cleared
<1>3. CASE u.op = "OP_ADD" /\ Vld(t) # Slot
  <2>1. PICK s \in Slot \ Vld(t) :
          Executed(t, u) =
            [t EXCEPT ![s] = [vld |-> TRUE, key |-> u.key, size |-> u.size]]
    BY <1>3, AddedEntries
  <2>2. Hit(t, u.key) = {}
    BY <1>3, HasKeyIsHit DEF MayUpdate
  <2>3. QED
    BY <2>1, <2>2 DEF DistinctKeys, Vld, Hit, List
<1>4. CASE u.op = "OP_DELETE" /\ Hit(t, u.key) # {}
  <2>1. PICK s \in Hit(t, u.key) :
          Executed(t, u) = [t EXCEPT ![s].vld = FALSE, ![s].key = 0]
    BY <1>4, DeletedEntries
  <2>2. QED
    BY <2>1 DEF DistinctKeys, Vld, Hit, List, Entry
<1>5. CASE u.op = "OP_REPLACE" /\ Hit(t, u.key) # {}
  <2>1. PICK s \in Hit(t, u.key) : Executed(t, u) = [t EXCEPT ![s].size = u.size]
    BY <1>5, ReplacedEntries
  <2>2. QED
    BY <2>1 DEF DistinctKeys, Vld, Hit, List, Entry
<1>6. QED
  BY <1>1, <1>2, <1>3, <1>4, <1>5, ErrorCases

\* The machine model follows the list: the pairs after an update are the
\* model's update of the pairs before it, whichever slot was chosen, updates
\* in error included.
LEMMA ModelFollowsList ==
  ASSUME NEW t \in List, NEW u \in Update, DistinctKeys(t), MayUpdate(Pairs(t), u)
  PROVE  Pairs(Executed(t, u)) = ModelUpdated(Pairs(t), u)
<1>0. u.op \in UpdateOp /\ u.key \in Keys /\ u.size \in Sizes
  BY DEF Update
<1>1. CASE Error(t, u)
  <2>1. CASE u.op = "OP_ADD"
    BY <1>1, <2>1, NothingExecuted, RoomIsFreeSlot DEF Error, ModelUpdated
  <2>2. CASE u.op \in {"OP_DELETE", "OP_REPLACE"}
    <3>1. \A p \in Pairs(t) : p.key # u.key
      BY <1>1, <2>2, HasKeyIsHit DEF Error, HasKey
    <3>2. QED
      BY <1>1, <2>2, <3>1, NothingExecuted DEF ModelUpdated
  <2>3. QED
    BY <1>0, <1>1, <2>1, <2>2 DEF UpdateOp, Error
<1>2. CASE u.op = "OP_CLEAR"
  BY <1>2, ClearedEntries DEF Pairs, Vld, Cleared, ModelUpdated
<1>3. CASE u.op = "OP_ADD" /\ Vld(t) # Slot
  <2>1. PICK s \in Slot \ Vld(t) :
          Executed(t, u) =
            [t EXCEPT ![s] = [vld |-> TRUE, key |-> u.key, size |-> u.size]]
    BY <1>3, AddedEntries
  <2>2. ModelUpdated(Pairs(t), u) = Pairs(t) \cup {[key |-> u.key, size |-> u.size]}
    BY <1>3, RoomIsFreeSlot DEF ModelUpdated
  <2>3. QED
    BY <2>1, <2>2 DEF Pairs, Vld, List
<1>4. CASE u.op = "OP_DELETE" /\ Hit(t, u.key) # {}
  <2>1. PICK s \in Hit(t, u.key) :
          Executed(t, u) = [t EXCEPT ![s].vld = FALSE, ![s].key = 0]
    BY <1>4, DeletedEntries
  <2>2. ModelUpdated(Pairs(t), u) = {p \in Pairs(t) : p.key # u.key}
    BY <1>4 DEF ModelUpdated
  <2>3. QED
    BY <2>1, <2>2 DEF Pairs, Vld, Hit, DistinctKeys, List, Entry
<1>5. CASE u.op = "OP_REPLACE" /\ Hit(t, u.key) # {}
  <2>1. PICK s \in Hit(t, u.key) : Executed(t, u) = [t EXCEPT ![s].size = u.size]
    BY <1>5, ReplacedEntries
  <2>2. ModelUpdated(Pairs(t), u) =
          {IF p.key = u.key THEN [p EXCEPT !.size = u.size] ELSE p : p \in Pairs(t)}
    BY <1>5 DEF ModelUpdated
  <2> DEFINE x == Executed(t, u)
             Of(y, e) == [key |-> y[e].key, size |-> y[e].size]
  <2>3. Vld(x) = Vld(t) /\ s \in Vld(t) /\ t[s].key = u.key
    BY <2>1 DEF Vld, Hit, List, Entry
  <2>4. \A e \in Vld(t) :
          Of(x, e) = IF Of(t, e).key = u.key THEN [Of(t, e) EXCEPT !.size = u.size]
                                             ELSE Of(t, e)
    <3> SUFFICES ASSUME NEW e \in Vld(t)
                 PROVE  Of(x, e) = IF t[e].key = u.key
                                   THEN [key |-> t[e].key, size |-> u.size]
                                   ELSE Of(t, e)
      OBVIOUS
    <3>1. CASE e = s
      BY <2>1, <2>3, <3>1 DEF Vld, List, Entry
    <3>2. CASE e # s
      BY <2>1, <2>3, <3>2 DEF Vld, List, Entry, DistinctKeys
    <3>3. QED
      BY <3>1, <3>2
  <2>5. Pairs(x) = {Of(x, e) : e \in Vld(t)} /\ Pairs(t) = {Of(t, e) : e \in Vld(t)}
    BY <2>3 DEF Pairs
  <2> HIDE DEF x, Of
  <2>6. Pairs(x) =
          {IF p.key = u.key THEN [p EXCEPT !.size = u.size] ELSE p : p \in Pairs(t)}
    BY <2>4, <2>5
  <2>7. QED
    BY <2>2, <2>6 DEF x
<1>6. QED
  BY <1>1, <1>2, <1>3, <1>4, <1>5, ErrorCases

-----------------------------------------------------------------------------
(* Types.                                                                  *)

\* The registers TypeOK leaves out.
ModelTypes ==
  /\ qry0 \in Optional(Query) /\ qry1 \in Optional(Query)
  /\ model \in [Lists -> SUBSET Pair]

\* No register's contents is mistaken for a register that holds nothing.
LEMMA HeldIsNotEmpty ==
  /\ \A u \in Update : Holds(u)
  /\ \A q \in Query : Holds(q)
  /\ \A t : Holds([t |-> t])
  /\ \A u, t : Holds([u |-> u, t |-> t])
  /\ \A u, t, e, h : Holds([u |-> u, t |-> t, error |-> e, hit |-> h])
  BY DEF Holds, Empty, Update, Query

\* What stage 1 hands to stage 2, which is always something.
Handed == Holds(upt1) => Holds(wrbk) \/ Holds(upt_dout)
LookedUp == Holds(qry1) => Holds(qry_dout)

LEMMA WrittenType ==
  ASSUME TypeOK
  PROVE  Written(upt_table) \in [Lists -> List]
<1>1. CASE Holds(upt3)
  <2>1. upt3.u.id \in Lists /\ upt3.t \in List
    BY <1>1 DEF TypeOK, Optional, Holds, Update
  <2>2. QED
    BY <2>1 DEF Written, TypeOK
<1>2. CASE ~Holds(upt3)
  BY <1>2 DEF Written, TypeOK
<1>3. QED
  BY <1>1, <1>2

LEMMA ListsInFlightTypes ==
  ASSUME TypeOK, Handed
  PROVE  /\ Holds(upt1) => upt_2_t \in List
         /\ Holds(upt2) => upt_2_t_fwd \in List
<1>1. ASSUME Holds(upt1)
      PROVE  upt_2_t \in List
  <2>1. Holds(upt3) => upt3.t \in List
    BY DEF TypeOK, Optional, Holds
  <2>2. Holds(wrbk) => wrbk.t \in List
    BY DEF TypeOK, Optional, Holds
  <2>3. Holds(upt_dout) => upt_dout.t \in List
    BY DEF TypeOK, Optional, Holds
  <2>4. QED
    BY <1>1, <2>1, <2>2, <2>3 DEF upt_2_t, Handed
<1>2. ASSUME Holds(upt2)
      PROVE  upt_2_t_fwd \in List
  BY <1>2 DEF upt_2_t_fwd, TypeOK, Optional, Holds
<1>3. QED
  BY <1>1, <1>2

\* What every step does to the update pipeline.
LEMMA UpdatesAdvance ==
  ASSUME Next
  PROVE  \E u \in Optional(Update) :
           /\ AdvanceUpdates(u)
           /\ \/ u = Empty /\ model' = model
              \/ /\ u \in Update
                 /\ u.op = "OP_ADD" => ~HasKey(model[u.id], u.key)
                 /\ model' = [model EXCEPT ![u.id] = ModelUpdated(@, u)]
<1>1. CASE IssueUpdate
  BY <1>1, StimulusAssumption, Zenon DEF IssueUpdate, Optional
<1>2. CASE NoUpdate
  BY <1>2 DEF NoUpdate, Optional
<1>3. QED
  BY <1>1, <1>2 DEF Next

LEMMA QueriesAdvance ==
  ASSUME Next
  PROVE  \/ AdvanceQueries(Empty)
         \/ \E id \in Lists : /\ ~BeingModified(id)
                              /\ AdvanceQueries([id |-> id, want |-> model[id]])
  BY StimulusAssumption DEF Next, IssueQuery, NoQuery

\* TypeOK with what its proof needs: a stage that holds a command has a list
\* to hand on.
Types == TypeOK /\ ModelTypes /\ Handed /\ LookedUp

LEMMA TypesPreserved == Types /\ [Next]_vars => Types'
<1> SUFFICES ASSUME Types, [Next]_vars
             PROVE  Types'
  OBVIOUS
<1>1. CASE UNCHANGED vars
  BY <1>1 DEF vars, Types, TypeOK, ModelTypes, Handed, LookedUp
<1>2. CASE Next
  <2>1. PICK u \in Optional(Update) :
          /\ AdvanceUpdates(u)
          /\ \/ u = Empty /\ model' = model
             \/ /\ u \in Update
                /\ u.op = "OP_ADD" => ~HasKey(model[u.id], u.key)
                /\ model' = [model EXCEPT ![u.id] = ModelUpdated(@, u)]
    BY <1>2, UpdatesAdvance
  <2>2. AccessTables /\ Notify
    BY <1>2 DEF Next
  <2>3. Written(upt_table) \in [Lists -> List]
    BY WrittenType DEF Types
  <2>4. upt0' \in Optional(Update) /\ upt1' \in Optional(Update)
    BY <2>1 DEF AdvanceUpdates, Types, TypeOK
  <2>5. upt2' \in Optional([u : Update, t : List])
    <3>1. CASE Holds(upt1)
      BY <2>1, <3>1, ListsInFlightTypes
         DEF AdvanceUpdates, Types, TypeOK, Optional, Holds
    <3>2. CASE ~Holds(upt1)
      BY <2>1, <3>2 DEF AdvanceUpdates, Optional
    <3>3. QED
      BY <3>1, <3>2
  <2>6. upt3' \in Optional([u : Update, t : List, error : BOOLEAN, hit : Slot])
    <3>1. CASE Holds(upt2)
      <4>1. upt2.u \in Update /\ upt_2_t_fwd \in List
        BY <3>1, ListsInFlightTypes DEF Types, TypeOK, Optional, Holds
      <4>2. Executed(upt_2_t_fwd, upt2.u) \in List
        BY <4>1, ExecutedType
      <4>3. Error(upt_2_t_fwd, upt2.u) \in BOOLEAN
        BY <4>1 DEF Error, Update, UpdateOp
      <4>4. HitIndex(upt_2_t_fwd, upt2.u.key) \in Slot
        BY HitSlot
      <4>5. upt3' = [u |-> upt2.u, t |-> Executed(upt_2_t_fwd, upt2.u),
                     error |-> Error(upt_2_t_fwd, upt2.u),
                     hit |-> HitIndex(upt_2_t_fwd, upt2.u.key)]
        BY <2>1, <3>1 DEF AdvanceUpdates
      <4>6. QED
        BY <4>1, <4>2, <4>3, <4>4, <4>5 DEF Optional
    <3>2. CASE ~Holds(upt2)
      BY <2>1, <3>2 DEF AdvanceUpdates, Optional
    <3>3. QED
      BY <3>1, <3>2
  <2>7. wrbk' \in Optional([t : List])
    BY <2>1 DEF AdvanceUpdates, wrbk_vld_w, Types, TypeOK, Optional, Holds
  <2>8. upt_dout' \in Optional([t : List])
    BY <2>2 DEF AccessTables, ReadTables, Types, TypeOK, Optional, Holds, Update
  <2>9. qry_dout' \in Optional([t : List])
    BY <2>2 DEF AccessTables, ReadTables, Types, ModelTypes, TypeOK, Optional,
                Holds, Query
  <2>10. upt_table' \in [Lists -> List]
    BY <2>2, <2>3 DEF AccessTables
  <2>11. qry_table' \in [Lists -> List]
    <3>1. CASE Holds(upt3)
      <4>1. upt3.u.id \in Lists /\ upt3.t \in List
        BY <3>1 DEF Types, TypeOK, Optional, Holds, Update
      <4>2. QED
        BY <2>2, <4>1 DEF AccessTables, Written, Types, TypeOK
    <3>2. CASE ~Holds(upt3)
      BY <2>2, <3>2 DEF AccessTables, Written, Types, TypeOK
    <3>3. QED
      BY <3>1, <3>2
  <2>12. ntf' \in Optional([id : Lists, key : Keys, size : Sizes])
    <3>1. CASE Holds(upt3)
      <4>1. upt3.u.id \in Lists /\ upt3.t \in List /\ upt3.hit \in Slot
        BY <3>1 DEF Types, TypeOK, Optional, Holds, Update
      <4>2. upt3.t[upt3.hit].key \in Keys /\ upt3.t[upt3.hit].size \in Sizes
        BY <4>1 DEF List, Entry
      <4>3. QED
        BY <2>2, <4>1, <4>2 DEF Notify, Optional
    <3>2. CASE ~Holds(upt3)
      BY <2>2, <3>2 DEF Notify, ntf_vld_w, Optional
    <3>3. QED
      BY <3>1, <3>2
  <2>13. model' \in [Lists -> SUBSET Pair]
    <3>1. CASE model' = model
      BY <3>1 DEF Types, ModelTypes
    <3>2. CASE /\ u \in Update
               /\ model' = [model EXCEPT ![u.id] = ModelUpdated(@, u)]
      <4>1. model[u.id] \in SUBSET Pair /\ u.id \in Lists
        BY <3>2 DEF Types, ModelTypes, Update
      <4>2. ModelUpdated(model[u.id], u) \in SUBSET Pair
        BY <3>2, <4>1 DEF ModelUpdated, Pair, Update, UpdateOp
      <4>3. QED
        BY <3>2, <4>1, <4>2 DEF Types, ModelTypes
    <3>3. QED
      BY <2>1, <3>1, <3>2
  <2>14. qry0' \in Optional(Query) /\ qry1' \in Optional(Query)
    BY <1>2, QueriesAdvance DEF AdvanceQueries, Types, ModelTypes, Optional, Query
  <2>15. Handed'
    BY <2>1, <2>2, HeldIsNotEmpty
       DEF AdvanceUpdates, AccessTables, ReadTables, Handed, Holds
  <2>16. LookedUp'
    BY <1>2, <2>2, QueriesAdvance, HeldIsNotEmpty
       DEF AdvanceQueries, AccessTables, ReadTables, LookedUp, Holds
  <2>17. QED
    BY <2>4, <2>5, <2>6, <2>7, <2>8, <2>9, <2>10, <2>11, <2>12, <2>13, <2>14,
       <2>15, <2>16
       DEF Types, TypeOK, ModelTypes
<1>3. QED
  BY <1>1, <1>2

LEMMA TypesInit == Init => Types
<1> SUFFICES ASSUME Init
             PROVE  Types
  OBVIOUS
<1>1. upt_table \in [Lists -> List]
  BY PowerUpAssumption DEF Init
<1>2. model \in [Lists -> SUBSET Pair]
  BY <1>1, PairsType DEF Init
<1>3. QED
  BY <1>1, <1>2 DEF Init, Types, TypeOK, ModelTypes, Handed, LookedUp, Holds, Optional

\* Every register always holds what its declaration says, whatever is updated
\* and queried in whatever order: a hit is the index
\* of a slot though no entry may have been hit, and an update in error leaves
\* a list.
THEOREM TypeCorrect == Spec => []TypeOK
<1>1. Types => TypeOK
  BY DEF Types
<1>2. QED
  BY <1>1, TypesInit, TypesPreserved, PTL DEF Spec

-----------------------------------------------------------------------------
(* Forwarding: an update executes on the table's list.                     *)

\* Stage 1 has been handed the list that the table now holds, by the RAM or
\* by the write that the read collided with, and stage 2 has, too: what may
\* still be missing is the one write of stage 3.
ForwardingInv ==
  /\ Holds(upt1) => (IF Holds(wrbk) THEN wrbk.t ELSE upt_dout.t) = upt_table[upt1.id]
  /\ Holds(upt2) => upt2.t = upt_table[upt2.u.id]

\* So the lists handed on are those of the table with that write in it.
LEMMA OperandsCurrent ==
  ASSUME Types, ForwardingInv
  PROVE  /\ Holds(upt1) => upt_2_t = Written(upt_table)[upt1.id]
         /\ Holds(upt2) => upt_2_t_fwd = Written(upt_table)[upt2.u.id]
<1>1. upt_table \in [Lists -> List]
  BY DEF Types, TypeOK
<1>2. Holds(upt3) => upt3.u.id \in Lists
  BY DEF Types, TypeOK, Optional, Holds, Update
<1>3. ASSUME Holds(upt1)
      PROVE  upt_2_t = Written(upt_table)[upt1.id]
  BY <1>1, <1>2, <1>3 DEF upt_2_t, Written, ForwardingInv
<1>4. ASSUME Holds(upt2)
      PROVE  upt_2_t_fwd = Written(upt_table)[upt2.u.id]
  BY <1>1, <1>2, <1>4 DEF upt_2_t_fwd, Written, ForwardingInv
<1>5. QED
  BY <1>3, <1>4

LEMMA ForwardingPreserved ==
  ASSUME Types, ForwardingInv, [Next]_vars
  PROVE  ForwardingInv'
<1>1. CASE UNCHANGED vars
  BY <1>1 DEF vars, ForwardingInv
<1>2. CASE Next
  <2>1. PICK u : AdvanceUpdates(u)
    BY <1>2, UpdatesAdvance
  <2>2. AccessTables
    BY <1>2 DEF Next
  <2>3. upt_table' = Written(upt_table)
    BY <2>2 DEF AccessTables
  <2>4. ASSUME Holds(upt0)
        PROVE  (IF Holds(wrbk') THEN wrbk'.t ELSE upt_dout'.t) = upt_table'[upt0.id]
    <3>1. upt0.id \in Lists /\ upt_table \in [Lists -> List]
      BY <2>4 DEF Types, TypeOK, Optional, Holds, Update
    <3>2. CASE wrbk_vld_w
      <4>1. wrbk' = [t |-> upt3.t] /\ Holds(wrbk')
        BY <2>1, <3>2, HeldIsNotEmpty DEF AdvanceUpdates
      <4>2. QED
        BY <2>3, <3>1, <3>2, <4>1 DEF wrbk_vld_w, Written
    <3>3. CASE ~wrbk_vld_w
      <4>1. ~Holds(wrbk') /\ upt_dout' = [t |-> upt_table[upt0.id]]
        BY <2>1, <2>2, <2>4, <3>3 DEF AdvanceUpdates, AccessTables, ReadTables, Holds
      <4>2. Written(upt_table)[upt0.id] = upt_table[upt0.id]
        BY <2>4, <3>1, <3>3 DEF wrbk_vld_w, Written
      <4>3. QED
        BY <2>3, <4>1, <4>2
    <3>4. QED
      BY <3>2, <3>3
  <2>5. ASSUME Holds(upt2')
        PROVE  upt2'.t = upt_table'[upt2'.u.id]
    <3>1. Holds(upt1) /\ upt2' = [u |-> upt1, t |-> upt_2_t]
      BY <2>1, <2>5 DEF AdvanceUpdates, Holds
    <3>2. QED
      BY <2>3, <3>1, OperandsCurrent
  <2>6. QED
    BY <2>1, <2>4, <2>5 DEF ForwardingInv, AdvanceUpdates, Holds
<1>3. QED
  BY <1>1, <1>2

LEMMA ForwardingInit == Init => ForwardingInv
  BY DEF Init, ForwardingInv, Holds

\* The update that enters stage 3 has executed on the table's list.
LEMMA ExecuteStep ==
  ASSUME Types, ForwardingInv, NEW u, AdvanceUpdates(u), AccessTables, Holds(upt2)
  PROVE  LET w == Written(upt_table)[upt2.u.id]
         IN  /\ Holds(upt3')
             /\ upt3'.u = upt2.u
             /\ upt3'.error = Error(w, upt2.u)
             /\ Written(upt_table)' =
                  [Written(upt_table) EXCEPT ![upt2.u.id] = Executed(w, upt2.u)]
<1>1. upt_2_t_fwd = Written(upt_table)[upt2.u.id]
  BY OperandsCurrent
<1> DEFINE w == Written(upt_table)[upt2.u.id]
<1>2. upt3' = [u |-> upt2.u, t |-> Executed(w, upt2.u), error |-> Error(w, upt2.u),
               hit |-> HitIndex(w, upt2.u.key)]
  BY <1>1 DEF AdvanceUpdates
<1>3. Holds(upt3')
  BY <1>2, HeldIsNotEmpty
<1>4. upt_table' = Written(upt_table)
  BY DEF AccessTables
<1>5. Written(upt_table)' = [upt_table' EXCEPT ![upt3'.u.id] = upt3'.t]
  BY <1>3 DEF Written, Holds
<1>6. QED
  BY <1>2, <1>3, <1>4, <1>5

\* Otherwise the table stays as it is.
LEMMA NoExecuteStep ==
  ASSUME NEW u, AdvanceUpdates(u), AccessTables, ~Holds(upt2)
  PROVE  ~Holds(upt3') /\ Written(upt_table)' = Written(upt_table)
  BY DEF AdvanceUpdates, AccessTables, Written, Holds

-----------------------------------------------------------------------------
(* The refinement.                                                         *)

\* The list table's operators are those of the pipeline's own package.
LEMMA SameOperators ==
  /\ Table!List = List /\ Table!Update = Update
  /\ \A t, u : Table!Executed(t, u) = Executed(t, u)
  /\ \A t, u : Table!Error(t, u) = Error(t, u)
<1>1. Table!List = List /\ Table!Update = Update
  BY DEF Table!List, List, Table!Slot, Slot, Table!Entry, Entry, Table!Update,
         Update, Table!UpdateOp, UpdateOp
<1>2. /\ \A t : Table!VldNotSet(t) = VldNotSet(t)
      /\ \A t, k : Table!Hit(t, k) = Hit(t, k)
      /\ \A t : Table!Vld(t) = Vld(t)
      /\ Table!Slot = Slot
      /\ Table!Cleared = Cleared
  BY DEF Table!VldNotSet, VldNotSet, Table!Vld, Vld, Table!Slot, Slot, Table!Hit, Hit,
         Table!Cleared, Cleared
<1>3. ASSUME NEW t, NEW k
      PROVE  Table!HitIndex(t, k) = HitIndex(t, k)
  BY DEF Table!HitIndex, HitIndex, Table!Hit, Hit, Table!Slot, Slot
<1>4. \A t, u : Table!Error(t, u) = Error(t, u)
  BY <1>2 DEF Table!Error, Error
<1>5. ASSUME NEW t, NEW u
      PROVE  Table!Executed(t, u) = Executed(t, u)
  BY Zenon DEF Table!Executed, Executed, Table!Error, Error, Table!HitIndex, HitIndex,
         Table!VldNotSet, VldNotSet, Table!Vld, Vld, Table!Slot, Slot, Table!Hit, Hit,
         Table!Cleared, Cleared
<1>6. QED
  BY <1>1, <1>4, <1>5

\* Each step of the pipeline executes the update of stage 2 on the table, whole
\* and in its turn, and moves the two younger ones up.
LEMMA TableStep ==
  ASSUME Types, ForwardingInv, Next
  PROVE  Table!ListNext
<1>1. PICK u \in Optional(Update) : AdvanceUpdates(u)
  BY UpdatesAdvance
<1>2. AccessTables
  BY DEF Next
<1>3. Table!Execute(tableLine[3])
  <2>1. CASE Holds(upt2)
    <3>1. upt2.u \in Update
      BY <2>1 DEF Types, TypeOK, Optional, Holds
    <3>2. tableLine[3] = upt2.u
      BY <2>1 DEF tableLine
    <3>3. upt2.u # Table!NoUpdate
      BY <3>1 DEF Table!NoUpdate, Update, UpdateOp
    <3>4. LET w == Written(upt_table)[upt2.u.id]
          IN  /\ Holds(upt3')
              /\ upt3'.u = upt2.u
              /\ upt3'.error = Error(w, upt2.u)
              /\ Written(upt_table)' =
                   [Written(upt_table) EXCEPT ![upt2.u.id] = Executed(w, upt2.u)]
      BY <1>1, <1>2, <2>1, ExecuteStep
    <3>5. tableExecuted' =
            [op |-> upt2.u.op, id |-> upt2.u.id,
             error |-> Error(Written(upt_table)[upt2.u.id], upt2.u)]
      BY <3>4 DEF tableExecuted, Holds
    <3>6. QED
      BY <3>2, <3>3, <3>4, <3>5, SameOperators DEF Table!Execute
  <2>2. CASE ~Holds(upt2)
    <3>1. tableLine[3] = Table!NoUpdate
      BY <2>2 DEF tableLine, Table!NoUpdate
    <3>2. ~Holds(upt3') /\ Written(upt_table)' = Written(upt_table)
      BY <1>1, <1>2, <2>2, NoExecuteStep
    <3>3. tableExecuted' = Table!NoUpdate
      BY <3>2 DEF tableExecuted, Table!NoUpdate, Holds
    <3>4. QED
      BY <3>1, <3>2, <3>3 DEF Table!Execute
  <2>3. QED
    BY <2>1, <2>2
<1> DEFINE c == LineOf(u)
<1>4. c \in Update \cup {Table!NoUpdate}
  BY <1>1 DEF LineOf, Optional, Holds, Table!NoUpdate
<1>5. tableLine' = [i \in 1..3 |-> IF i = 1 THEN c ELSE tableLine[i - 1]]
  <2>1. tableLine'[1] = c
    BY <1>1 DEF tableLine, AdvanceUpdates, LineOf, Holds
  <2>2. tableLine'[2] = tableLine[1]
    BY <1>1 DEF tableLine, AdvanceUpdates, LineOf, Holds
  <2>3. tableLine'[3] = tableLine[2]
    <3>1. CASE Holds(upt1)
      <4>1. upt2' = [u |-> upt1, t |-> upt_2_t] /\ Holds(upt2')
        BY <1>1, <3>1, HeldIsNotEmpty DEF AdvanceUpdates
      <4>2. QED
        BY <3>1, <4>1 DEF tableLine, LineOf, Holds
    <3>2. CASE ~Holds(upt1)
      BY <1>1, <3>2 DEF tableLine, AdvanceUpdates, LineOf, Holds
    <3>3. QED
      BY <3>1, <3>2
  <2>4. tableLine' = [i \in 1..3 |-> tableLine'[i]]
    BY DEF tableLine
  <2>5. \A i \in 1..3 : i = 1 \/ i = 2 \/ i = 3
    OBVIOUS
  <2>6. \A i \in 1..3 : tableLine'[i] = IF i = 1 THEN c ELSE tableLine[i - 1]
    BY <2>1, <2>2, <2>3, <2>5
  <2>7. QED
    BY <2>4, <2>6
<1>6. QED
  BY <1>3, <1>4, <1>5, SameOperators DEF Table!ListNext, Table!Step

\* The pipeline is a table of lists on which the updates execute one at a
\* time, whole and in the order they were issued, each on the list that the
\* one before it left, back-to-back updates of one list included.
THEOREM PipelineImplementsListTable == Spec => ImplementsListTable
<1>1. Init => Types /\ ForwardingInv /\ Table!ListInit
  <2>1. ASSUME Init
        PROVE  Table!ListInit
    <3>1. upt_table \in [Lists -> List]
      BY <2>1, PowerUpAssumption DEF Init
    <3>2. ~Holds(upt0) /\ ~Holds(upt1) /\ ~Holds(upt2) /\ ~Holds(upt3)
      BY <2>1 DEF Init, Holds
    <3>3. Written(upt_table) = upt_table
      BY <3>2 DEF Written
    <3>4. tableLine = [i \in 1..3 |-> Table!NoUpdate]
      BY <3>2 DEF tableLine, LineOf, Table!NoUpdate
    <3>5. tableExecuted = Table!NoUpdate
      BY <3>2 DEF tableExecuted, Table!NoUpdate
    <3>6. QED
      BY <3>1, <3>3, <3>4, <3>5, SameOperators DEF Table!ListInit
  <2>2. QED
    BY <2>1, TypesInit, ForwardingInit
<1>2. /\ Types /\ ForwardingInv /\ [Next]_vars
      => Types' /\ ForwardingInv' /\ [Table!ListNext]_(Table!listVars)
  <2> SUFFICES ASSUME Types, ForwardingInv, [Next]_vars
               PROVE  Types' /\ ForwardingInv' /\ [Table!ListNext]_(Table!listVars)
    OBVIOUS
  <2>1. Types' /\ ForwardingInv'
    BY TypesPreserved, ForwardingPreserved
  <2>2. CASE Next
    BY <2>1, <2>2, TableStep
  <2>3. CASE UNCHANGED vars
    <3>1. UNCHANGED <<Written(upt_table), tableLine, tableExecuted>>
      BY <2>3 DEF vars, Written, tableLine, tableExecuted, LineOf, Holds
    <3>2. QED
      BY <2>1, <3>1 DEF Table!listVars
  <2>4. QED
    BY <2>2, <2>3
<1>3. QED
  BY <1>1, <1>2, PTL DEF Spec, ImplementsListTable, Table!ListSpec

-----------------------------------------------------------------------------
(* The machine model is the table with the updates in flight done.         *)

After(held, u, l, ps) == IF held /\ u.id = l THEN ModelUpdated(ps, u) ELSE ps

\* The pairs of list l in the table, and with the updates of stage 2, of
\* stages 2 and 1, and of all three stages done on them.
InTable(l) == Pairs(Written(upt_table)[l])
After2(l) == After(Holds(upt2), upt2.u, l, InTable(l))
After1(l) == After(Holds(upt1), upt1, l, After2(l))
After0(l) == After(Holds(upt0), upt0, l, After1(l))

\* An update that adds a key finds, when it executes, that the key is still
\* not there: it was not there after the updates that are ahead of it.
AddsAreNew ==
  /\ Holds(upt2) => MayUpdate(InTable(upt2.u.id), upt2.u)
  /\ Holds(upt1) => MayUpdate(After2(upt1.id), upt1)
  /\ Holds(upt0) => MayUpdate(After1(upt0.id), upt0)

ModelInv ==
  /\ \A l \in Lists : model[l] = After0(l)
  /\ \A l \in Lists : DistinctKeys(Written(upt_table)[l])
  /\ AddsAreNew

TablesAgree == qry_table = upt_table

\* A query that has not read its list yet will find it as the model had it,
\* and one that has read it did.
LookupInv ==
  /\ Holds(qry0) => qry0.want = Pairs(qry_table[qry0.id])
  /\ Holds(qry1) => qry1.want = Pairs(qry_dout.t)
  /\ QueryFindsModel

IInv == Types /\ ForwardingInv /\ ModelInv /\ TablesAgree /\ LookupInv

\* With every step each update does its part in the table and moves on.
LEMMA UpdatesMoveUp ==
  ASSUME Types, ForwardingInv, ModelInv, NEW u, AdvanceUpdates(u), AccessTables,
         NEW l \in Lists
  PROVE  /\ InTable(l)' = After2(l)
         /\ After2(l)' = After1(l)
         /\ After1(l)' = After0(l)
         /\ DistinctKeys(Written(upt_table)'[l])
<1> DEFINE w == Written(upt_table)
<1>0. w \in [Lists -> List]
  BY WrittenType DEF Types
<1>1. InTable(l)' = After2(l) /\ DistinctKeys(Written(upt_table)'[l])
  <2>1. CASE Holds(upt2)
    <3>1. upt2.u \in Update /\ upt2.u.id \in Lists
      BY <2>1 DEF Types, TypeOK, Optional, Holds, Update
    <3>2. Written(upt_table)' = [w EXCEPT ![upt2.u.id] = Executed(w[upt2.u.id], upt2.u)]
      BY <2>1, ExecuteStep
    <3>3. CASE upt2.u.id = l
      <4>1. w[l] \in List /\ DistinctKeys(w[l]) /\ MayUpdate(Pairs(w[l]), upt2.u)
        BY <1>0, <2>1, <3>3 DEF ModelInv, AddsAreNew, InTable
      <4>2. /\ Pairs(Executed(w[l], upt2.u)) = ModelUpdated(Pairs(w[l]), upt2.u)
            /\ DistinctKeys(Executed(w[l], upt2.u))
        BY <3>1, <4>1, ModelFollowsList, KeysStayDistinct
      <4>3. Written(upt_table)'[l] = Executed(w[l], upt2.u)
        BY <1>0, <3>2, <3>3
      <4>4. QED
        BY <2>1, <3>3, <4>2, <4>3 DEF InTable, After2, After
    <3>4. CASE upt2.u.id # l
      <4>1. Written(upt_table)'[l] = w[l]
        BY <1>0, <3>2, <3>4
      <4>2. QED
        BY <3>4, <4>1 DEF InTable, After2, After, ModelInv
    <3>5. QED
      BY <3>3, <3>4
  <2>2. CASE ~Holds(upt2)
    <3>1. Written(upt_table)' = w
      BY <2>2, NoExecuteStep
    <3>2. QED
      BY <2>2, <3>1 DEF InTable, After2, After, ModelInv
  <2>3. QED
    BY <2>1, <2>2
<1>2. After2(l)' = After1(l)
  <2>1. CASE Holds(upt1)
    <3>1. upt2' = [u |-> upt1, t |-> upt_2_t]
      BY <2>1 DEF AdvanceUpdates
    <3>2. Holds(upt2)' /\ upt2'.u = upt1
      BY <3>1, HeldIsNotEmpty DEF Holds
    <3>3. QED
      BY <1>1, <2>1, <3>2 DEF After2, After1, After, Holds
  <2>2. CASE ~Holds(upt1)
    BY <1>1, <2>2 DEF After2, After1, After, AdvanceUpdates, Holds
  <2>3. QED
    BY <2>1, <2>2
<1>3. After1(l)' = After0(l)
  BY <1>2 DEF After1, After0, After, AdvanceUpdates, Holds
<1>4. QED
  BY <1>1, <1>2, <1>3

LEMMA ModelInvPreserved ==
  ASSUME Types, Types', ForwardingInv, ModelInv, Next
  PROVE  ModelInv'
<1>1. PICK u \in Optional(Update) :
        /\ AdvanceUpdates(u)
        /\ \/ u = Empty /\ model' = model
           \/ /\ u \in Update
              /\ u.op = "OP_ADD" => ~HasKey(model[u.id], u.key)
              /\ model' = [model EXCEPT ![u.id] = ModelUpdated(@, u)]
  BY UpdatesAdvance
<1>2. AccessTables
  BY DEF Next
<1>3. ASSUME NEW l \in Lists
      PROVE  /\ InTable(l)' = After2(l)
             /\ After2(l)' = After1(l)
             /\ After1(l)' = After0(l)
             /\ DistinctKeys(Written(upt_table)'[l])
  BY <1>1, <1>2, UpdatesMoveUp
<1>4. ASSUME NEW l \in Lists
      PROVE  model'[l] = After0(l)'
  <2>1. After1(l)' = model[l]
    BY <1>3 DEF ModelInv
  <2>2. upt0' = u
    BY <1>1 DEF AdvanceUpdates
  <2>3. CASE u = Empty /\ model' = model
    BY <2>1, <2>2, <2>3 DEF After0, After, Holds
  <2>4. CASE u \in Update /\ model' = [model EXCEPT ![u.id] = ModelUpdated(@, u)]
    <3>1. Holds(upt0)' /\ u.id \in Lists
      BY <2>2, <2>4, HeldIsNotEmpty DEF Holds, Update
    <3>2. model \in [Lists -> SUBSET Pair]
      BY DEF Types, ModelTypes
    <3>3. QED
      BY <2>1, <2>2, <2>4, <3>1, <3>2 DEF After0, After
  <2>5. QED
    BY <1>1, <2>3, <2>4
<1>5. Holds(upt2)' => MayUpdate(InTable(upt2.u.id)', upt2'.u)
  <2> SUFFICES ASSUME Holds(upt2)'
               PROVE  MayUpdate(InTable(upt2.u.id)', upt2'.u)
    OBVIOUS
  <2>1. Holds(upt1) /\ upt2'.u = upt1
    BY <1>1 DEF AdvanceUpdates, Holds
  <2>2. upt1.id \in Lists
    BY <2>1 DEF Types, TypeOK, Optional, Holds, Update
  <2>3. InTable(upt2.u.id)' = After2(upt1.id)
    BY <1>3, <2>1, <2>2 DEF InTable
  <2>4. QED
    BY <2>1, <2>3 DEF ModelInv, AddsAreNew
<1>6. Holds(upt1)' => MayUpdate(After2(upt1.id)', upt1')
  <2> SUFFICES ASSUME Holds(upt1)'
               PROVE  MayUpdate(After2(upt1.id)', upt1')
    OBVIOUS
  <2>1. Holds(upt0) /\ upt1' = upt0
    BY <1>1 DEF AdvanceUpdates, Holds
  <2>2. upt0.id \in Lists
    BY <2>1 DEF Types, TypeOK, Optional, Holds, Update
  <2>3. After2(upt1.id)' = After1(upt0.id)
    BY <1>3, <2>1, <2>2 DEF After2, InTable
  <2>4. QED
    BY <2>1, <2>3 DEF ModelInv, AddsAreNew
<1>7. Holds(upt0)' => MayUpdate(After1(upt0.id)', upt0')
  <2> SUFFICES ASSUME Holds(upt0)'
               PROVE  MayUpdate(After1(upt0.id)', upt0')
    OBVIOUS
  <2>1. upt0' = u /\ u \in Update
    BY <1>1 DEF AdvanceUpdates, Holds, Optional
  <2>2. u.id \in Lists
    BY <2>1 DEF Update
  <2>3. After1(upt0.id)' = model[u.id]
    BY <1>3, <2>1, <2>2 DEF After1, After2, InTable, ModelInv
  <2>4. u # Empty
    BY <2>1, HeldIsNotEmpty DEF Holds
  <2>5. QED
    BY <1>1, <2>1, <2>3, <2>4 DEF MayUpdate
<1>8. QED
  BY <1>3, <1>4, <1>5, <1>6, <1>7 DEF ModelInv, AddsAreNew

LEMMA LookupPreserved ==
  ASSUME Types, ForwardingInv, ModelInv, TablesAgree, LookupInv, Next
  PROVE  TablesAgree' /\ LookupInv'
<1>1. AccessTables
  BY DEF Next
<1>2. TablesAgree'
  BY <1>1 DEF AccessTables, TablesAgree
<1>3. upt_table' = Written(upt_table) /\ qry_table' = upt_table'
  BY <1>1, <1>2 DEF AccessTables, TablesAgree
<1>4. /\ qry1' = qry0
      /\ qry2' = IF Holds(qry1)
                 THEN [id |-> qry1.id, want |-> qry1.want, t |-> qry_dout.t] ELSE Empty
  BY QueriesAdvance DEF AdvanceQueries
<1>5. Holds(qry0)' => qry0'.want = Pairs(qry_table'[qry0'.id])
  <2>1. CASE AdvanceQueries(Empty)
    BY <2>1 DEF AdvanceQueries, Holds
  <2>2. ASSUME NEW id \in Lists, ~BeingModified(id),
               AdvanceQueries([id |-> id, want |-> model[id]])
        PROVE  qry0'.want = Pairs(qry_table'[qry0'.id])
    <3>1. qry0'.id = id /\ qry0'.want = model[id]
      BY <2>2 DEF AdvanceQueries
    <3>2. model[id] = InTable(id)
      BY <2>2 DEF BeingModified, ModelInv, After0, After1, After2, After
    <3>3. QED
      BY <1>3, <3>1, <3>2 DEF InTable
  <2>3. QED
    BY <2>1, <2>2, QueriesAdvance
<1>6. Holds(qry1)' => qry1'.want = Pairs(qry_dout'.t)
  BY <1>1, <1>4 DEF AccessTables, ReadTables, LookupInv, Holds
<1>7. QueryFindsModel'
  BY <1>4 DEF LookupInv, QueryFindsModel, Holds
<1>8. QED
  BY <1>2, <1>5, <1>6, <1>7 DEF LookupInv

\* The tables power up without double keys.
PowerUpDistinct == \A t \in PowerUp : DistinctKeys(t)

LEMMA IInvInit == PowerUpDistinct /\ Init => IInv
<1> SUFFICES ASSUME PowerUpDistinct, Init
             PROVE  IInv
  OBVIOUS
<1>1. /\ ~Holds(upt0) /\ ~Holds(upt1) /\ ~Holds(upt2) /\ ~Holds(upt3)
      /\ ~Holds(qry0) /\ ~Holds(qry1) /\ ~Holds(qry2)
  BY DEF Init, Holds
<1>2. Written(upt_table) = upt_table
  BY <1>1 DEF Written
<1>3. ModelInv
  BY <1>1, <1>2 DEF Init, ModelInv, AddsAreNew, After0, After1, After2, After,
                    InTable, PowerUpDistinct
<1>4. TablesAgree /\ LookupInv
  BY <1>1 DEF Init, TablesAgree, LookupInv, QueryFindsModel
<1>5. QED
  BY <1>3, <1>4, TypesInit, ForwardingInit DEF IInv

LEMMA IInvPreserved == IInv /\ [Next]_vars => IInv'
<1> SUFFICES ASSUME IInv, [Next]_vars
             PROVE  IInv'
  OBVIOUS
<1>1. Types' /\ ForwardingInv'
  BY TypesPreserved, ForwardingPreserved DEF IInv
<1>2. CASE Next
  BY <1>1, <1>2, ModelInvPreserved, LookupPreserved DEF IInv
<1>3. CASE UNCHANGED vars
  <2>1. ModelInv'
    BY <1>3 DEF IInv, vars, ModelInv, AddsAreNew, After0, After1, After2, After,
                InTable, Written, Holds
  <2>2. TablesAgree' /\ LookupInv'
    BY <1>3 DEF IInv, vars, TablesAgree, LookupInv, QueryFindsModel, Holds
  <2>3. QED
    BY <1>1, <2>1, <2>2 DEF IInv
<1>4. QED
  BY <1>2, <1>3

LEMMA InvariantHolds == ASSUME PowerUpDistinct PROVE Spec => []IInv
<1>1. Init => IInv
  BY IInvInit
<1>2. QED
  BY <1>1, IInvPreserved, PTL DEF Spec

\* A list that no update in the pipeline addresses is, in both tables, the list
\* of the machine model: no update is lost, doubled or applied to an old state,
\* whatever the distance between the updates of one list.
THEOREM TablesFollowModel ==
  ASSUME PowerUpDistinct
  PROVE  Spec => []TablesMatchModel
<1>1. IInv => TablesMatchModel
  <2> SUFFICES ASSUME IInv, NEW l \in Lists,
                      ~BeingModified(l), ~(Holds(upt3) /\ upt3.u.id = l)
               PROVE  /\ Pairs(upt_table[l]) = model[l]
                      /\ qry_table[l] = upt_table[l]
    BY DEF TablesMatchModel
  <2>1. model[l] = InTable(l)
    BY DEF IInv, BeingModified, ModelInv, After0, After1, After2, After
  <2>2. Written(upt_table)[l] = upt_table[l]
    BY DEF IInv, Types, TypeOK, Written
  <2>3. QED
    BY <2>1, <2>2 DEF InTable, IInv, TablesAgree
<1>2. QED
  BY <1>1, InvariantHolds, PTL

\* A query finds the list as it was when the query was issued, though other
\* lists are updated meanwhile, and this one may be right after it.
THEOREM QueriesFindModel ==
  ASSUME PowerUpDistinct
  PROVE  Spec => []QueryFindsModel
<1>1. IInv => QueryFindsModel
  BY DEF IInv, LookupInv
<1>2. QED
  BY <1>1, InvariantHolds, PTL
=============================================================================
