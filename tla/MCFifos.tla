------------------------------- MODULE MCFifos ------------------------------
(***************************************************************************)
(* The single-clock queues, for TLC.  They have nothing to do with each    *)
(* other: unit says which of them a behaviour is about, and the registers  *)
(* of the others are Off.  Registers of the same name are shared.  The four *)
(* lanes of fifo_multi_push are checked with one value, two lanes with two. *)
(***************************************************************************)
EXTENDS Naturals

CONSTANTS
  Units, Words, Off,
  PtrN, SrN,   \* the words of fifo_ptr and of fifo_sr
  VQ_N, VqN,   \* the queues of fifo_n, and the words of each
  MultiF, MultiN  \* the lanes of fifo_multi_push, and the words of each queue

\* With a single slot the strobes of fifo_sr are always equal and full_r never
\* rises.
ASSUME DepthAssumption ==
  /\ PtrN \in Nat \ {0} /\ SrN \in Nat \ {0, 1}
  /\ VQ_N \in Nat /\ VqN \in Nat \ {0}
  /\ MultiF \in Nat \ {0} /\ MultiN \in Nat \ {0}

VARIABLES
  unit,
  \* of every queue
  mem, pop_data, queue, expected,
  \* of every queue but fifo_n
  empty_r, full_r,
  \* of fifo_ptr
  arch_wptr_r, arch_rptr_r, spec_rptr_r, popped,
  \* of fifo_sr
  wr_ptr_1h_r, rd_ptr_1h_r,
  \* of fifo_n
  fifo_state_r,
  \* of fifo_multi_push
  push_idx_1h_r, pop_idx_1h_r, wr_ptr_r, rd_ptr_r

flagVars == <<empty_r, full_r>>
ptrVars == <<arch_wptr_r, arch_rptr_r, spec_rptr_r, popped>>
srVars == <<wr_ptr_1h_r, rd_ptr_1h_r>>
nVars == <<fifo_state_r>>
multiVars == <<push_idx_1h_r, pop_idx_1h_r, wr_ptr_r, rd_ptr_r>>
vars == <<unit, mem, pop_data, queue, expected, flagVars, ptrVars, srVars, nVars, multiVars>>

Ptr(replay) == INSTANCE FifoPtr WITH
  N <- PtrN, HAS_REPLAY <- replay, HAS_FLUSH <- FALSE
Sr == INSTANCE FifoSr WITH N <- SrN
Vqs == INSTANCE FifoN WITH N <- VqN
Multi(lanes, words) == INSTANCE FifoMultiPush WITH
  FIFO_N <- lanes, N <- MultiN, Words <- words

FlagsOff == empty_r = Off /\ full_r = Off
PtrOff == arch_wptr_r = Off /\ arch_rptr_r = Off /\ spec_rptr_r = Off /\ popped = Off
SrOff == wr_ptr_1h_r = Off /\ rd_ptr_1h_r = Off
NOff == fifo_state_r = Off
MultiOff == push_idx_1h_r = Off /\ pop_idx_1h_r = Off /\ wr_ptr_r = Off /\ rd_ptr_r = Off

Init ==
  /\ unit \in Units
  /\ \/ unit = "fifo_ptr" /\ Ptr(FALSE)!Init /\ SrOff /\ NOff /\ MultiOff
     \/ unit = "fifo_ptr_replay" /\ Ptr(TRUE)!Init /\ SrOff /\ NOff /\ MultiOff
     \/ unit = "fifo_sr" /\ Sr!Init /\ PtrOff /\ NOff /\ MultiOff
     \/ unit = "fifo_n" /\ Vqs!Init /\ FlagsOff /\ PtrOff /\ SrOff /\ MultiOff
     \/ unit = "fifo_multi_push" /\ Multi(MultiF, Words)!Init /\ PtrOff /\ SrOff /\ NOff
     \/ unit = "fifo_multi_push_4" /\ Multi(4, {0})!Init /\ PtrOff /\ SrOff /\ NOff

Next ==
  /\ UNCHANGED unit
  /\ \/ unit = "fifo_ptr" /\ Ptr(FALSE)!Next /\ UNCHANGED <<srVars, nVars, multiVars>>
     \/ unit = "fifo_ptr_replay" /\ Ptr(TRUE)!Next /\ UNCHANGED <<srVars, nVars, multiVars>>
     \/ unit = "fifo_sr" /\ Sr!Next /\ UNCHANGED <<ptrVars, nVars, multiVars>>
     \/ unit = "fifo_n" /\ Vqs!Next /\ UNCHANGED <<flagVars, ptrVars, srVars, multiVars>>
     \/ /\ unit = "fifo_multi_push" /\ Multi(MultiF, Words)!Next
        /\ UNCHANGED <<ptrVars, srVars, nVars>>
     \/ /\ unit = "fifo_multi_push_4" /\ Multi(4, {0})!Next
        /\ UNCHANGED <<ptrVars, srVars, nVars>>

PopsAlone ==
  /\ UNCHANGED unit
  /\ \/ unit = "fifo_sr" /\ Sr!PopsAlone /\ UNCHANGED <<ptrVars, nVars, multiVars>>
     \/ /\ unit = "fifo_multi_push" /\ Multi(MultiF, Words)!PopsAlone
        /\ UNCHANGED <<ptrVars, srVars, nVars>>
     \/ /\ unit = "fifo_multi_push_4" /\ Multi(4, {0})!PopsAlone
        /\ UNCHANGED <<ptrVars, srVars, nVars>>

\* The testbenches of fifo_sr and of fifo_multi_push pop whenever they can.
\* They push a finite number of times: nobody has to push, and the side that
\* pops cannot be left without a cycle to itself for ever.
Fairness == WF_vars(PopsAlone)

Spec == Init /\ [][Next]_vars /\ Fairness

-----------------------------------------------------------------------------
\* Every register of the queue at hand holds a value of its width.
TypeOK ==
  CASE unit = "fifo_ptr" -> Ptr(FALSE)!TypeOK
    [] unit = "fifo_ptr_replay" -> Ptr(TRUE)!TypeOK
    [] unit = "fifo_sr" -> Sr!TypeOK
    [] unit = "fifo_n" -> Vqs!TypeOK
    [] unit = "fifo_multi_push" -> Multi(MultiF, Words)!TypeOK
    [] unit = "fifo_multi_push_4" -> Multi(4, {0})!TypeOK

\* Every queue pops what was pushed, in order.
PopsInOrder ==
  CASE unit = "fifo_ptr" -> Ptr(FALSE)!PopsInOrder
    [] unit = "fifo_ptr_replay" -> Ptr(TRUE)!PopsInOrder
    [] unit = "fifo_sr" -> Sr!PopsInOrder
    [] unit = "fifo_n" -> Vqs!PopsInOrder
    [] unit = "fifo_multi_push" -> Multi(MultiF, Words)!PopsInOrder
    [] unit = "fifo_multi_push_4" -> Multi(4, {0})!PopsInOrder

\* The flags of fifo_ptr, with and without replay, and of fifo_n are exact.
FlagsExact ==
  /\ unit = "fifo_ptr" => Ptr(FALSE)!FlagsExact
  /\ unit = "fifo_ptr_replay" => Ptr(TRUE)!FlagsExact
  /\ unit = "fifo_n" => Vqs!FlagsExact

\* The flags of fifo_sr and fifo_multi_push err by a word, on the safe side.
FlagsSafe ==
  /\ unit = "fifo_sr" => Sr!FlagsSafe
  /\ unit = "fifo_multi_push" => Multi(MultiF, Words)!FlagsSafe
  /\ unit = "fifo_multi_push_4" => Multi(4, {0})!FlagsSafe

\* Seen through its registers alone, every queue implements the abstract one:
\* whatever its flags say of a word in flight, no cycle loses, doubles or
\* reorders a word, exceeds the capacity, or hands out a word that is not the
\* next.  The queues of fifo_n are queues each on their own.
QueueInit ==
  CASE unit = "fifo_ptr" -> Ptr(FALSE)!Abstract!Init
    [] unit = "fifo_ptr_replay" -> Ptr(TRUE)!Abstract!Init
    [] unit = "fifo_sr" -> Sr!Abstract!Init
    [] unit = "fifo_n" -> \A vq \in Vqs!Vq : Vqs!Abstract(vq)!Init
    [] unit = "fifo_multi_push" -> Multi(MultiF, Words)!Abstract!Init
    [] unit = "fifo_multi_push_4" -> Multi(4, {0})!Abstract!Init
QueueStep ==
  CASE unit = "fifo_ptr" -> [Ptr(FALSE)!Abstract!Next]_(Ptr(FALSE)!Abstract!vars)
    [] unit = "fifo_ptr_replay" -> [Ptr(TRUE)!Abstract!Next]_(Ptr(TRUE)!Abstract!vars)
    [] unit = "fifo_sr" -> [Sr!Abstract!Next]_(Sr!Abstract!vars)
    [] unit = "fifo_n" ->
         \A vq \in Vqs!Vq : [Vqs!Abstract(vq)!Next]_(Vqs!Abstract(vq)!vars)
    [] unit = "fifo_multi_push" ->
         [Multi(MultiF, Words)!Abstract!Next]_(Multi(MultiF, Words)!Abstract!vars)
    [] unit = "fifo_multi_push_4" ->
         [Multi(4, {0})!Abstract!Next]_(Multi(4, {0})!Abstract!vars)
ImplementsQueue == QueueInit /\ [][QueueStep]_vars

\* A fifo_sr or fifo_multi_push that is popped whenever it can be does not
\* stay full, though fifo_sr may be flagged full with room for a word.
IsMulti == unit \in {"fifo_multi_push", "fifo_multi_push_4"}
FullClears ==
  /\ (unit = "fifo_sr" /\ full_r = TRUE) ~> (unit = "fifo_sr" /\ full_r = FALSE)
  /\ (IsMulti /\ full_r[0]) ~> (IsMulti /\ ~full_r[0])

\* A word that has been pushed to a fifo_multi_push becomes visible to the
\* side that pops it, which can pop whenever there is a word, as from "a
\* standard 1-input queue" (fifo_multi_push/README.md:11-14).
WordVisible ==
  (IsMulti /\ queue # <<>>) ~> (IsMulti /\ empty_r = FALSE)
=============================================================================
