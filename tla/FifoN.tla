------------------------------- MODULE FifoN --------------------------------
(***************************************************************************)
(* fifo_n.sv: VQ_N queues of N words carved out of one RAM.  A cycle may   *)
(* push to one queue and pop from another, or from the same.  Only the     *)
(* state of a queue that is pushed or popped is loaded.                    *)
(*                                                                         *)
(* A step is a rising edge of clk, after reset.  The testbench pushes and  *)
(* pops by its own count of the words, not by the flags: it may push to a  *)
(* queue that is full until the pop of the same cycle.                     *)
(***************************************************************************)
EXTENDS Integers, Sequences

CONSTANTS VQ_N, N, Words

VARIABLES
  fifo_state_r,  \* per queue, its flags and pointers
  mem,           \* u_fifo_mem, by queue and word
  pop_data,      \* pop_data_vq_r and pop_data_w while pop_data_valid_r
  queue,         \* fifo_n_: per queue, the words pushed and not popped
  expected       \* the last word popped from fifo_n_, and its queue

vars == <<fifo_state_r, mem, pop_data, queue, expected>>

Vq == 0 .. VQ_N - 1
Ptr == 0 .. 2 * N - 1
FifoState == [full : BOOLEAN, empty : BOOLEAN, rd_ptr : Ptr, wr_ptr : Ptr]
Access == [vq : Vq, word : Words]

-----------------------------------------------------------------------------
Succ(p) == (p + 1) % (2 * N)

is_empty(rd, wr) == rd = wr

is_full(rd, wr) == rd # wr /\ rd % N = wr % N

\* The accesses of pushed are those of one push or of none, popped is the
\* queue of one pop or of none.
To(vq, pushed) == {a \in pushed : a.vq = vq}

fifo_state_w(vq, pushed, popped) ==
  LET s == fifo_state_r[vq]
      wr == IF To(vq, pushed) # {} THEN Succ(s.wr_ptr) ELSE s.wr_ptr
      rd == IF vq \in popped THEN Succ(s.rd_ptr) ELSE s.rd_ptr
  IN  [full |-> is_full(rd, wr), empty |-> is_empty(rd, wr), rd_ptr |-> rd, wr_ptr |-> wr]

\* Mutant of fifo_state_en: the state of the popped queue is loaded only if
\* nothing is pushed.
EnableOne(vq, pushed, popped) ==
  IF pushed # {} THEN To(vq, pushed) # {} ELSE vq \in popped

fifo_state_en(vq, pushed, popped) == To(vq, pushed) # {} \/ vq \in popped

wr_addr(a) == fifo_state_r[a.vq].wr_ptr % N
rd_addr(vq) == fifo_state_r[vq].rd_ptr % N

\* The RAM reads a word before it writes it.
Edge(pushed, popped) ==
  /\ fifo_state_r' =
       [vq \in Vq |-> IF fifo_state_en(vq, pushed, popped)
                      THEN fifo_state_w(vq, pushed, popped) ELSE fifo_state_r[vq]]
  /\ \/ pushed = {} /\ UNCHANGED mem
     \/ \E a \in pushed : mem' = [mem EXCEPT ![a.vq][wr_addr(a)] = a.word]
  /\ pop_data' = {[vq |-> vq, word |-> mem[vq][rd_addr(vq)]] : vq \in popped}

Score(pushed, popped) ==
  /\ expected' = {[vq |-> vq, word |-> Head(queue[vq])] : vq \in popped}
  /\ LET left == [vq \in Vq |-> IF vq \in popped THEN Tail(queue[vq]) ELSE queue[vq]]
     IN  \/ pushed = {} /\ queue' = left
         \/ \E a \in pushed : queue' = [left EXCEPT ![a.vq] = Append(@, a.word)]

AtMostOne(S) == {{}} \cup {{e} : e \in S}

Clock ==
  \E pushed \in AtMostOne(Access), popped \in AtMostOne(Vq) :
    /\ \A a \in pushed : Len(queue[a.vq]) < N \/ a.vq \in popped
    /\ \A vq \in popped : queue[vq] # <<>>
    /\ Edge(pushed, popped)
    /\ Score(pushed, popped)

Init ==
  /\ fifo_state_r = [vq \in Vq |-> [full |-> FALSE, empty |-> TRUE, rd_ptr |-> 0, wr_ptr |-> 0]]
  /\ mem \in [Vq -> [0 .. N - 1 -> Words]]
  /\ pop_data = {} /\ expected = {}
  /\ queue = [vq \in Vq |-> <<>>]

Next == Clock

-----------------------------------------------------------------------------
TypeOK ==
  /\ fifo_state_r \in [Vq -> FifoState]
  /\ mem \in [Vq -> [0 .. N - 1 -> Words]]
  /\ pop_data \in SUBSET Access

\* What is popped from a queue is what was pushed to it, in order, whatever
\* the other queues do.
PopsInOrder == pop_data = expected

\* The testbench's assertions (fifo_n.cpp:105 and 143) with the & they need in
\* place of |: a queue with N words is flagged full and no other one is,
\* and a queue with a word is not flagged empty.
FlagsExact ==
  \A vq \in Vq :
    /\ fifo_state_r[vq].full <=> Len(queue[vq]) = N
    /\ fifo_state_r[vq].empty <=> queue[vq] = <<>>

\* The words between the pointers of each queue, and the word popped from it.
Fill(vq) == (fifo_state_r[vq].wr_ptr - fifo_state_r[vq].rd_ptr) % (2 * N)
Held(vq) == [i \in 1 .. Fill(vq) |-> mem[vq][(fifo_state_r[vq].rd_ptr + i - 1) % N]]
Delivered(vq) == LET words == {a.word : a \in To(vq, pop_data)}
                 IN  IF words = {} THEN <<>> ELSE <<CHOOSE w \in words : TRUE>>

\* The words between the pointers of each queue are a queue of N words.
Abstract(vq) == INSTANCE Queue WITH
  Capacity <- N, Lanes <- 1, Replays <- FALSE,
  held <- Held(vq), taken <- 0, delivered <- Delivered(vq)
=============================================================================
