--------------------------- MODULE FifoMultiPush ----------------------------
(***************************************************************************)
(* fifo_multi_push.sv: a queue that takes up to FIFO_N words in a cycle.   *)
(* It is made of FIFO_N queues of N words; a one-hot index selects the     *)
(* queue of the next word pushed, another that of the next word popped.    *)
(* A one-hot index is modelled by the queue it selects.                    *)
(*                                                                         *)
(* A step is a rising edge of clk, after reset.  The testbench pushes on   *)
(* the first lanes, while no lane is flagged full, and always pops.        *)
(***************************************************************************)
EXTENDS Integers, Sequences, FiniteSets

CONSTANTS FIFO_N, N, Words

VARIABLES
  push_idx_1h_r, pop_idx_1h_r,
  wr_ptr_r, rd_ptr_r,  \* fifo_<i>_wr_ptr_r and fifo_<i>_rd_ptr_r, by queue
  empty_r, full_r,     \* full_r is by lane
  mem,                 \* fifo_mem_<i>_r, by queue and word
  pop_data,            \* pop_0_data_r while pop_0_valid_r
  queue,               \* expectation_: the words pushed and not popped
  expected             \* the word expectation_ had for the last pop

vars == <<push_idx_1h_r, pop_idx_1h_r, wr_ptr_r, rd_ptr_r, empty_r, full_r, mem,
          pop_data, queue, expected>>

Fifo == 0 .. FIFO_N - 1
Lane == 0 .. FIFO_N - 1
Ptr == 0 .. 2 * N - 1

-----------------------------------------------------------------------------
\* The rotate cell.
Rotated(idx, n) == (idx + n) % FIFO_N

\* Mutant of push_idx_1h_w: it moves by one queue, however many are pushed.
MovesByOne(pushed) == IF pushed = <<>> THEN push_idx_1h_r ELSE Rotated(push_idx_1h_r, 1)

push_idx_1h_w(pushed) == Rotated(push_idx_1h_r, Len(pushed))
pop_idx_1h_w == Rotated(pop_idx_1h_r, 1)
pop_idx_1h_en(pop) == pop /\ ~empty_r

\* The lane that queue i is pushed from, and whether it is pushed.
LaneOf(i) == (i - push_idx_1h_r) % FIFO_N
fifo_mem_en(i, pushed) == LaneOf(i) < Len(pushed)

fifo_wr_ptr_w(i, pushed) ==
  IF fifo_mem_en(i, pushed) THEN (wr_ptr_r[i] + 1) % (2 * N) ELSE wr_ptr_r[i]
fifo_rd_ptr_w(i, pop) ==
  IF pop_idx_1h_r = i /\ pop_idx_1h_en(pop) THEN (rd_ptr_r[i] + 1) % (2 * N) ELSE rd_ptr_r[i]
fifo_full_w(i, pushed, pop) ==
  fifo_wr_ptr_w(i, pushed) = (fifo_rd_ptr_w(i, pop) + N) % (2 * N)
fifo_empty_w(i, pushed, pop) == fifo_rd_ptr_w(i, pop) = fifo_wr_ptr_w(i, pushed)

\* Mutant of full_w: the lanes' flags are those of the present push index.
FullLate(lane, pushed, pop) == fifo_full_w(Rotated(push_idx_1h_r, lane), pushed, pop)

full_w(lane, pushed, pop) ==
  fifo_full_w(Rotated(push_idx_1h_w(pushed), lane), pushed, pop)

\* The queue that pop_idx_1h_w selects, whether or not it will be loaded.
empty_w(pushed, pop) == fifo_empty_w(pop_idx_1h_w, pushed, pop)

Edge(pushed, pop) ==
  /\ push_idx_1h_r' = push_idx_1h_w(pushed)
  /\ pop_idx_1h_r' = IF pop_idx_1h_en(pop) THEN pop_idx_1h_w ELSE pop_idx_1h_r
  /\ wr_ptr_r' = [i \in Fifo |-> fifo_wr_ptr_w(i, pushed)]
  /\ rd_ptr_r' = [i \in Fifo |-> fifo_rd_ptr_w(i, pop)]
  /\ empty_r' = empty_w(pushed, pop)
  /\ full_r' = [lane \in Lane |-> full_w(lane, pushed, pop)]
  /\ mem' = [i \in Fifo |->
       IF fifo_mem_en(i, pushed)
       THEN [mem[i] EXCEPT ![wr_ptr_r[i] % N] = pushed[LaneOf(i) + 1]] ELSE mem[i]]
  /\ pop_data' = IF pop_idx_1h_en(pop)
                 THEN <<mem[pop_idx_1h_r][rd_ptr_r[pop_idx_1h_r] % N]>> ELSE <<>>

Score(pushed, pop) ==
  /\ expected' = IF pop_idx_1h_en(pop) THEN <<Head(queue)>> ELSE <<>>
  /\ queue' = (IF pop_idx_1h_en(pop) THEN Tail(queue) ELSE queue) \o pushed

Clock(pushed, pop) ==
  /\ pushed # <<>> => \A lane \in Lane : ~full_r[lane]
  /\ Edge(pushed, pop)
  /\ Score(pushed, pop)

Init ==
  /\ push_idx_1h_r = 0 /\ pop_idx_1h_r = 0
  /\ wr_ptr_r = [i \in Fifo |-> 0] /\ rd_ptr_r = [i \in Fifo |-> 0]
  /\ empty_r = TRUE /\ full_r = [lane \in Lane |-> FALSE]
  /\ mem \in [Fifo -> [0 .. N - 1 -> Words]]
  /\ pop_data = <<>> /\ queue = <<>> /\ expected = <<>>

Pushed == UNION {[1 .. n -> Words] : n \in 0 .. FIFO_N}

Next == \E pushed \in Pushed, pop \in BOOLEAN : Clock(pushed, pop)

\* m_popper, in a cycle without a push.
PopsAlone == Clock(<<>>, TRUE)

-----------------------------------------------------------------------------
TypeOK ==
  /\ push_idx_1h_r \in Fifo /\ pop_idx_1h_r \in Fifo
  /\ wr_ptr_r \in [Fifo -> Ptr] /\ rd_ptr_r \in [Fifo -> Ptr]
  /\ empty_r \in BOOLEAN /\ full_r \in [Lane -> BOOLEAN]
  /\ mem \in [Fifo -> [0 .. N - 1 -> Words]]
  /\ pop_data \in {<<>>} \cup {<<w>> : w \in Words}

\* What is popped is what was pushed, in the order of the cycles and of the
\* lanes of a cycle.
PopsInOrder == pop_data = expected

\* A lane is flagged full exactly when a word pushed on it would not fit
\* behind the words of the lanes before it.  Empty is always flagged, and a
\* queue that is flagged empty has one word at most.
FlagsSafe ==
  /\ \A lane \in Lane : full_r[lane] <=> Len(queue) + lane >= FIFO_N * N
  /\ queue = <<>> => empty_r
  /\ empty_r => Len(queue) <= 1

\* The words between the pointers, one of each queue in turn.
Fill == Cardinality({word \in Fifo \X Ptr :
  word[2] < (wr_ptr_r[word[1]] - rd_ptr_r[word[1]]) % (2 * N)})
Held == [i \in 1 .. Fill |->
  LET fifo == Rotated(pop_idx_1h_r, i - 1)
  IN  mem[fifo][(rd_ptr_r[fifo] + (i - 1) \div FIFO_N) % N]]

\* The words between the pointers are one queue of FIFO_N * N words.
Abstract == INSTANCE Queue WITH
  Capacity <- FIFO_N * N, Lanes <- FIFO_N, Replays <- FALSE,
  held <- Held, taken <- 0, delivered <- pop_data
=============================================================================
