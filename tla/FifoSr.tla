------------------------------- MODULE FifoSr -------------------------------
(***************************************************************************)
(* fifo_sr.sv: a queue in an array of flops with one-hot write and read    *)
(* strobes.  There is no wrap bit: the flags decide whether equal strobes  *)
(* mean empty or full, and they are computed from their last values and    *)
(* the strobes.  A one-hot strobe is modelled by the slot it selects.      *)
(*                                                                         *)
(* A step is a rising edge of clk, after reset.  The testbench pushes      *)
(* while full_r is low and pops while empty_r is low.                      *)
(***************************************************************************)
EXTENDS Integers, Sequences

CONSTANTS N, Words

VARIABLES
  wr_ptr_1h_r, rd_ptr_1h_r,
  empty_r, full_r,
  mem,        \* mem_r
  pop_data,   \* the word m_checker saw on the last edge, if any
  queue,      \* queue_: the words pushed and not popped
  expected    \* the word queue_ had for the last pop

vars == <<wr_ptr_1h_r, rd_ptr_1h_r, empty_r, full_r, mem, pop_data, queue, expected>>

Slot == 0 .. N - 1
Optional == {<<>>} \cup {<<w>> : w \in Words}

-----------------------------------------------------------------------------
\* The rotate cell.
Rotated(slot, n) == (slot + n) % N

wr_ptr_1h_w(push) == IF push THEN Rotated(wr_ptr_1h_r, 1) ELSE wr_ptr_1h_r
rd_ptr_1h_w(pop) == IF pop THEN Rotated(rd_ptr_1h_r, 1) ELSE rd_ptr_1h_r

\* Mutant of full_w: once it is raised, full_r is not lowered by a pop.
FullSticks(push, pop) ==
  full_r \/ (wr_ptr_1h_r # rd_ptr_1h_r /\ wr_ptr_1h_w(push) = rd_ptr_1h_r)

\* The pop of the same cycle is not looked at.
full_w(push, pop) ==
  IF full_r THEN ~pop
  ELSE wr_ptr_1h_r # rd_ptr_1h_r /\ wr_ptr_1h_w(push) = rd_ptr_1h_r

\* Nor is the push of the same cycle.
empty_w(push, pop) ==
  IF empty_r THEN ~push
  ELSE wr_ptr_1h_r # rd_ptr_1h_r /\ wr_ptr_1h_r = rd_ptr_1h_w(pop)

Edge(pushed, pop) ==
  LET push == pushed # <<>>
  IN  /\ wr_ptr_1h_r' = wr_ptr_1h_w(push)
      /\ rd_ptr_1h_r' = rd_ptr_1h_w(pop)
      /\ full_r' = full_w(push, pop)
      /\ empty_r' = empty_w(push, pop)
      /\ mem' = IF push THEN [mem EXCEPT ![wr_ptr_1h_r] = pushed[1]] ELSE mem
      /\ pop_data' = IF pop THEN <<mem[rd_ptr_1h_r]>> ELSE <<>>

Score(pushed, pop) ==
  /\ expected' = IF pop THEN <<Head(queue)>> ELSE <<>>
  /\ queue' = (IF pop THEN Tail(queue) ELSE queue) \o pushed

Clock(pushed, pop) ==
  /\ pushed # <<>> => ~full_r
  /\ pop => ~empty_r
  /\ Edge(pushed, pop)
  /\ Score(pushed, pop)

Init ==
  /\ wr_ptr_1h_r = 0 /\ rd_ptr_1h_r = 0
  /\ empty_r = TRUE /\ full_r = FALSE
  /\ mem \in [Slot -> Words]
  /\ pop_data = <<>> /\ queue = <<>> /\ expected = <<>>

Next == \E pushed \in Optional, pop \in BOOLEAN : Clock(pushed, pop)

Spec == Init /\ [][Next]_vars

\* t_popper, in a cycle without a push.
PopsAlone == Clock(<<>>, TRUE)

-----------------------------------------------------------------------------
TypeOK ==
  /\ wr_ptr_1h_r \in Slot /\ rd_ptr_1h_r \in Slot
  /\ empty_r \in BOOLEAN /\ full_r \in BOOLEAN
  /\ mem \in [Slot -> Words]
  /\ pop_data \in Optional

\* What is popped is what was pushed, in order.
PopsInOrder == pop_data = expected

\* The flags err on the safe side only, and by one word: an empty or a full
\* queue is always flagged, and a queue that is flagged wrongly has one word
\* or room for one word.
FlagsSafe ==
  /\ queue = <<>> => empty_r
  /\ Len(queue) = N => full_r
  /\ empty_r => Len(queue) <= 1
  /\ full_r => Len(queue) >= N - 1

\* The words between the strobes: equal ones select an empty queue or, if it
\* is flagged so, a full one.
Fill == IF wr_ptr_1h_r = rd_ptr_1h_r /\ full_r THEN N ELSE (wr_ptr_1h_r - rd_ptr_1h_r) % N
Held == [i \in 1 .. Fill |-> mem[Rotated(rd_ptr_1h_r, i - 1)]]

\* The words between the strobes are a queue of N words.
Abstract == INSTANCE Queue WITH
  Capacity <- N, Lanes <- 1, Replays <- FALSE,
  held <- Held, taken <- 0, delivered <- pop_data
ImplementsQueue == Abstract!Spec
=============================================================================
