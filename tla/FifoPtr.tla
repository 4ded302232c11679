------------------------------ MODULE FifoPtr -------------------------------
(***************************************************************************)
(* fifo_ptr.sv: a queue of N words between a write and a read pointer that *)
(* count modulo 2 * N.  With HAS_REPLAY words are read by a speculative    *)
(* pointer, leave when they are committed and are read again after a       *)
(* replay.  With HAS_FLUSH a flush zeroes the write pointer.  N is a power *)
(* of two, so that 2 * N is where the pointers wrap.                       *)
(*                                                                         *)
(* A step is a rising edge of clk, after reset.  The two sides push while  *)
(* full_r is low and pop while empty_r is low, as the testbench does; what *)
(* is committed has been popped, and is not replayed in the same cycle.    *)
(***************************************************************************)
EXTENDS Integers, Sequences

CONSTANTS N, Words, HAS_REPLAY, HAS_FLUSH

VARIABLES
  arch_wptr_r, arch_rptr_r,  \* words arch_rptr_r .. arch_wptr_r - 1 are kept
  spec_rptr_r,               \* the next word to pop, with HAS_REPLAY
  empty_r, full_r,
  mem,
  pop_data,   \* the word popped on the last edge, if any
  queue,      \* beh_model_: the words pushed and neither popped nor committed
  popped,     \* how many of them have been popped and not committed
  expected    \* the word beh_model_ had for the last pop

vars == <<arch_wptr_r, arch_rptr_r, spec_rptr_r, empty_r, full_r, mem, pop_data,
          queue, popped, expected>>

Ptr == 0 .. 2 * N - 1
Optional == {<<>>} \cup {<<w>> : w \in Words}

-----------------------------------------------------------------------------
\* Mutant of Succ: the pointers do not wrap.
SuccNoWrap(p) == p + 1

Succ(p) == (p + 1) % (2 * N)

arch_wptr_w(pushed, flush) ==
  IF HAS_FLUSH /\ flush THEN 0
  ELSE IF pushed # <<>> THEN Succ(arch_wptr_r) ELSE arch_wptr_r

arch_rptr_w(pop, commit) ==
  IF IF HAS_REPLAY THEN commit ELSE pop THEN Succ(arch_rptr_r) ELSE arch_rptr_r

\* Mutant of spec_rptr_w: a replay goes back by one word only.
ReplayOne(pop, replay) ==
  IF replay THEN (spec_rptr_r + 2 * N - 1) % (2 * N)
  ELSE IF pop THEN Succ(spec_rptr_r) ELSE spec_rptr_r

spec_rptr_w(pop, replay) ==
  IF replay THEN arch_rptr_r
  ELSE IF pop THEN Succ(spec_rptr_r) ELSE spec_rptr_r

\* The pointer that words are read by, before an edge.
read_ptr == IF HAS_REPLAY THEN spec_rptr_r ELSE arch_rptr_r

full_w(rptr, wptr) == (wptr + N) % (2 * N) = rptr

Edge(pushed, pop, commit, replay, flush) ==
  LET wptr == arch_wptr_w(pushed, flush)
      rptr == arch_rptr_w(pop, commit)
      spec == IF HAS_REPLAY THEN spec_rptr_w(pop, replay) ELSE spec_rptr_r
  IN  /\ arch_wptr_r' = wptr
      /\ arch_rptr_r' = rptr
      /\ spec_rptr_r' = spec
      /\ empty_r' = (wptr = IF HAS_REPLAY THEN spec ELSE rptr)
      /\ full_r' = full_w(rptr, wptr)
      /\ mem' = IF pushed # <<>> /\ ~full_r
                THEN [mem EXCEPT ![arch_wptr_r % N] = pushed[1]] ELSE mem
      /\ pop_data' = IF pop THEN <<mem[read_ptr % N]>> ELSE <<>>

\* What the two ends of the queue expect of it.
Score(pushed, pop, commit, replay, flush) ==
  LET left == IF IF HAS_REPLAY THEN commit ELSE pop THEN 1 ELSE 0
      next == IF replay THEN 0 ELSE IF pop THEN popped + 1 ELSE popped
  IN  /\ expected' = IF pop /\ popped < Len(queue) THEN <<queue[popped + 1]>> ELSE <<>>
      /\ queue' = IF flush THEN <<>> ELSE SubSeq(queue, left + 1, Len(queue)) \o pushed
      /\ popped' = IF HAS_REPLAY /\ ~flush THEN next - left ELSE 0

Clock ==
  \E pushed \in Optional, pop, commit, replay, flush \in BOOLEAN :
    /\ pushed # <<>> => ~full_r
    /\ pop => ~empty_r
    /\ commit \/ replay => HAS_REPLAY
    /\ commit => (popped > 0 \/ pop) /\ ~replay
    /\ flush => HAS_FLUSH
    /\ Edge(pushed, pop, commit, replay, flush)
    /\ Score(pushed, pop, commit, replay, flush)

Init ==
  /\ arch_wptr_r = 0 /\ arch_rptr_r = 0 /\ spec_rptr_r = 0
  /\ empty_r = TRUE /\ full_r = FALSE
  /\ mem \in [0 .. N - 1 -> Words]
  /\ pop_data = <<>> /\ queue = <<>> /\ popped = 0 /\ expected = <<>>

Next == Clock

Spec == Init /\ [][Next]_vars

-----------------------------------------------------------------------------
TypeOK ==
  /\ arch_wptr_r \in Ptr /\ arch_rptr_r \in Ptr /\ spec_rptr_r \in Ptr
  /\ empty_r \in BOOLEAN /\ full_r \in BOOLEAN
  /\ mem \in [0 .. N - 1 -> Words]
  /\ pop_data \in Optional

\* What is popped is what was pushed, in order; after a replay it is popped
\* again from the oldest word that was not committed.
PopsInOrder == pop_data = expected

\* The flags are exact: the queue is empty when there is nothing left to pop,
\* and full when N words have not left.
FlagsExact ==
  /\ empty_r <=> popped = Len(queue)
  /\ full_r <=> Len(queue) = N

\* The words between the pointers, and how many of them have been popped.
Fill == (arch_wptr_r - arch_rptr_r) % (2 * N)
Held == [i \in 1 .. Fill |-> mem[(arch_rptr_r + i - 1) % N]]
Taken == IF HAS_REPLAY THEN (spec_rptr_r - arch_rptr_r) % (2 * N) ELSE 0

\* Without a flush, the words between the pointers are a queue of N words.
Abstract == INSTANCE Queue WITH
  Capacity <- N, Lanes <- 1, Replays <- HAS_REPLAY,
  held <- Held, taken <- Taken, delivered <- pop_data
ImplementsQueue == Abstract!Spec
=============================================================================
