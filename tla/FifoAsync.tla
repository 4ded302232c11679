----------------------------- MODULE FifoAsync ------------------------------
(***************************************************************************)
(* fifo_async.sv: a queue written in one clock domain and read in another. *)
(* Each side keeps its own pointer, and sees the other one as a registered *)
(* Gray code that has passed a synchroniser: late, but never torn.         *)
(*                                                                         *)
(* A step is a rising edge of wclk, of rclk, or of both at once.  A flop   *)
(* that samples a register of the other domain while that one changes      *)
(* takes, in each bit, the old or the new value.  The state begins when    *)
(* each side has had an edge in reset, after power-up or in the middle of  *)
(* traffic.  Then each side is released on its own, but not before both    *)
(* have had a second edge, which takes 0 to the Gray codes: they have no   *)
(* reset.  The push side does not push while full_r is high, nor the pop   *)
(* side pop while empty_r is, and neither does in reset.                   *)
(***************************************************************************)
EXTENDS Integers, SequencesExt

CONSTANTS
  ADDR_BITS,  \* there are 2^ADDR_BITS words
  Words       \* what may be pushed

ASSUME DepthAssumption == ADDR_BITS \in Nat \ {0}

N == 2 ^ ADDR_BITS
Ptr == 0 .. 2 * N - 1
Code == [0 .. ADDR_BITS -> {0, 1}]

VARIABLES
  wrst, rrst,           \* the resets
  wptr_r, wptr_gray_r,  \* the write pointer, and its Gray code a cycle later
  rptr_sync,            \* the flops of u_sync_rptr; the second is rptr_gray_wsync_r
  full_r,
  mem,                  \* u_mem
  rptr_r, rptr_gray_r,  \* the read pointer, and its Gray code a cycle later
  wptr_sync,            \* the flops of u_sync_wptr; the second is wptr_gray_rsync_r
  uarch_empty_r,
  read,                 \* the word u_mem was read for in the last rclk, if any
  out,                  \* the words u_read_pipe holds for the pop side
  queue                 \* the testbench's scoreboard

resets == <<wrst, rrst>>
writeVars == <<wptr_r, wptr_gray_r, rptr_sync, full_r, mem>>
readVars == <<rptr_r, rptr_gray_r, wptr_sync, uarch_empty_r, read, out>>
vars == <<wrst, rrst, wptr_r, wptr_gray_r, rptr_sync, full_r, mem,
          rptr_r, rptr_gray_r, wptr_sync, uarch_empty_r, read, out, queue>>

-----------------------------------------------------------------------------
(* Gray codes and synchronisers.                                           *)

Bits == [b \in Ptr |-> [i \in 0 .. ADDR_BITS |-> (b \div 2^i) % 2]]

\* Mutant of binary_to_gray: the pointers are passed in binary.
NotGray == Bits

binary_to_gray ==
  [b \in Ptr |-> [i \in 0 .. ADDR_BITS |-> (Bits[b][i] + (b \div 2^(i + 1))) % 2]]

gray_to_binary == [g \in Code |-> CHOOSE b \in Ptr : binary_to_gray[b] = g]

\* What a flop may take from a register that changes from old to new.
Sampled(old, new) == {c \in Code : \A i \in DOMAIN c : c[i] \in {old[i], new[i]}}

\* A sync_ff of two flops, with a reset.
Synchronised(rst, flops, old, new) ==
  {<<c, IF rst THEN c ELSE flops[1]>> :
     c \in IF rst THEN {binary_to_gray[0]} ELSE Sampled(old, new)}

wptr_rsync == gray_to_binary[wptr_sync[2]]
rptr_wsync == gray_to_binary[rptr_sync[2]]

-----------------------------------------------------------------------------
(* The write side: an edge of wclk with the words pushed, none or one.     *)

\* Mutant of wptr_w: the pointer does not wrap.
NoWrap(pushed) == wptr_r + Len(pushed)

wptr_w(pushed) == IF wrst THEN 0 ELSE (wptr_r + Len(pushed)) % (2 * N)

\* Mutant of full_w: full_r is raised a cycle too late.
FullLate(w) == (wptr_r + N) % (2 * N) = rptr_wsync

\* Mutant of full_w: the wrap bits are not compared.
NoWrapBit(w) == w % N = rptr_wsync % N

\* The wrap bits differ and the addresses do not.
full_w(w) == ~wrst /\ (w + N) % (2 * N) = rptr_wsync

WriteEdge(pushed) ==
  /\ pushed # <<>> => ~full_r /\ ~wrst
  /\ wptr_r' = wptr_w(pushed)
  /\ wptr_gray_r' = binary_to_gray[wptr_r]
  /\ full_r' = full_w(wptr_w(pushed))
  /\ mem' = IF pushed # <<>> THEN [mem EXCEPT ![wptr_r % N] = pushed[1]] ELSE mem

SampleReadPointer == rptr_sync' \in Synchronised(wrst, rptr_sync, rptr_gray_r, rptr_gray_r')

-----------------------------------------------------------------------------
(* The read side: an edge of rclk, with or without a pop.                  *)

\* mem_egress_pipe holds two words, one that is being read included.
read_adv == ~uarch_empty_r /\ Len(out) + Len(read) < 2

rptr_w == IF rrst THEN 0 ELSE IF read_adv THEN (rptr_r + 1) % (2 * N) ELSE rptr_r

\* Mutant of uarch_empty_w: it is computed from the pointer before the read.
EmptyLate == wptr_rsync = rptr_r

\* Mutant of uarch_empty_w: the last word of the array waits for another one.
LastWordWaits == wptr_rsync \in {rptr_w, (rptr_w + 1) % (2 * N)}

uarch_empty_w == rrst \/ wptr_rsync = rptr_w

ReadEdge(pop) ==
  /\ pop => out # <<>>
  /\ rptr_r' = rptr_w
  /\ rptr_gray_r' = binary_to_gray[rptr_r]
  /\ uarch_empty_r' = uarch_empty_w
  /\ read' = IF read_adv THEN <<mem[rptr_r % N]>> ELSE <<>>
  /\ out' = (IF pop THEN Tail(out) ELSE out) \o read

SampleWritePointer == wptr_sync' \in Synchronised(rrst, wptr_sync, wptr_gray_r, wptr_gray_r')

-----------------------------------------------------------------------------
\* b_push and m_checker: the scoreboard.
Score(pushed, pop) == queue' = (IF pop THEN Tail(queue) ELSE queue) \o pushed

Pushed == {<<>>} \cup {<<d>> : d \in Words}

WriteClock(pushed) ==
  /\ WriteEdge(pushed)
  /\ UNCHANGED <<resets, readVars>>
  /\ SampleReadPointer
  /\ Score(pushed, FALSE)

ReadClock(pop) ==
  /\ ReadEdge(pop)
  /\ UNCHANGED <<resets, writeVars>>
  /\ SampleWritePointer
  /\ Score(<<>>, pop)

BothClocks(pushed, pop) ==
  /\ WriteEdge(pushed) /\ ReadEdge(pop)
  /\ SampleReadPointer /\ SampleWritePointer
  /\ Score(pushed, pop)
  /\ UNCHANGED resets

\* Both sides have had two edges in reset.
Settled == wptr_gray_r = binary_to_gray[0] /\ rptr_gray_r = binary_to_gray[0]

LeaveReset ==
  /\ \/ wrst /\ wrst' = FALSE /\ UNCHANGED rrst
     \/ rrst /\ rrst' = FALSE /\ UNCHANGED wrst
  /\ wrst /\ rrst => Settled
  /\ UNCHANGED <<writeVars, readVars, queue>>

Init ==
  /\ wrst = TRUE /\ rrst = TRUE
  /\ wptr_r = 0 /\ wptr_gray_r \in Code
  /\ rptr_r = 0 /\ rptr_gray_r \in Code
  /\ rptr_sync = <<binary_to_gray[0], binary_to_gray[0]>>
  /\ wptr_sync = <<binary_to_gray[0], binary_to_gray[0]>>
  /\ full_r = FALSE /\ uarch_empty_r = TRUE
  /\ mem \in [0 .. N - 1 -> Words]
  /\ read = <<>> /\ out = <<>> /\ queue = <<>>

WriteStep == \E pushed \in Pushed : WriteClock(pushed)
ReadStep == \E pop \in BOOLEAN : ReadClock(pop)
BothStep == \E pushed \in Pushed, pop \in BOOLEAN : BothClocks(pushed, pop)

Next == WriteStep \/ ReadStep \/ BothStep \/ LeaveReset

\* Neither clock stops: a side on which even an edge without a push or a pop
\* would change something gets an edge, and nobody is made to push or pop.
\* Resets end.
Fairness ==
  /\ WF_vars(LeaveReset)
  /\ <>[](ENABLED <<WriteClock(<<>>)>>_vars) => []<><<WriteStep \/ BothStep>>_vars
  /\ <>[](ENABLED <<ReadClock(FALSE)>>_vars) => []<><<ReadStep \/ BothStep>>_vars

Spec == Init /\ [][Next]_vars /\ Fairness

-----------------------------------------------------------------------------
TypeOK ==
  /\ wrst \in BOOLEAN /\ rrst \in BOOLEAN
  /\ wptr_r \in Ptr /\ wptr_gray_r \in Code /\ rptr_sync \in Code \X Code
  /\ rptr_r \in Ptr /\ rptr_gray_r \in Code /\ wptr_sync \in Code \X Code
  /\ full_r \in BOOLEAN /\ uarch_empty_r \in BOOLEAN
  /\ mem \in [0 .. N - 1 -> Words]
  /\ read \in Pushed /\ out \in BoundedSeq(Words, 2)

\* The words written and not yet read.
Fill == (wptr_r - rptr_r) % (2 * N)
Stored == [i \in 1 .. Fill |-> mem[(rptr_r + i - 1) % N]]

\* From the oldest to the newest pointer, on a circle of 2 * N: what the write
\* side sees of the read pointer, the read pointer, what the read side sees of
\* the write pointer, the write pointer.
Around ==
  << rptr_wsync, gray_to_binary[rptr_sync[1]], gray_to_binary[rptr_gray_r], rptr_r,
     wptr_rsync, gray_to_binary[wptr_sync[1]], gray_to_binary[wptr_gray_r], wptr_r >>

\* No side sees the other one ahead of where it is, and the write pointer is
\* at most N ahead of the oldest read pointer.  A torn pointer would be ahead,
\* and so would a Gray code left over from before the reset.
PointersInOrder ==
  LET Gap(i) == (Around[i + 1] - Around[i]) % (2 * N)
  IN  ~(wrst /\ rrst) =>
        Gap(1) + Gap(2) + Gap(3) + Gap(4) + Gap(5) + Gap(6) + Gap(7) <= N

\* The words in the array, in flight and at the pop side are, in order, the
\* words pushed and not popped: nothing is lost, doubled, reordered or
\* overwritten, however late each side sees the other.
HoldsWhatWasPushed == out \o read \o Stored = queue

\* When both clocks rise at once, the word of u_mem that is read is not the
\* one that is written.
ReadsSettledWord ==
  [][wptr_r' # wptr_r /\ rptr_r' # rptr_r => wptr_r % N # rptr_r % N]_vars

\* A word that was pushed gets to the pop side.
WordArrives == queue # <<>> ~> out # <<>>

\* Room is found again once everything has been popped.
FullClears == (full_r /\ queue = <<>>) ~> ~full_r
=============================================================================
