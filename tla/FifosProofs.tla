---------------------------- MODULE FifosProofs -----------------------------
(***************************************************************************)
(* Proofs about the single-clock queues.                                   *)
(*                                                                         *)
(* fifo_ptr, for any number of words, with replay and without: its         *)
(* registers are a queue, what is popped is the next word, and the flags   *)
(* are exact.                                                              *)
(*                                                                         *)
(* fifo_sr, for any number of slots but one, and any words: though its     *)
(* flags are computed without looking at the pop or the push of the same   *)
(* cycle, they err by one word and on the safe side, and what lies between *)
(* the strobes is a queue.                                                 *)
(*                                                                         *)
(* fifo_n, for any number of queues of any number of words: each queue     *)
(* keeps to its own part of the RAM, and is a queue whatever the others do.*)
(*                                                                         *)
(* fifo_multi_push, for any number of lanes and any depth: the words are   *)
(* dealt to the queues behind the lanes in turn, so that a queue that is   *)
(* l places from where the words end has room for K words exactly if l     *)
(* words more leave room for K rounds.                                     *)
(*                                                                         *)
(* The queues together: each of their properties holds of whichever of     *)
(* them a behaviour is about.                                              *)
(***************************************************************************)
EXTENDS MCFifos, QueueLemmas

-----------------------------------------------------------------------------
(* fifo_ptr, with replay (r) and without.  The inductive invariant: where   *)
(* the pointers and the words are.                                         *)

PtrCounted ==
  queue \in Seq(Words) /\ Len(queue) <= PtrN /\ popped \in 0 .. Len(queue)

PtrPositions(r) ==
  /\ arch_wptr_r = Plus(arch_rptr_r, Len(queue), 2 * PtrN)
  /\ r => spec_rptr_r = Plus(arch_rptr_r, popped, 2 * PtrN)
  /\ ~r => popped = 0

PtrContents == \A i \in 1 .. Len(queue) : mem[Plus(arch_rptr_r, i - 1, PtrN)] = queue[i]

PtrInv(r) ==
  /\ Ptr(r)!TypeOK /\ PtrCounted /\ PtrPositions(r) /\ PtrContents
  /\ Ptr(r)!FlagsExact /\ Ptr(r)!PopsInOrder

\* The words that leave in a cycle.
PtrLeft(r, pop, commit) == IF IF r THEN commit ELSE pop THEN 1 ELSE 0

\* One cycle, without a flush.
PtrStep(r, pushed, pop, commit, replay) ==
  /\ pushed \in Ptr(r)!Optional
  /\ pop \in BOOLEAN /\ commit \in BOOLEAN /\ replay \in BOOLEAN
  /\ pushed # <<>> => ~full_r
  /\ pop => ~empty_r
  /\ commit \/ replay => r
  /\ commit => (popped > 0 \/ pop) /\ ~replay
  /\ Ptr(r)!Edge(pushed, pop, commit, replay, FALSE)
  /\ Ptr(r)!Score(pushed, pop, commit, replay, FALSE)

\* Without HAS_FLUSH every cycle is one of these.
LEMMA PtrNextIsStep ==
  ASSUME NEW r \in BOOLEAN, Ptr(r)!Next
  PROVE  \E pushed, pop, commit, replay : PtrStep(r, pushed, pop, commit, replay)
  BY DepthAssumption DEF Ptr!Next, Ptr!Clock, PtrStep

-----------------------------------------------------------------------------
\* After power-up and reset the queue is empty.
LEMMA PtrInitInv ==
  ASSUME NEW r \in BOOLEAN, Ptr(r)!Init
  PROVE  PtrInv(r)
<1>1. Ptr(r)!TypeOK
  BY DepthAssumption DEF Ptr!Init, Ptr!TypeOK, Ptr!Ptr, Ptr!Optional
<1>2. PtrCounted
  BY DepthAssumption DEF Ptr!Init, PtrCounted
<1>3. PtrPositions(r)
  <2>1. PICK M \in Nat \ {0} : M = 2 * PtrN
    BY DepthAssumption
  <2>2. Plus(0, 0, M) = 0
    BY SMT DEF Plus
  <2>3. QED
    BY <2>1, <2>2 DEF Ptr!Init, PtrPositions
<1>4. PtrContents /\ Ptr(r)!FlagsExact /\ Ptr(r)!PopsInOrder
  BY DepthAssumption DEF Ptr!Init, PtrContents, Ptr!FlagsExact, Ptr!PopsInOrder
<1>5. QED
  BY <1>1, <1>2, <1>3, <1>4 DEF PtrInv

\* What a cycle does to the scoreboard.
LEMMA PtrQueueStep ==
  ASSUME NEW r \in BOOLEAN, PtrInv(r), NEW pushed, NEW pop, NEW commit, NEW replay,
         PtrStep(r, pushed, pop, commit, replay)
  PROVE  /\ PtrLeft(r, pop, commit) \in 0 .. 1 /\ PtrLeft(r, pop, commit) <= Len(queue)
         /\ Len(queue) \in 0 .. PtrN
         /\ queue' \in Seq(Words)
         /\ pushed \in Seq(Words) /\ Len(pushed) = IF pushed = <<>> THEN 0 ELSE 1
         /\ Len(queue') = Len(queue) - PtrLeft(r, pop, commit) + Len(pushed)
         /\ Len(queue') <= PtrN
         /\ \A i \in 1 .. Len(queue) - PtrLeft(r, pop, commit) :
              queue'[i] = queue[i + PtrLeft(r, pop, commit)]
         /\ pushed # <<>> => queue'[Len(queue) - PtrLeft(r, pop, commit) + 1] = pushed[1]
         /\ pushed # <<>> => Len(queue) < PtrN
         /\ pop => popped < Len(queue)
         /\ PtrLeft(r, pop, commit) <= popped + (IF pop THEN 1 ELSE 0)
<1>1. pop => popped < Len(queue)
  BY DEF PtrStep, PtrInv, Ptr!FlagsExact, PtrCounted
<1>2. PICK left \in 0 .. 1 : left = PtrLeft(r, pop, commit)
  BY DEF PtrLeft
<1>3. /\ left <= popped + (IF pop THEN 1 ELSE 0)
      /\ left <= Len(queue) /\ Len(queue) \in 0 .. PtrN
  BY <1>1, <1>2, DepthAssumption DEF PtrStep, PtrLeft, PtrInv, PtrCounted, PtrPositions
<1>4. pushed # <<>> => Len(queue) < PtrN
  BY DepthAssumption DEF PtrStep, PtrInv, Ptr!FlagsExact, PtrCounted
<1>5. queue \in Seq(Words) /\ (pushed = <<>> \/ \E w \in Words : pushed = <<w>>)
  BY DEF PtrInv, PtrCounted, PtrStep, Ptr!Optional
<1> DEFINE rest == SubSeq(queue, left + 1, Len(queue))
<1>6. /\ rest \in Seq(Words) /\ Len(rest) = Len(queue) - left
      /\ \A i \in 1 .. Len(queue) - left : rest[i] = queue[i + left]
  BY <1>3, <1>5, Rest
<1>7. queue' = rest \o pushed
  BY <1>2 DEF PtrStep, Ptr!Score, PtrLeft
<1> HIDE DEF rest
<1>8. /\ queue' \in Seq(Words)
      /\ \A i \in 1 .. Len(rest) : queue'[i] = rest[i]
      /\ Len(queue') = Len(rest) + Len(pushed)
      /\ pushed # <<>> => queue'[Len(rest) + 1] = pushed[1]
      /\ Len(pushed) = IF pushed = <<>> THEN 0 ELSE 1
      /\ pushed \in Seq(Words)
  <2>1. /\ rest \o pushed \in Seq(Words)
        /\ \A i \in 1 .. Len(rest) : (rest \o pushed)[i] = rest[i]
        /\ Len(rest \o pushed) = Len(rest) + Len(pushed)
        /\ pushed # <<>> => (rest \o pushed)[Len(rest) + 1] = pushed[1]
        /\ Len(pushed) = IF pushed = <<>> THEN 0 ELSE 1
        /\ pushed \in Seq(Words)
    BY <1>5, <1>6, Added
  <2>2. QED
    BY <1>7, <2>1
<1>9. Len(queue') = Len(queue) - left + Len(pushed) /\ Len(queue') <= PtrN
  BY <1>3, <1>4, <1>6, <1>8, DepthAssumption
<1>10. \A i \in 1 .. Len(queue) - left : queue'[i] = queue[i + left]
  BY <1>6, <1>8
<1>11. QED
  BY <1>1, <1>2, <1>3, <1>4, <1>6, <1>8, <1>9, <1>10

\* Where the pointers are after a cycle.
LEMMA PtrPointersStep ==
  ASSUME NEW r \in BOOLEAN, PtrInv(r), NEW pushed, NEW pop, NEW commit, NEW replay,
         PtrStep(r, pushed, pop, commit, replay)
  PROVE  /\ arch_wptr_r' \in Ptr(r)!Ptr /\ arch_rptr_r' \in Ptr(r)!Ptr
         /\ spec_rptr_r' \in Ptr(r)!Ptr
         /\ arch_rptr_r' = Plus(arch_rptr_r, PtrLeft(r, pop, commit), 2 * PtrN)
         /\ popped' \in 0 .. Len(queue')
         /\ PtrPositions(r)'
<1>1. PICK M \in Nat \ {0} : M = 2 * PtrN
  BY DepthAssumption
<1>2. PICK l \in 0 .. PtrN : l = Len(queue)
  BY DepthAssumption DEF PtrInv, PtrCounted
<1>3. PICK left \in 0 .. 1 : left = PtrLeft(r, pop, commit)
  BY DEF PtrLeft
<1>4. PICK add \in 0 .. 1 : add = IF pushed = <<>> THEN 0 ELSE 1
  OBVIOUS
<1>5. PICK n \in 0 .. 1 : n = IF pop THEN 1 ELSE 0
  OBVIOUS
<1>6. /\ left <= l /\ Len(queue') = l + add - left /\ l + add <= PtrN
      /\ popped \in 0 .. l /\ popped + n <= l /\ left <= popped + n
  <2>1. /\ PtrLeft(r, pop, commit) <= Len(queue)
        /\ Len(pushed) = IF pushed = <<>> THEN 0 ELSE 1
        /\ Len(queue') = Len(queue) - PtrLeft(r, pop, commit) + Len(pushed)
        /\ pushed # <<>> => Len(queue) < PtrN
        /\ pop => popped < Len(queue)
        /\ PtrLeft(r, pop, commit) <= popped + (IF pop THEN 1 ELSE 0)
    BY PtrQueueStep
  <2>2. /\ left <= l /\ Len(queue') = l - left + add
        /\ add = 1 => l < PtrN
        /\ pop => popped < l
        /\ left <= popped + n
    BY <1>2, <1>3, <1>4, <1>5, <2>1
  <2>3. popped \in 0 .. l
    BY <1>2 DEF PtrInv, PtrCounted
  <2>4. l + add <= PtrN
    BY <1>2, <2>2, DepthAssumption
  <2>5. QED
    BY <1>5, <2>2, <2>3, <2>4
<1>7. arch_rptr_r \in 0 .. M - 1 /\ arch_wptr_r = Plus(arch_rptr_r, l, M)
  BY <1>1, <1>2 DEF PtrInv, Ptr!TypeOK, Ptr!Ptr, PtrPositions
<1>8. /\ arch_rptr_r' = IF left = 1 THEN Plus(arch_rptr_r, 1, M) ELSE arch_rptr_r
      /\ arch_wptr_r' = IF add = 1 THEN Plus(arch_wptr_r, 1, M) ELSE arch_wptr_r
  BY <1>1, <1>3, <1>4, DepthAssumption
     DEF PtrStep, Ptr!Edge, Ptr!arch_rptr_w, Ptr!arch_wptr_w, Ptr!Succ, Plus, PtrLeft
<1>9. PICK k \in 0 .. PtrN : k = l + add - left
  BY <1>6, DepthAssumption
<1>10. PtrN < M /\ PtrN \in Nat
  BY <1>1, DepthAssumption
<1>11. /\ arch_rptr_r' = Plus(arch_rptr_r, left, M)
       /\ arch_rptr_r' \in 0 .. M - 1 /\ arch_wptr_r' \in 0 .. M - 1
       /\ arch_wptr_r' = Plus(arch_rptr_r', k, M)
  <2>1. /\ l \in 0 .. M - 1 /\ k \in 0 .. M - 1 /\ left + k = l + add /\ l + add < M
    BY <1>6, <1>9, <1>10
  <2>2. Plus(Plus(arch_rptr_r, l, M), add, M) = Plus(Plus(arch_rptr_r, left, M), k, M)
    BY <1>7, <2>1, Ends
  <2>3. left \in 0 .. M - 1 /\ arch_wptr_r \in 0 .. M - 1
    <3>1. left \in 0 .. M - 1
      BY <1>1, DepthAssumption
    <3>2. Plus(arch_rptr_r, l, M) \in 0 .. M - 1
      BY <1>7, <2>1, MovedType
    <3>3. QED
      BY <1>7, <3>1, <3>2
  <2>4. /\ Plus(arch_rptr_r, left, M) \in 0 .. M - 1
        /\ Plus(Plus(arch_rptr_r, left, M), k, M) \in 0 .. M - 1
    BY <1>7, <2>1, <2>3, MovedType
  <2>5. Plus(arch_rptr_r, 0, M) = arch_rptr_r /\ Plus(arch_wptr_r, 0, M) = arch_wptr_r
    BY <1>7, <2>3, NotMoved
  <2>6. QED
    BY <1>7, <1>8, <2>2, <2>4, <2>5
<1>12. ~r => popped' = 0 /\ spec_rptr_r' = spec_rptr_r
  BY DEF PtrStep, Ptr!Edge, Ptr!Score
<1>13. r => /\ spec_rptr_r' \in 0 .. M - 1
                     /\ popped' \in 0 .. k
                     /\ spec_rptr_r' = Plus(arch_rptr_r', popped', M)
  <2> SUFFICES ASSUME r
               PROVE  /\ spec_rptr_r' \in 0 .. M - 1
                      /\ popped' \in 0 .. k
                      /\ spec_rptr_r' = Plus(arch_rptr_r', popped', M)
    OBVIOUS
  <2>1. CASE replay
    <3>1. left = 0 /\ popped' = 0 /\ spec_rptr_r' = arch_rptr_r
      BY <1>3, <2>1 DEF PtrStep, Ptr!Edge, Ptr!Score, Ptr!spec_rptr_w, PtrLeft
    <3>2. arch_rptr_r' = arch_rptr_r
      BY <1>8, <3>1
    <3>3. Plus(arch_rptr_r, 0, M) = arch_rptr_r
      BY <1>7, NotMoved
    <3>4. QED
      BY <1>7, <1>9, <3>1, <3>2, <3>3
  <2>2. CASE ~replay
    <3>1. PICK j \in 0 .. k : popped' = j /\ left + j = popped + n
      <4>1. popped' = popped + n - left
        BY <1>3, <1>5, <1>6, <2>2 DEF PtrStep, Ptr!Score, PtrLeft
      <4>2. QED
        BY <1>6, <1>9, <4>1
    <3>2. spec_rptr_r' = IF n = 1 THEN Plus(spec_rptr_r, 1, M) ELSE spec_rptr_r
      BY <1>1, <1>5, <2>2 DEF PtrStep, Ptr!Edge, Ptr!spec_rptr_w, Ptr!Succ, Plus
    <3>3. spec_rptr_r = Plus(arch_rptr_r, popped, M)
      BY <1>1 DEF PtrInv, PtrPositions
    <3>4. /\ popped \in 0 .. M - 1 /\ j \in 0 .. M - 1 /\ popped + n < M
      BY <1>6, <1>10
    <3>5. Plus(Plus(arch_rptr_r, popped, M), n, M) = Plus(Plus(arch_rptr_r, left, M), j, M)
      BY <1>7, <3>1, <3>4, Ends
    <3>6. spec_rptr_r \in 0 .. M - 1 /\ Plus(arch_rptr_r', j, M) \in 0 .. M - 1
      BY <1>7, <1>11, <3>3, <3>4, MovedType
    <3>7. Plus(spec_rptr_r, 0, M) = spec_rptr_r
      BY <3>6, NotMoved
    <3>8. QED
      BY <1>11, <3>1, <3>2, <3>3, <3>5, <3>6, <3>7
  <2>3. QED
    BY <2>1, <2>2
<1>14. /\ arch_wptr_r' \in Ptr(r)!Ptr /\ arch_rptr_r' \in Ptr(r)!Ptr
       /\ spec_rptr_r' \in Ptr(r)!Ptr
  BY <1>1, <1>11, <1>12, <1>13, DepthAssumption DEF Ptr!Ptr, PtrInv, Ptr!TypeOK
<1>15. popped' \in 0 .. Len(queue')
  BY <1>6, <1>9, <1>12, <1>13
<1>16. PtrPositions(r)'
  BY <1>1, <1>6, <1>9, <1>11, <1>12, <1>13 DEF PtrPositions
<1>17. QED
  BY <1>1, <1>3, <1>11, <1>14, <1>15, <1>16

\* The words in the array after a cycle: those that have not left are where
\* they were, and the word that is pushed is behind them, in a free slot.
LEMMA PtrContentsStep ==
  ASSUME NEW r \in BOOLEAN, PtrInv(r), NEW pushed, NEW pop, NEW commit, NEW replay,
         PtrStep(r, pushed, pop, commit, replay)
  PROVE  mem' \in [0 .. PtrN - 1 -> Words] /\ PtrContents'
<1>1. PICK left \in 0 .. 1 : left = PtrLeft(r, pop, commit)
  BY DEF PtrLeft
<1>2. PICK l \in 0 .. PtrN : l = Len(queue)
  BY DepthAssumption DEF PtrInv, PtrCounted
<1>3. /\ left <= l
      /\ Len(queue') = l - left + Len(pushed)
      /\ \A i \in 1 .. l - left : queue'[i] = queue[i + left]
      /\ pushed # <<>> => queue'[l - left + 1] = pushed[1] /\ l < PtrN
      /\ Len(pushed) = IF pushed = <<>> THEN 0 ELSE 1
  <2>1. /\ PtrLeft(r, pop, commit) <= Len(queue)
        /\ Len(pushed) = IF pushed = <<>> THEN 0 ELSE 1
        /\ Len(queue') = Len(queue) - PtrLeft(r, pop, commit) + Len(pushed)
        /\ \A i \in 1 .. Len(queue) - PtrLeft(r, pop, commit) :
             queue'[i] = queue[i + PtrLeft(r, pop, commit)]
        /\ pushed # <<>> => queue'[Len(queue) - PtrLeft(r, pop, commit) + 1] = pushed[1]
        /\ pushed # <<>> => Len(queue) < PtrN
    BY PtrQueueStep
  <2>2. QED
    BY <1>1, <1>2, <2>1
<1>4. arch_rptr_r \in 0 .. 2 * PtrN - 1 /\ PtrN \in Nat \ {0}
      /\ arch_rptr_r' = Plus(arch_rptr_r, left, 2 * PtrN)
      /\ arch_wptr_r = Plus(arch_rptr_r, l, 2 * PtrN)
  BY <1>1, <1>2, PtrPointersStep, DepthAssumption
     DEF PtrInv, Ptr!TypeOK, Ptr!Ptr, PtrPositions
<1>5. \A k \in 0 .. PtrN : Plus(arch_rptr_r, k, PtrN) \in 0 .. PtrN - 1
  BY <1>4, SlotType
<1>6. arch_wptr_r % PtrN = Plus(arch_rptr_r, l, PtrN)
  BY <1>4, SlotMovedOn
<1>7. /\ mem \in [0 .. PtrN - 1 -> Words]
      /\ mem' = IF pushed # <<>>
                THEN [mem EXCEPT ![Plus(arch_rptr_r, l, PtrN)] = pushed[1]] ELSE mem
      /\ pushed # <<>> => pushed[1] \in Words
  <2>1. pushed # <<>> => pushed[1] \in Words
    BY DEF PtrStep, Ptr!Optional
  <2>2. mem' = IF pushed # <<>> THEN [mem EXCEPT ![arch_wptr_r % PtrN] = pushed[1]] ELSE mem
    BY DEF PtrStep, Ptr!Edge
  <2>3. mem \in [0 .. PtrN - 1 -> Words]
    BY DEF PtrInv, Ptr!TypeOK
  <2>4. QED
    BY <1>6, <2>1, <2>2, <2>3
<1>8. mem' \in [0 .. PtrN - 1 -> Words]
  BY <1>7
<1>9. ASSUME NEW i \in 1 .. Len(queue')
      PROVE  mem'[Plus(arch_rptr_r', i - 1, PtrN)] = queue'[i]
  <2>1. PICK j \in 0 .. PtrN, k \in 0 .. PtrN : k = i - 1 /\ j = k + left /\ j <= l
    BY <1>2, <1>3, <1>4
  <2>2. Plus(arch_rptr_r', i - 1, PtrN) = Plus(arch_rptr_r, j, PtrN)
    <3>1. arch_rptr_r \in 0 .. 2 * PtrN - 1 /\ PtrN \in Nat \ {0} /\ j = k + left
      BY <1>4, <2>1
    <3>2. Plus(Plus(arch_rptr_r, left, 2 * PtrN), k, PtrN) = Plus(arch_rptr_r, j, PtrN)
      BY <3>1, SlotOfNext
    <3>3. QED
      BY <1>4, <2>1, <3>2
  <2>3. CASE j < l
    <3>1. queue'[i] = queue[j + 1] /\ j + 1 \in 1 .. l
      <4>1. i \in 1 .. l - left /\ i + left = j + 1 /\ j + 1 \in 1 .. l
        BY <1>4, <2>1, <2>3
      <4>2. queue'[i] = queue[i + left]
        BY <1>3, <4>1
      <4>3. QED
        BY <4>1, <4>2
    <3>2. mem[Plus(arch_rptr_r, (j + 1) - 1, PtrN)] = queue[j + 1]
      BY <1>2, <3>1 DEF PtrInv, PtrContents
    <3>3. (j + 1) - 1 = j
      BY <2>1
    <3>4. ASSUME pushed # <<>>
          PROVE  Plus(arch_rptr_r, j, PtrN) # Plus(arch_rptr_r, l, PtrN)
      <4>1. l < PtrN
        BY <1>3, <3>4
      <4>2. l - j < PtrN
        BY <1>4, <2>1, <4>1
      <4>3. QED
        BY <1>4, <2>3, <4>2, SlotsDiffer
    <3>5. mem'[Plus(arch_rptr_r, j, PtrN)] = mem[Plus(arch_rptr_r, j, PtrN)]
      BY <1>5, <1>7, <2>1, <3>4
    <3>6. QED
      BY <2>2, <3>1, <3>2, <3>3, <3>5
  <2>4. CASE j = l
    <3>1. pushed # <<>> /\ i = l - left + 1
      BY <1>2, <1>3, <2>1, <2>4
    <3>2. mem'[Plus(arch_rptr_r, l, PtrN)] = pushed[1]
      BY <1>2, <1>5, <1>7, <3>1
    <3>3. QED
      BY <1>3, <2>2, <2>4, <3>1, <3>2
  <2>5. QED
    BY <2>1, <2>3, <2>4
<1>10. QED
  BY <1>8, <1>9 DEF PtrContents

\* The flags after a cycle: the pointers meet again after N words at the
\* earliest, with the wrap bit the other way.
LEMMA PtrFlagsStep ==
  ASSUME NEW r \in BOOLEAN, PtrInv(r), NEW pushed, NEW pop, NEW commit, NEW replay,
         PtrStep(r, pushed, pop, commit, replay)
  PROVE  Ptr(r)!FlagsExact'
<1>1. PICK M \in Nat \ {0} : M = 2 * PtrN
  BY DepthAssumption
<1>2. PtrN \in Nat \ {0} /\ PtrN < M
  BY <1>1, DepthAssumption
<1>3. PICK l \in 0 .. PtrN : l = Len(queue')
  <2>1. queue' \in Seq(Words) /\ Len(queue') <= PtrN
    BY PtrQueueStep
  <2>2. QED
    BY <1>2, <2>1
<1>4. PICK j \in 0 .. l : j = popped'
  BY <1>3, PtrPointersStep
<1>5. /\ arch_rptr_r' \in 0 .. M - 1
      /\ arch_wptr_r' = Plus(arch_rptr_r', l, M)
      /\ (IF r THEN spec_rptr_r' ELSE arch_rptr_r') = Plus(arch_rptr_r', j, M)
  <2>1. /\ arch_rptr_r' \in 0 .. M - 1
        /\ arch_wptr_r' = Plus(arch_rptr_r', l, M)
        /\ r => spec_rptr_r' = Plus(arch_rptr_r', j, M)
        /\ ~r => j = 0
    BY <1>1, <1>3, <1>4, PtrPointersStep DEF PtrPositions, Ptr!Ptr
  <2>2. Plus(arch_rptr_r', 0, M) = arch_rptr_r'
    BY <2>1, NotMoved
  <2>3. QED
    BY <2>1, <2>2
<1>6. l \in 0 .. M - 1 /\ j \in 0 .. M - 1
  BY <1>2, <1>3, <1>4
<1>7. empty_r' <=> j = l
  <2>1. empty_r' = (arch_wptr_r' = IF r THEN spec_rptr_r' ELSE arch_rptr_r')
    BY DEF PtrStep, Ptr!Edge
  <2>2. j # l => Plus(arch_rptr_r', l, M) # Plus(arch_rptr_r', j, M)
    BY <1>5, <1>6, EndsDiffer
  <2>3. empty_r' = (Plus(arch_rptr_r', l, M) = Plus(arch_rptr_r', j, M))
    BY <1>5, <2>1
  <2>4. QED
    BY <2>2, <2>3
<1>8. full_r' <=> l = PtrN
  <2>1. full_r' = (Plus(arch_wptr_r', PtrN, M) = arch_rptr_r')
    BY <1>1 DEF PtrStep, Ptr!Edge, Ptr!full_w, Plus
  <2>2. Plus(Plus(arch_rptr_r', l, M), PtrN, M) = arch_rptr_r' <=> l = PtrN
    BY <1>2, <1>1, <1>5, FullCircle
  <2>3. QED
    BY <1>5, <2>1, <2>2
<1>9. QED
  BY <1>3, <1>4, <1>7, <1>8 DEF Ptr!FlagsExact

\* The word that is popped is the one the scoreboard has.
LEMMA PtrPopStep ==
  ASSUME NEW r \in BOOLEAN, PtrInv(r), NEW pushed, NEW pop, NEW commit, NEW replay,
         PtrStep(r, pushed, pop, commit, replay)
  PROVE  pop_data' \in Ptr(r)!Optional /\ Ptr(r)!PopsInOrder'
<1>1. CASE ~pop
  BY <1>1 DEF PtrStep, Ptr!Edge, Ptr!Score, Ptr!Optional, Ptr!PopsInOrder
<1>2. CASE pop
  <2>1. PtrN \in Nat \ {0} /\ popped \in 0 .. PtrN /\ popped < Len(queue)
        /\ popped + 1 \in 1 .. Len(queue)
    <3>1. popped < Len(queue)
      BY <1>2, PtrQueueStep
    <3>2. QED
      BY <3>1, DepthAssumption DEF PtrInv, PtrCounted
  <2>2. /\ arch_rptr_r \in 0 .. 2 * PtrN - 1
        /\ Ptr(r)!read_ptr = Plus(arch_rptr_r, popped, 2 * PtrN)
    <3>1. arch_rptr_r \in 0 .. 2 * PtrN - 1
      BY DEF PtrInv, Ptr!TypeOK, Ptr!Ptr
    <3>2. Plus(arch_rptr_r, 0, 2 * PtrN) = arch_rptr_r
      <4>1. PICK M \in Nat \ {0} : M = 2 * PtrN
        BY <2>1
      <4>2. Plus(arch_rptr_r, 0, M) = arch_rptr_r
        BY <3>1, <4>1, NotMoved
      <4>3. QED
        BY <4>1, <4>2
    <3>3. QED
      BY <3>1, <3>2, DepthAssumption DEF PtrInv, PtrPositions, Ptr!read_ptr
  <2>3. Ptr(r)!read_ptr % PtrN = Plus(arch_rptr_r, popped, PtrN)
    BY <2>1, <2>2, SlotMovedOn
  <2>4. mem[Plus(arch_rptr_r, popped, PtrN)] = queue[popped + 1]
    <3>1. mem[Plus(arch_rptr_r, (popped + 1) - 1, PtrN)] = queue[popped + 1]
      BY <2>1 DEF PtrInv, PtrContents
    <3>2. (popped + 1) - 1 = popped
      BY <2>1
    <3>3. QED
      BY <3>1, <3>2
  <2>5. pop_data' = <<queue[popped + 1]>> /\ expected' = <<queue[popped + 1]>>
    BY <1>2, <2>1, <2>3, <2>4 DEF PtrStep, Ptr!Edge, Ptr!Score
  <2>6. queue[popped + 1] \in Words
    BY <2>1 DEF PtrInv, PtrCounted
  <2>7. QED
    BY <2>5, <2>6 DEF Ptr!Optional, Ptr!PopsInOrder
<1>3. QED
  BY <1>1, <1>2 DEF PtrStep

\* The invariant is inductive.
LEMMA PtrNextInv ==
  ASSUME NEW r \in BOOLEAN, PtrInv(r), [Ptr(r)!Next]_(Ptr(r)!vars)
  PROVE  PtrInv(r)'
<1>1. CASE Ptr(r)!Next
  <2>1. PICK pushed, pop, commit, replay : PtrStep(r, pushed, pop, commit, replay)
    BY <1>1, PtrNextIsStep
  <2>2. Ptr(r)!TypeOK'
    <3>1. /\ arch_wptr_r' \in Ptr(r)!Ptr /\ arch_rptr_r' \in Ptr(r)!Ptr
          /\ spec_rptr_r' \in Ptr(r)!Ptr
      BY <2>1, PtrPointersStep
    <3>2. mem' \in [0 .. PtrN - 1 -> Words]
      BY <2>1, PtrContentsStep
    <3>3. pop_data' \in Ptr(r)!Optional
      BY <2>1, PtrPopStep
    <3>4. empty_r' \in BOOLEAN /\ full_r' \in BOOLEAN
      BY <2>1 DEF PtrStep, Ptr!Edge, Ptr!full_w
    <3>5. QED
      BY <3>1, <3>2, <3>3, <3>4 DEF Ptr!TypeOK
  <2>3. PtrCounted'
    <3>1. queue' \in Seq(Words) /\ Len(queue') <= PtrN
      BY <2>1, PtrQueueStep
    <3>2. popped' \in 0 .. Len(queue')
      BY <2>1, PtrPointersStep
    <3>3. QED
      BY <3>1, <3>2 DEF PtrCounted
  <2>4. PtrPositions(r)'
    BY <2>1, PtrPointersStep
  <2>5. PtrContents'
    BY <2>1, PtrContentsStep
  <2>6. Ptr(r)!FlagsExact'
    BY <2>1, PtrFlagsStep
  <2>7. Ptr(r)!PopsInOrder'
    BY <2>1, PtrPopStep
  <2>8. QED
    BY <2>2, <2>3, <2>4, <2>5, <2>6, <2>7 DEF PtrInv
<1>2. CASE UNCHANGED Ptr(r)!vars
  BY <1>2
     DEF Ptr!vars, PtrInv, Ptr!TypeOK, PtrCounted, PtrPositions, PtrContents,
         Ptr!FlagsExact, Ptr!PopsInOrder
<1>3. QED
  BY <1>1, <1>2

-----------------------------------------------------------------------------
\* In every behaviour: the pointers are pointers and the words are words.
THEOREM PtrTypeCorrect ==
  ASSUME NEW r \in BOOLEAN
  PROVE  Ptr(r)!Spec => []Ptr(r)!TypeOK
<1>1. Ptr(r)!Init => PtrInv(r)
  BY PtrInitInv
<1>2. PtrInv(r) /\ [Ptr(r)!Next]_(Ptr(r)!vars) => PtrInv(r)'
  BY PtrNextInv
<1>3. PtrInv(r) => Ptr(r)!TypeOK
  BY DEF PtrInv
<1>4. QED
  BY <1>1, <1>2, <1>3, PTL DEF Ptr!Spec

\* What is popped is the next word that was pushed; after a replay, the next
\* one after those that were committed.
THEOREM PtrPopsCorrect ==
  ASSUME NEW r \in BOOLEAN
  PROVE  Ptr(r)!Spec => []Ptr(r)!PopsInOrder
<1>1. Ptr(r)!Init => PtrInv(r)
  BY PtrInitInv
<1>2. PtrInv(r) /\ [Ptr(r)!Next]_(Ptr(r)!vars) => PtrInv(r)'
  BY PtrNextInv
<1>3. PtrInv(r) => Ptr(r)!PopsInOrder
  BY DEF PtrInv
<1>4. QED
  BY <1>1, <1>2, <1>3, PTL DEF Ptr!Spec

\* The queue is flagged empty exactly when no word is left to pop, and full
\* exactly when N words have not left.
THEOREM PtrFlagsCorrect ==
  ASSUME NEW r \in BOOLEAN
  PROVE  Ptr(r)!Spec => []Ptr(r)!FlagsExact
<1>1. Ptr(r)!Init => PtrInv(r)
  BY PtrInitInv
<1>2. PtrInv(r) /\ [Ptr(r)!Next]_(Ptr(r)!vars) => PtrInv(r)'
  BY PtrNextInv
<1>3. PtrInv(r) => Ptr(r)!FlagsExact
  BY DEF PtrInv
<1>4. QED
  BY <1>1, <1>2, <1>3, PTL DEF Ptr!Spec

-----------------------------------------------------------------------------
(* The refinement: what lies between the pointers is the abstract queue.   *)

\* The abstract queue is the scoreboard's.
LEMMA PtrHeldIsQueue ==
  ASSUME NEW r \in BOOLEAN, PtrInv(r)
  PROVE  Ptr(r)!Held = queue /\ Ptr(r)!Taken = popped
<1>1. Ptr(r)!Held = queue
  <2>0. PtrN \in Nat \ {0}
    BY DepthAssumption
  <2>1. Ring(Words, PtrN, arch_rptr_r, arch_wptr_r, mem, queue)
    BY DepthAssumption
       DEF PtrInv, Ptr!TypeOK, Ptr!Ptr, PtrCounted, PtrPositions, PtrContents, Ring
  <2>2. Inside(PtrN, arch_rptr_r, arch_wptr_r, mem) = queue
    BY <2>0, <2>1, RingHeld
  <2>3. QED
    BY <2>2 DEF Ptr!Held, Ptr!Fill, Inside
<1>2. CASE r
  <2>1. PICK M \in Nat \ {0} : M = 2 * PtrN
    BY DepthAssumption
  <2>2. /\ arch_rptr_r \in 0 .. M - 1 /\ popped \in 0 .. M - 1
        /\ spec_rptr_r = Plus(arch_rptr_r, popped, M)
    BY <1>2, <2>1, DepthAssumption
       DEF PtrInv, Ptr!TypeOK, Ptr!Ptr, PtrCounted, PtrPositions
  <2>3. (Plus(arch_rptr_r, popped, M) - arch_rptr_r) % M = popped
    BY <2>2, HasMoved
  <2>4. QED
    BY <1>1, <1>2, <2>1, <2>2, <2>3 DEF Ptr!Taken
<1>3. CASE ~r
  BY <1>1, <1>3 DEF Ptr!Taken, PtrInv, PtrPositions
<1>4. QED
  BY <1>2, <1>3

\* A cycle of fifo_ptr is a cycle of the abstract queue.
LEMMA PtrStepRefines ==
  ASSUME NEW r \in BOOLEAN, PtrInv(r), NEW pushed, NEW pop, NEW commit, NEW replay,
         PtrStep(r, pushed, pop, commit, replay), Ptr(r)!Held = queue, Ptr(r)!Taken = popped,
         Ptr(r)!Held' = queue', Ptr(r)!Taken' = popped'
  PROVE  Ptr(r)!Abstract!Next
<1>1. PICK leave \in BOOLEAN : leave <=> IF r THEN commit ELSE pop
  OBVIOUS
<1>2. PICK n \in 0 .. 1 : n = Len(pushed)
  BY PtrQueueStep
<1>3. pushed \in [1 .. n -> Words]
  BY <1>2, PtrQueueStep
<1>4. pop => popped < Len(queue)
  BY PtrQueueStep
<1>5. leave => popped + Ptr(r)!Abstract!One(pop) > 0
  BY <1>1, DepthAssumption
     DEF PtrStep, PtrInv, PtrCounted, PtrPositions, Ptr!Abstract!One
<1>6. ~r => (leave <=> pop) /\ ~replay
  BY <1>1 DEF PtrStep
<1>7. Ptr(r)!Abstract!One(leave) = PtrLeft(r, pop, commit)
  BY <1>1 DEF Ptr!Abstract!One, PtrLeft
<1>8. Len(queue) - Ptr(r)!Abstract!One(leave) + Len(pushed) <= PtrN
  <2>1. /\ Len(queue') = Len(queue) - PtrLeft(r, pop, commit) + Len(pushed)
        /\ Len(queue') <= PtrN
    BY PtrQueueStep
  <2>2. QED
    BY <1>7, <2>1
<1>9. pop_data' = IF pop THEN <<queue[popped + 1]>> ELSE <<>>
  <2>1. pop_data' = expected'
    BY PtrPopStep DEF Ptr!PopsInOrder
  <2>2. QED
    BY <1>4, <2>1 DEF PtrStep, Ptr!Score
<1>10. queue' = SubSeq(queue, 1 + Ptr(r)!Abstract!One(leave), Len(queue)) \o pushed
  <2>1. 1 + Ptr(r)!Abstract!One(leave) = PtrLeft(r, pop, commit) + 1
    BY <1>7 DEF PtrLeft
  <2>2. QED
    BY <2>1 DEF PtrStep, Ptr!Score, PtrLeft
<1>11. popped' = IF replay THEN 0
                 ELSE popped + Ptr(r)!Abstract!One(pop) - Ptr(r)!Abstract!One(leave)
  BY <1>1, DepthAssumption
     DEF PtrStep, Ptr!Score, Ptr!Abstract!One, PtrInv, PtrCounted, PtrPositions
<1>12. Ptr(r)!Abstract!Cycle(pushed, pop, leave, replay)
  BY <1>4, <1>5, <1>6, <1>8, <1>9, <1>10, <1>11 DEF Ptr!Abstract!Cycle
<1>13. QED
  BY <1>2, <1>3, <1>12 DEF Ptr!Abstract!Next, PtrStep

LEMMA PtrNextRefines ==
  ASSUME NEW r \in BOOLEAN, PtrInv(r), [Ptr(r)!Next]_(Ptr(r)!vars),
         Ptr(r)!Held = queue, Ptr(r)!Taken = popped,
         Ptr(r)!Held' = queue', Ptr(r)!Taken' = popped'
  PROVE  [Ptr(r)!Abstract!Next]_(Ptr(r)!Abstract!vars)
<1>1. CASE Ptr(r)!Next
  <2>1. PICK pushed, pop, commit, replay : PtrStep(r, pushed, pop, commit, replay)
    BY <1>1, PtrNextIsStep
  <2>2. Ptr(r)!Abstract!Next
    BY <2>1, PtrStepRefines
  <2>3. QED
    BY <2>2
<1>2. CASE UNCHANGED Ptr(r)!vars
  BY <1>2 DEF Ptr!vars, Ptr!Abstract!vars
<1>3. QED
  BY <1>1, <1>2

\* Seen through its pointers and its array alone, fifo_ptr is a queue of N
\* words, replayed or not.
THEOREM PtrRefinement ==
  ASSUME NEW r \in BOOLEAN
  PROVE  Ptr(r)!Spec => Ptr(r)!ImplementsQueue
<1>1. Ptr(r)!Init => PtrInv(r)
  BY PtrInitInv
<1>2. PtrInv(r) /\ [Ptr(r)!Next]_(Ptr(r)!vars) => PtrInv(r)'
  BY PtrNextInv
<1>3. PtrInv(r) => Ptr(r)!Held = queue /\ Ptr(r)!Taken = popped
  BY PtrHeldIsQueue
<1>4. Ptr(r)!Init /\ Ptr(r)!Held = queue /\ Ptr(r)!Taken = popped => Ptr(r)!Abstract!Init
  BY DEF Ptr!Init, Ptr!Abstract!Init
<1>5. /\ PtrInv(r) /\ [Ptr(r)!Next]_(Ptr(r)!vars)
      /\ Ptr(r)!Held = queue /\ Ptr(r)!Taken = popped
      /\ (Ptr(r)!Held = queue /\ Ptr(r)!Taken = popped)'
      => [Ptr(r)!Abstract!Next]_(Ptr(r)!Abstract!vars)
  BY PtrNextRefines
<1>6. QED
  BY <1>1, <1>2, <1>3, <1>4, <1>5, PTL
     DEF Ptr!Spec, Ptr!ImplementsQueue, Ptr!Abstract!Spec

-----------------------------------------------------------------------------
(* fifo_sr: the inductive invariant.                                       *)

SrCounted == queue \in Seq(Words) /\ Len(queue) <= SrN

\* Nothing in the strobes tells an empty queue from a full one.
SrPositions == wr_ptr_1h_r = Plus(rd_ptr_1h_r, Len(queue), SrN)

SrContents == \A i \in 1 .. Len(queue) : mem[Plus(rd_ptr_1h_r, i - 1, SrN)] = queue[i]

SrInv == Sr!TypeOK /\ SrCounted /\ SrPositions /\ SrContents /\ Sr!FlagsSafe /\ Sr!PopsInOrder

SrStep(pushed, pop) == pushed \in Sr!Optional /\ pop \in BOOLEAN /\ Sr!Clock(pushed, pop)

-----------------------------------------------------------------------------
(* Pointers modulo the number of slots.                                    *)

\* A strobe moved on by up to N words, an equal one included.
LEMMA SlotMoved ==
  ASSUME NEW M \in Nat \ {0}, NEW p \in 0 .. M - 1, NEW k \in 0 .. M
  PROVE  /\ Plus(p, k, M) = IF p + k < M THEN p + k ELSE p + k - M
         /\ Plus(p, k, M) \in 0 .. M - 1
<1>1. p \in 0 .. 2 * M - 1
  OBVIOUS
<1>2. (p + k) % M = IF p + k < M THEN p + k
                    ELSE IF p + k < 2 * M THEN p + k - M ELSE p + k - 2 * M
  BY <1>1, WordAfter
<1>3. QED
  BY <1>2 DEF Plus

\* Moving the end is moving the start and counting a word less.
LEMMA SlotNext ==
  ASSUME NEW M \in Nat \ {0}, NEW p \in 0 .. M - 1, NEW gone \in 0 .. 1, gone < M,
         NEW k \in 0 .. M, NEW j \in 0 .. M, j = k + gone
  PROVE  Plus(Plus(p, gone, M), k, M) = Plus(p, j, M)
<1>0. /\ Plus(p, gone, M) = IF p + gone < M THEN p + gone ELSE p + gone - M
      /\ Plus(p, gone, M) \in 0 .. M - 1
  <2>1. gone \in 0 .. M
    OBVIOUS
  <2>2. QED
    BY <2>1, SlotMoved
<1>1. PICK q \in 0 .. M - 1 : /\ q = Plus(p, gone, M)
                             /\ q = IF p + gone < M THEN p + gone ELSE p + gone - M
  BY <1>0
<1>2. Plus(q, k, M) = IF q + k < M THEN q + k ELSE q + k - M
  BY SlotMoved
<1>3. Plus(p, j, M) = IF p + j < M THEN p + j ELSE p + j - M
  BY SlotMoved
<1>4. QED
  BY <1>1, <1>2, <1>3

\* Equal strobes mean no words or N.
LEMMA SlotsEqual ==
  ASSUME NEW M \in Nat \ {0}, NEW p \in 0 .. M - 1, NEW k \in 0 .. M
  PROVE  Plus(p, k, M) = p <=> k = 0 \/ k = M
<1>1. Plus(p, k, M) = IF p + k < M THEN p + k ELSE p + k - M
  BY SlotMoved
<1>2. QED
  BY <1>1

-----------------------------------------------------------------------------
LEMMA SrInitInv ==
  ASSUME Sr!Init
  PROVE  SrInv
<1>1. Sr!TypeOK
  BY DepthAssumption DEF Sr!Init, Sr!TypeOK, Sr!Slot, Sr!Optional
<1>2. SrCounted
  BY DepthAssumption DEF Sr!Init, SrCounted
<1>3. SrPositions
  <2>1. Plus(0, 0, SrN) = 0
    <3>1. SrN \in Nat \ {0} /\ 0 \in 0 .. SrN - 1
      BY DepthAssumption
    <3>2. QED
      BY <3>1, NotMoved
  <2>2. QED
    BY <2>1 DEF Sr!Init, SrPositions
<1>4. SrContents /\ Sr!FlagsSafe /\ Sr!PopsInOrder
  BY DepthAssumption DEF Sr!Init, SrContents, Sr!FlagsSafe, Sr!PopsInOrder
<1>5. QED
  BY <1>1, <1>2, <1>3, <1>4 DEF SrInv

\* What a cycle does to the scoreboard.  The flags keep a word from being pushed
\* to a full queue and from being popped from an empty one.
LEMMA SrQueueStep ==
  ASSUME SrInv, NEW pushed, NEW pop, SrStep(pushed, pop),
         NEW gone \in 0 .. 1, gone = 1 <=> pop
  PROVE  /\ gone <= Len(queue) /\ Len(queue) \in 0 .. SrN
         /\ queue' = SubSeq(queue, gone + 1, Len(queue)) \o pushed
         /\ queue' \in Seq(Words)
         /\ pushed \in Seq(Words) /\ Len(pushed) = IF pushed = <<>> THEN 0 ELSE 1
         /\ Len(queue') = Len(queue) - gone + Len(pushed)
         /\ Len(queue') <= SrN
         /\ \A i \in 1 .. Len(queue) - gone : queue'[i] = queue[i + gone]
         /\ pushed # <<>> => queue'[Len(queue) - gone + 1] = pushed[1]
         /\ pushed # <<>> => Len(queue) < SrN
<1>1. /\ queue \in Seq(Words) /\ Len(queue) \in 0 .. SrN /\ SrN \in Nat
      /\ pop => queue # <<>>
      /\ pushed # <<>> => Len(queue) # SrN
  BY DepthAssumption DEF SrStep, Sr!Clock, SrInv, Sr!FlagsSafe, SrCounted
<1>2. queue # <<>> => Len(queue) > 0
  BY <1>1, EmptySeq
<1>3. gone <= Len(queue)
  BY <1>1, <1>2
<1>4. (IF pop THEN Tail(queue) ELSE queue) = SubSeq(queue, gone + 1, Len(queue))
  <2>1. CASE pop
    <3>1. gone + 1 = 2
      BY <2>1
    <3>2. Tail(queue) = SubSeq(queue, 2, Len(queue))
      BY <1>1, <2>1, TailIsSubSeq
    <3>3. QED
      BY <2>1, <3>1, <3>2
  <2>2. CASE ~pop
    <3>1. gone + 1 = 1
      BY <2>2
    <3>2. SubSeq(queue, 1, Len(queue)) = queue
      BY <1>1, SubSeqFull
    <3>3. QED
      BY <2>2, <3>1, <3>2
  <2>3. QED
    BY <2>1, <2>2
<1> DEFINE rest == SubSeq(queue, gone + 1, Len(queue))
<1>5. queue' = rest \o pushed
  BY <1>4 DEF SrStep, Sr!Clock, Sr!Score
<1>6. /\ rest \in Seq(Words) /\ Len(rest) = Len(queue) - gone
      /\ \A i \in 1 .. Len(queue) - gone : rest[i] = queue[i + gone]
  BY <1>1, <1>3, Rest
<1> HIDE DEF rest
<1>7. /\ rest \o pushed \in Seq(Words)
      /\ \A i \in 1 .. Len(rest) : (rest \o pushed)[i] = rest[i]
      /\ Len(rest \o pushed) = Len(rest) + Len(pushed)
      /\ pushed # <<>> => (rest \o pushed)[Len(rest) + 1] = pushed[1]
      /\ Len(pushed) = IF pushed = <<>> THEN 0 ELSE 1
      /\ pushed \in Seq(Words)
  <2>1. pushed = <<>> \/ \E w \in Words : pushed = <<w>>
    BY DEF SrStep, Sr!Optional
  <2>2. QED
    BY <1>6, <2>1, Added
<1>8. /\ queue' \in Seq(Words)
      /\ Len(queue') = Len(queue) - gone + Len(pushed)
      /\ Len(pushed) = IF pushed = <<>> THEN 0 ELSE 1
      /\ pushed # <<>> => queue'[Len(queue) - gone + 1] = pushed[1]
  BY <1>5, <1>6, <1>7
<1>9. \A i \in 1 .. Len(queue) - gone : queue'[i] = queue[i + gone]
  BY <1>5, <1>6, <1>7
<1>10. Len(queue') <= SrN /\ (pushed # <<>> => Len(queue) < SrN)
  BY <1>1, <1>8
<1>11. QED
  BY <1>1, <1>3, <1>5, <1>7, <1>8, <1>9, <1>10 DEF rest

\* The strobes and the array after a cycle.
LEMMA SrStrobesStep ==
  ASSUME SrInv, NEW pushed, NEW pop, SrStep(pushed, pop),
         NEW gone \in 0 .. 1, gone = 1 <=> pop
  PROVE  /\ rd_ptr_1h_r' \in Sr!Slot /\ wr_ptr_1h_r' \in Sr!Slot
         /\ rd_ptr_1h_r' = Plus(rd_ptr_1h_r, gone, SrN)
         /\ SrPositions'
<1>1. PICK l \in 0 .. SrN : l = Len(queue)
  BY SrQueueStep
<1>2. PICK k \in 0 .. SrN, add \in 0 .. 1 :
        /\ k = Len(queue') /\ k = l - gone + add
        /\ add = IF pushed = <<>> THEN 0 ELSE 1
        /\ gone <= l /\ (add = 1 => l < SrN)
  <2>1. PICK add \in 0 .. 1 : add = IF pushed = <<>> THEN 0 ELSE 1
    OBVIOUS
  <2>2. /\ Len(queue') = Len(queue) - gone + Len(pushed)
        /\ Len(pushed) = IF pushed = <<>> THEN 0 ELSE 1
        /\ gone <= Len(queue) /\ Len(queue') <= SrN
        /\ pushed # <<>> => Len(queue) < SrN
    BY SrQueueStep
  <2>3. Len(queue') = l - gone + add /\ gone <= l /\ l - gone + add <= SrN /\ (add = 1 => l < SrN)
    BY <1>1, <2>1, <2>2
  <2>4. l - gone + add \in 0 .. SrN
    BY <2>3, DepthAssumption
  <2>5. QED
    BY <2>1, <2>3, <2>4
<1>3. /\ SrN \in Nat \ {0} /\ SrN >= 2 /\ rd_ptr_1h_r \in 0 .. SrN - 1
      /\ wr_ptr_1h_r = Plus(rd_ptr_1h_r, l, SrN)
  BY <1>1, DepthAssumption DEF SrInv, Sr!TypeOK, Sr!Slot, SrPositions
<1>4. wr_ptr_1h_r \in 0 .. SrN - 1
  BY <1>3, SlotMoved
<1>5. Plus(rd_ptr_1h_r, 0, SrN) = rd_ptr_1h_r /\ Plus(wr_ptr_1h_r, 0, SrN) = wr_ptr_1h_r
  BY <1>3, <1>4, NotMoved
<1>6. rd_ptr_1h_r' = Plus(rd_ptr_1h_r, gone, SrN)
  <2>1. rd_ptr_1h_r' = IF pop THEN Plus(rd_ptr_1h_r, 1, SrN) ELSE rd_ptr_1h_r
    BY DEF SrStep, Sr!Clock, Sr!Edge, Sr!rd_ptr_1h_w, Sr!Rotated, Plus
  <2>2. QED
    BY <1>5, <2>1
<1>7. wr_ptr_1h_r' = Plus(wr_ptr_1h_r, add, SrN)
  <2>1. wr_ptr_1h_r' = IF pushed # <<>> THEN Plus(wr_ptr_1h_r, 1, SrN) ELSE wr_ptr_1h_r
    BY DEF SrStep, Sr!Clock, Sr!Edge, Sr!wr_ptr_1h_w, Sr!Rotated, Plus
  <2>2. QED
    BY <1>2, <1>5, <2>1
<1>8. PICK e \in 0 .. SrN : e = l + add
  BY <1>2, <1>3
<1>9. 0 \in 0 .. SrN /\ gone \in 0 .. SrN /\ add \in 0 .. SrN
  BY <1>3
<1>10. rd_ptr_1h_r' \in 0 .. SrN - 1 /\ wr_ptr_1h_r' \in 0 .. SrN - 1
  BY <1>3, <1>4, <1>6, <1>7, <1>9, SlotMoved
<1>11. Plus(Plus(rd_ptr_1h_r, gone, SrN), k, SrN) = Plus(rd_ptr_1h_r, e, SrN)
  BY <1>2, <1>3, <1>8, SlotNext
<1>12. Plus(Plus(rd_ptr_1h_r, l, SrN), add, SrN) = Plus(rd_ptr_1h_r, e, SrN)
  <2>1. Plus(rd_ptr_1h_r, l, SrN) = IF rd_ptr_1h_r + l < SrN THEN rd_ptr_1h_r + l
                                  ELSE rd_ptr_1h_r + l - SrN
    BY <1>3, SlotMoved
  <2>2. Plus(rd_ptr_1h_r, e, SrN) = IF rd_ptr_1h_r + e < SrN THEN rd_ptr_1h_r + e
                                  ELSE rd_ptr_1h_r + e - SrN
    BY <1>3, SlotMoved
  <2>3. Plus(wr_ptr_1h_r, add, SrN) = IF wr_ptr_1h_r + add < SrN THEN wr_ptr_1h_r + add
                                    ELSE wr_ptr_1h_r + add - SrN
    BY <1>3, <1>4, <1>9, SlotMoved
  <2>4. QED
    BY <1>3, <1>8, <2>1, <2>2, <2>3
<1>13. wr_ptr_1h_r' = Plus(rd_ptr_1h_r', k, SrN)
  BY <1>3, <1>6, <1>7, <1>11, <1>12
<1>14. QED
  BY <1>2, <1>6, <1>10, <1>13 DEF SrPositions, Sr!Slot

LEMMA SrContentsStep ==
  ASSUME SrInv, NEW pushed, NEW pop, SrStep(pushed, pop),
         NEW gone \in 0 .. 1, gone = 1 <=> pop
  PROVE  mem' \in [Sr!Slot -> Words] /\ SrContents'
<1>1. PICK l \in 0 .. SrN : l = Len(queue)
  BY SrQueueStep
<1>2. /\ gone <= l
      /\ Len(queue') = l - gone + (IF pushed = <<>> THEN 0 ELSE 1)
      /\ \A i \in 1 .. l - gone : queue'[i] = queue[i + gone]
      /\ pushed # <<>> => queue'[l - gone + 1] = pushed[1]
      /\ pushed # <<>> => l < SrN
  <2>1. /\ gone <= Len(queue)
        /\ Len(pushed) = IF pushed = <<>> THEN 0 ELSE 1
        /\ Len(queue') = Len(queue) - gone + Len(pushed)
        /\ \A i \in 1 .. Len(queue) - gone : queue'[i] = queue[i + gone]
        /\ pushed # <<>> => queue'[Len(queue) - gone + 1] = pushed[1]
        /\ pushed # <<>> => Len(queue) < SrN
    BY SrQueueStep
  <2>2. QED
    BY <1>1, <2>1
<1>3. /\ SrN \in Nat \ {0} /\ SrN >= 2 /\ rd_ptr_1h_r \in 0 .. SrN - 1 /\ rd_ptr_1h_r \in 0 .. 2 * SrN - 1
      /\ wr_ptr_1h_r = Plus(rd_ptr_1h_r, l, SrN)
      /\ rd_ptr_1h_r' = Plus(rd_ptr_1h_r, gone, SrN)
  BY <1>1, SrStrobesStep, DepthAssumption DEF SrInv, Sr!TypeOK, Sr!Slot,
                                              SrPositions
<1>4. \A k \in 0 .. SrN : Plus(rd_ptr_1h_r, k, SrN) \in 0 .. SrN - 1
  BY <1>3, SlotMoved
<1>5. /\ mem \in [0 .. SrN - 1 -> Words]
      /\ mem' = IF pushed # <<>> THEN [mem EXCEPT ![Plus(rd_ptr_1h_r, l, SrN)] = pushed[1]] ELSE mem
      /\ pushed # <<>> => pushed[1] \in Words
  <2>1. pushed # <<>> => pushed[1] \in Words
    BY DEF SrStep, Sr!Optional
  <2>2. mem' = IF pushed # <<>> THEN [mem EXCEPT ![wr_ptr_1h_r] = pushed[1]] ELSE mem
    BY DEF SrStep, Sr!Clock, Sr!Edge
  <2>3. mem \in [0 .. SrN - 1 -> Words]
    BY DEF SrInv, Sr!TypeOK, Sr!Slot
  <2>4. QED
    BY <1>3, <2>1, <2>2, <2>3
<1>6. mem' \in [0 .. SrN - 1 -> Words]
  BY <1>5
<1>7. ASSUME NEW i \in 1 .. Len(queue')
      PROVE  mem'[Plus(rd_ptr_1h_r', i - 1, SrN)] = queue'[i]
  <2>1. PICK j \in 0 .. SrN, k \in 0 .. SrN : k = i - 1 /\ j = k + gone /\ j <= l
    <3>1. i - 1 \in 0 .. SrN /\ i - 1 + gone \in 0 .. SrN /\ i - 1 + gone <= l
      BY <1>1, <1>2, <1>3
    <3>2. QED
      BY <3>1
  <2>2. Plus(rd_ptr_1h_r', i - 1, SrN) = Plus(rd_ptr_1h_r, j, SrN)
    <3>1. Plus(Plus(rd_ptr_1h_r, gone, SrN), k, SrN) = Plus(rd_ptr_1h_r, j, SrN)
      <4>1. gone < SrN
        BY <1>3
      <4>2. QED
        BY <1>3, <2>1, <4>1, SlotNext
    <3>2. QED
      BY <1>3, <2>1, <3>1
  <2>3. CASE j < l
    <3>1. queue'[i] = queue[j + 1] /\ j + 1 \in 1 .. l
      BY <1>2, <2>1, <2>3
    <3>2. mem[Plus(rd_ptr_1h_r, (j + 1) - 1, SrN)] = queue[j + 1]
      BY <1>1, <3>1 DEF SrInv, SrContents
    <3>3. (j + 1) - 1 = j
      BY <2>1
    <3>4. pushed # <<>> => Plus(rd_ptr_1h_r, j, SrN) # Plus(rd_ptr_1h_r, l, SrN)
      <4>1. pushed # <<>> => l - j < SrN
        BY <1>1, <1>2, <1>3, <2>1
      <4>2. QED
        BY <1>3, <2>3, <4>1, SlotsDiffer
    <3>5. mem'[Plus(rd_ptr_1h_r, j, SrN)] = mem[Plus(rd_ptr_1h_r, j, SrN)]
      BY <1>4, <1>5, <2>1, <3>4
    <3>6. QED
      BY <2>2, <3>1, <3>2, <3>3, <3>5
  <2>4. CASE j = l
    <3>1. pushed # <<>> /\ i = l - gone + 1
      BY <1>2, <2>1, <2>4
    <3>2. mem'[Plus(rd_ptr_1h_r, l, SrN)] = pushed[1]
      BY <1>4, <1>5, <3>1
    <3>3. QED
      BY <1>2, <2>2, <2>4, <3>1, <3>2
  <2>5. QED
    BY <2>1, <2>3, <2>4
<1>8. QED
  BY <1>6, <1>7 DEF SrContents, Sr!Slot

\* The flags: a flag is raised by the side that moves towards it alone, and
\* whether the other side moved too is seen only in the next cycle.
LEMMA SrFlagsStep ==
  ASSUME SrInv, NEW pushed, NEW pop, SrStep(pushed, pop),
         NEW gone \in 0 .. 1, gone = 1 <=> pop
  PROVE  Sr!FlagsSafe' /\ empty_r' \in BOOLEAN /\ full_r' \in BOOLEAN
<1>1. PICK l \in 0 .. SrN : l = Len(queue)
  BY SrQueueStep
<1>2. PICK add \in 0 .. 1 : add = IF pushed = <<>> THEN 0 ELSE 1
  OBVIOUS
<1>3. /\ Len(queue') = l - gone + add /\ gone <= l /\ (add = 1 => l < SrN)
      /\ queue' = <<>> <=> l - gone + add = 0
  <2>1. /\ Len(queue') = Len(queue) - gone + Len(pushed)
        /\ Len(pushed) = IF pushed = <<>> THEN 0 ELSE 1
        /\ gone <= Len(queue) /\ queue' \in Seq(Words)
        /\ pushed # <<>> => Len(queue) < SrN
    BY SrQueueStep
  <2>2. queue' = <<>> <=> Len(queue') = 0
    BY <2>1, EmptySeq
  <2>3. QED
    BY <1>1, <1>2, <2>1, <2>2
<1>4. /\ SrN \in Nat \ {0} /\ SrN >= 2 /\ rd_ptr_1h_r \in 0 .. SrN - 1
      /\ wr_ptr_1h_r = Plus(rd_ptr_1h_r, l, SrN)
  BY <1>1, DepthAssumption DEF SrInv, Sr!TypeOK, Sr!Slot, SrPositions
<1>5. /\ empty_r \in BOOLEAN /\ full_r \in BOOLEAN
      /\ l = 0 => empty_r
      /\ l = SrN => full_r
      /\ empty_r => l <= 1
      /\ full_r => l >= SrN - 1
      /\ add = 1 => ~full_r
      /\ gone = 1 => ~empty_r
  <2>1. queue = <<>> <=> l = 0
    BY <1>1, EmptySeq DEF SrInv, SrCounted
  <2>2. QED
    BY <1>1, <1>2, <2>1 DEF SrInv, Sr!FlagsSafe, Sr!TypeOK, SrStep, Sr!Clock
<1>6. wr_ptr_1h_r = IF rd_ptr_1h_r + l < SrN THEN rd_ptr_1h_r + l ELSE rd_ptr_1h_r + l - SrN
  BY <1>4, SlotMoved
<1>7. wr_ptr_1h_r \in 0 .. SrN - 1
  BY <1>4, SlotMoved
<1>8. /\ Plus(rd_ptr_1h_r, 1, SrN) = IF rd_ptr_1h_r + 1 < SrN THEN rd_ptr_1h_r + 1
                                   ELSE rd_ptr_1h_r + 1 - SrN
      /\ Plus(wr_ptr_1h_r, 1, SrN) = IF wr_ptr_1h_r + 1 < SrN THEN wr_ptr_1h_r + 1
                                   ELSE wr_ptr_1h_r + 1 - SrN
  <2>1. 1 \in 0 .. SrN
    BY <1>4
  <2>2. QED
    BY <1>4, <1>7, <2>1, SlotMoved
\* The strobes after the cycle, compared with those before it.
<1>9. /\ wr_ptr_1h_r = rd_ptr_1h_r <=> l = 0 \/ l = SrN
      /\ wr_ptr_1h_r = Plus(rd_ptr_1h_r, 1, SrN) <=> l = 1
      /\ Plus(wr_ptr_1h_r, 1, SrN) = rd_ptr_1h_r <=> l = SrN - 1
  BY <1>4, <1>6, <1>7, <1>8
<1>10. /\ empty_r => (empty_r' <=> add = 0)
       /\ ~empty_r => (empty_r' <=> gone = 1 /\ l = 1)
  <2>1. empty_r' = IF empty_r THEN ~(pushed # <<>>)
                   ELSE /\ wr_ptr_1h_r # rd_ptr_1h_r
                        /\ wr_ptr_1h_r = IF pop THEN Plus(rd_ptr_1h_r, 1, SrN) ELSE rd_ptr_1h_r
    BY DEF SrStep, Sr!Clock, Sr!Edge, Sr!empty_w, Sr!rd_ptr_1h_w, Sr!Rotated, Plus
  <2>2. empty_r => (empty_r' <=> add = 0)
    <3>1. empty_r => empty_r' = ~(pushed # <<>>)
      BY <2>1
    <3>2. add = 0 <=> ~(pushed # <<>>)
      BY <1>2
    <3>3. QED
      BY <3>1, <3>2
  <2>3. ~empty_r => (empty_r' <=> /\ wr_ptr_1h_r # rd_ptr_1h_r
                                  /\ wr_ptr_1h_r = IF pop THEN Plus(rd_ptr_1h_r, 1, SrN) ELSE rd_ptr_1h_r)
    BY <2>1
  <2>4. /\ wr_ptr_1h_r # rd_ptr_1h_r
        /\ wr_ptr_1h_r = IF pop THEN Plus(rd_ptr_1h_r, 1, SrN) ELSE rd_ptr_1h_r
        <=> gone = 1 /\ l = 1
    BY <1>4, <1>9
  <2>5. QED
    BY <2>2, <2>3, <2>4
<1>11. /\ full_r => (full_r' <=> gone = 0)
       /\ ~full_r => (full_r' <=> add = 1 /\ l = SrN - 1)
  <2>1. full_r' = IF full_r THEN ~pop
                  ELSE /\ wr_ptr_1h_r # rd_ptr_1h_r
                       /\ (IF pushed # <<>> THEN Plus(wr_ptr_1h_r, 1, SrN) ELSE wr_ptr_1h_r) = rd_ptr_1h_r
    BY DEF SrStep, Sr!Clock, Sr!Edge, Sr!full_w, Sr!wr_ptr_1h_w, Sr!Rotated, Plus
  <2>2. full_r => (full_r' <=> gone = 0)
    <3>1. full_r => full_r' = ~pop
      BY <2>1
    <3>2. gone = 0 <=> ~pop
      OBVIOUS
    <3>3. QED
      BY <3>1, <3>2
  <2>3. ~full_r => (full_r' <=> /\ wr_ptr_1h_r # rd_ptr_1h_r
                                /\ (IF pushed # <<>> THEN Plus(wr_ptr_1h_r, 1, SrN) ELSE wr_ptr_1h_r) = rd_ptr_1h_r)
    BY <2>1
  <2>4. /\ wr_ptr_1h_r # rd_ptr_1h_r
        /\ (IF pushed # <<>> THEN Plus(wr_ptr_1h_r, 1, SrN) ELSE wr_ptr_1h_r) = rd_ptr_1h_r
        <=> add = 1 /\ l = SrN - 1
    BY <1>2, <1>4, <1>9
  <2>5. QED
    BY <2>2, <2>3, <2>4
<1>12. empty_r' \in BOOLEAN /\ full_r' \in BOOLEAN
  BY <1>5 DEF SrStep, Sr!Clock, Sr!Edge, Sr!empty_w, Sr!full_w
<1>13. /\ l - gone + add = 0 => empty_r'
       /\ l - gone + add = SrN => full_r'
       /\ empty_r' => l - gone + add <= 1
       /\ full_r' => l - gone + add >= SrN - 1
  BY <1>3, <1>4, <1>5, <1>10, <1>11
<1>14. QED
  BY <1>3, <1>12, <1>13 DEF Sr!FlagsSafe

LEMMA SrPopStep ==
  ASSUME SrInv, NEW pushed, NEW pop, SrStep(pushed, pop)
  PROVE  /\ pop_data' \in Sr!Optional /\ Sr!PopsInOrder'
         /\ pop => Len(queue) > 0 /\ expected' = <<queue[1]>>
<1>1. CASE ~pop
  BY <1>1 DEF SrStep, Sr!Clock, Sr!Edge, Sr!Score, Sr!Optional, Sr!PopsInOrder
<1>2. CASE pop
  <2>1. queue \in Seq(Words) /\ queue # <<>>
    BY <1>2 DEF SrInv, SrCounted, Sr!FlagsSafe, SrStep, Sr!Clock
  <2>2. Len(queue) \in Nat /\ Len(queue) > 0 /\ 1 \in 1 .. Len(queue) /\ Head(queue) = queue[1]
    BY <2>1, EmptySeq
  <2>3. mem[Plus(rd_ptr_1h_r, 1 - 1, SrN)] = queue[1]
    BY <2>2 DEF SrInv, SrContents
  <2>4. Plus(rd_ptr_1h_r, 1 - 1, SrN) = rd_ptr_1h_r
    <3>1. SrN \in Nat \ {0} /\ rd_ptr_1h_r \in 0 .. SrN - 1 /\ 1 - 1 = 0
      BY DepthAssumption DEF SrInv, Sr!TypeOK, Sr!Slot
    <3>2. Plus(rd_ptr_1h_r, 0, SrN) = rd_ptr_1h_r
      BY <3>1, NotMoved
    <3>3. QED
      BY <3>1, <3>2
  <2>5. pop_data' = <<queue[1]>> /\ expected' = <<queue[1]>>
    BY <1>2, <2>2, <2>3, <2>4 DEF SrStep, Sr!Clock, Sr!Edge, Sr!Score
  <2>6. queue[1] \in Words
    BY <2>1, <2>2, ElementOfSeq
  <2>7. QED
    BY <2>2, <2>5, <2>6 DEF Sr!Optional, Sr!PopsInOrder
<1>3. QED
  BY <1>1, <1>2 DEF SrStep

\* The invariant is inductive.
LEMMA SrNextInv ==
  ASSUME SrInv, [Sr!Next]_(Sr!vars)
  PROVE  SrInv'
<1>1. CASE Sr!Next
  <2>1. PICK pushed, pop : SrStep(pushed, pop)
    BY <1>1 DEF Sr!Next, SrStep
  <2>2. PICK gone \in 0 .. 1 : gone = 1 <=> pop
    <3>1. CASE pop
      BY <3>1
    <3>2. CASE ~pop
      BY <3>2
    <3>3. QED
      BY <3>1, <3>2
  <2>3. SrCounted'
    BY <2>1, <2>2, SrQueueStep DEF SrCounted
  <2>4. SrPositions' /\ rd_ptr_1h_r' \in Sr!Slot /\ wr_ptr_1h_r' \in Sr!Slot
    BY <2>1, <2>2, SrStrobesStep
  <2>5. SrContents' /\ mem' \in [Sr!Slot -> Words]
    BY <2>1, <2>2, SrContentsStep
  <2>6. Sr!FlagsSafe' /\ empty_r' \in BOOLEAN /\ full_r' \in BOOLEAN
    BY <2>1, <2>2, SrFlagsStep
  <2>7. Sr!PopsInOrder' /\ pop_data' \in Sr!Optional
    BY <2>1, SrPopStep
  <2>8. Sr!TypeOK'
    BY <2>4, <2>5, <2>6, <2>7 DEF Sr!TypeOK, Sr!Slot, Sr!Optional
  <2>9. QED
    BY <2>3, <2>4, <2>5, <2>6, <2>7, <2>8 DEF SrInv
<1>2. CASE UNCHANGED Sr!vars
  BY <1>2 DEF Sr!vars, SrInv, Sr!TypeOK, SrCounted, SrPositions, SrContents,
              Sr!FlagsSafe, Sr!PopsInOrder
<1>3. QED
  BY <1>1, <1>2

-----------------------------------------------------------------------------
\* In every state the strobes select slots, and the words are words.
THEOREM SrTypeCorrect == Sr!Spec => []Sr!TypeOK
<1>1. Sr!Init => SrInv
  BY SrInitInv
<1>2. SrInv /\ [Sr!Next]_(Sr!vars) => SrInv'
  BY SrNextInv
<1>3. SrInv => Sr!TypeOK
  BY DEF SrInv
<1>4. QED
  BY <1>1, <1>2, <1>3, PTL DEF Sr!Spec

\* What is popped is what was pushed, in order, for every number of slots.
THEOREM SrPopsCorrect == Sr!Spec => []Sr!PopsInOrder
<1>1. Sr!Init => SrInv
  BY SrInitInv
<1>2. SrInv /\ [Sr!Next]_(Sr!vars) => SrInv'
  BY SrNextInv
<1>3. SrInv => Sr!PopsInOrder
  BY DEF SrInv
<1>4. QED
  BY <1>1, <1>2, <1>3, PTL DEF Sr!Spec

\* The flags are wrong by one word at most, and never promise a word or a slot
\* that is not there: no push overwrites a word and no pop finds none.
THEOREM SrFlagsErrSafely == Sr!Spec => []Sr!FlagsSafe
<1>1. Sr!Init => SrInv
  BY SrInitInv
<1>2. SrInv /\ [Sr!Next]_(Sr!vars) => SrInv'
  BY SrNextInv
<1>3. SrInv => Sr!FlagsSafe
  BY DEF SrInv
<1>4. QED
  BY <1>1, <1>2, <1>3, PTL DEF Sr!Spec

-----------------------------------------------------------------------------
(* The refinement: what lies between the strobes is the abstract queue.    *)

\* Equal strobes hold N words only if full_r says so, and then they do: an
\* empty queue of two slots or more is never flagged full.
LEMMA SrHeldIsQueue ==
  ASSUME SrInv
  PROVE  Sr!Held = queue
<1>1. PICK l \in 0 .. SrN : l = Len(queue)
  <2>1. Len(queue) \in 0 .. SrN
    BY DepthAssumption DEF SrInv, SrCounted
  <2>2. QED
    BY <2>1
<1>2. /\ SrN \in Nat \ {0} /\ SrN >= 2 /\ rd_ptr_1h_r \in 0 .. SrN - 1
      /\ wr_ptr_1h_r = Plus(rd_ptr_1h_r, l, SrN)
      /\ queue \in Seq(Words)
      /\ l = SrN => full_r
      /\ full_r => l >= SrN - 1
  BY <1>1, DepthAssumption DEF SrInv, Sr!TypeOK, Sr!Slot, SrPositions, SrCounted,
                               Sr!FlagsSafe
<1>3. wr_ptr_1h_r = rd_ptr_1h_r <=> l = 0 \/ l = SrN
  BY <1>2, SlotsEqual
<1>4. Sr!Fill = l
  <2>1. CASE l = SrN
    BY <1>2, <1>3, <2>1 DEF Sr!Fill
  <2>2. CASE l # SrN
    <3>1. ~(wr_ptr_1h_r = rd_ptr_1h_r /\ full_r)
      BY <1>2, <1>3, <2>2
    <3>2. l \in 0 .. SrN - 1
      BY <1>2, <2>2
    <3>3. (Plus(rd_ptr_1h_r, l, SrN) - rd_ptr_1h_r) % SrN = l
      BY <1>2, <3>2, HasMoved
    <3>4. Sr!Fill = (wr_ptr_1h_r - rd_ptr_1h_r) % SrN
      BY <3>1 DEF Sr!Fill
    <3>5. QED
      BY <1>2, <3>3, <3>4
  <2>3. QED
    BY <2>1, <2>2
<1>5. \A i \in 1 .. l : mem[Sr!Rotated(rd_ptr_1h_r, i - 1)] = queue[i]
  BY <1>1 DEF SrInv, SrContents, Sr!Rotated, Plus
<1> DEFINE f == [i \in 1 .. l |-> mem[Sr!Rotated(rd_ptr_1h_r, i - 1)]]
<1>6. DOMAIN f = 1 .. Len(queue) /\ f = [i \in DOMAIN f |-> f[i]]
  BY <1>1
<1>7. \A i \in 1 .. Len(queue) : f[i] = queue[i]
  BY <1>1, <1>5
<1>8. Sr!Held = f
  BY <1>4 DEF Sr!Held
<1> HIDE DEF f
<1>9. f = queue
  BY <1>2, <1>6, <1>7, SameWords
<1>10. QED
  BY <1>8, <1>9

\* A cycle of fifo_sr is a cycle of the abstract queue.
LEMMA SrStepRefines ==
  ASSUME SrInv, NEW pushed, NEW pop, SrStep(pushed, pop),
         Sr!Held = queue, Sr!Held' = queue'
  PROVE  Sr!Abstract!Next
<1>1. PICK gone \in 0 .. 1 : (gone = 1 <=> pop) /\ gone = Sr!Abstract!One(pop)
  <2>1. Sr!Abstract!One(pop) \in 0 .. 1 /\ (Sr!Abstract!One(pop) = 1 <=> pop)
    BY DEF Sr!Abstract!One
  <2>2. QED
    BY <2>1
<1>2. /\ queue' = SubSeq(queue, gone + 1, Len(queue)) \o pushed
      /\ Len(queue') = Len(queue) - gone + Len(pushed)
      /\ Len(queue') <= SrN
      /\ pushed \in Seq(Words) /\ Len(pushed) = IF pushed = <<>> THEN 0 ELSE 1
  BY <1>1, SrQueueStep
<1>3. PICK n \in 0 .. 1 : n = Len(pushed)
  BY <1>2
<1>4. pushed \in [1 .. n -> Words]
  BY <1>2, <1>3
<1>5. pop => Len(queue) > 0 /\ expected' = <<queue[1]>>
  BY SrPopStep
<1>6. pop_data' = IF pop THEN <<queue[0 + 1]>> ELSE <<>>
  <2>1. pop_data' = expected'
    BY SrPopStep DEF Sr!PopsInOrder
  <2>2. ~pop => expected' = <<>>
    BY DEF SrStep, Sr!Clock, Sr!Score
  <2>3. QED
    BY <1>5, <2>1, <2>2
<1>7. 1 + Sr!Abstract!One(pop) = gone + 1
  BY <1>1
<1>8. 0 = 0 + Sr!Abstract!One(pop) - Sr!Abstract!One(pop)
  BY <1>1
<1>9. pop => 0 + Sr!Abstract!One(pop) > 0
  BY DEF Sr!Abstract!One
<1>10. Sr!Abstract!Cycle(pushed, pop, pop, FALSE)
  <2>1. Len(queue) - Sr!Abstract!One(pop) + Len(pushed) <= SrN
    BY <1>1, <1>2
  <2>2. queue' = SubSeq(queue, 1 + Sr!Abstract!One(pop), Len(queue)) \o pushed
    BY <1>2, <1>7
  <2>3. QED
    BY <1>5, <1>6, <1>8, <1>9, <2>1, <2>2 DEF Sr!Abstract!Cycle
<1>11. pop \in BOOLEAN /\ FALSE \in BOOLEAN /\ 1 \in Nat
  BY DEF SrStep
<1>12. QED
  BY <1>3, <1>4, <1>10, <1>11 DEF Sr!Abstract!Next

LEMMA SrNextRefines ==
  ASSUME SrInv, [Sr!Next]_(Sr!vars), Sr!Held = queue, Sr!Held' = queue'
  PROVE  [Sr!Abstract!Next]_(Sr!Abstract!vars)
<1>1. CASE Sr!Next
  <2>1. PICK pushed, pop : SrStep(pushed, pop)
    BY <1>1 DEF Sr!Next, SrStep
  <2>2. Sr!Abstract!Next
    BY <2>1, SrStepRefines
  <2>3. QED
    BY <2>2
<1>2. CASE UNCHANGED Sr!vars
  BY <1>2 DEF Sr!vars, Sr!Abstract!vars
<1>3. QED
  BY <1>1, <1>2

\* Seen through its strobes, its array and full_r, fifo_sr is a queue of N
\* words: what the flags err about is when a word may be pushed or popped, never
\* which word it is.
THEOREM SrRefinement == Sr!Spec => Sr!ImplementsQueue
<1>1. Sr!Init => SrInv
  BY SrInitInv
<1>2. SrInv /\ [Sr!Next]_(Sr!vars) => SrInv'
  BY SrNextInv
<1>3. SrInv => Sr!Held = queue
  BY SrHeldIsQueue
<1>4. Sr!Init /\ Sr!Held = queue => Sr!Abstract!Init
  BY DEF Sr!Init, Sr!Abstract!Init
<1>5. /\ SrInv /\ [Sr!Next]_(Sr!vars)
      /\ Sr!Held = queue /\ (Sr!Held = queue)'
      => [Sr!Abstract!Next]_(Sr!Abstract!vars)
  BY SrNextRefines
<1>6. QED
  BY <1>1, <1>2, <1>3, <1>4, <1>5, PTL DEF Sr!Spec, Sr!ImplementsQueue, Sr!Abstract!Spec

-----------------------------------------------------------------------------
(* fifo_n: the inductive invariant.  Each queue is a ring of its own.      *)

VqRing(vq) ==
  Ring(Words, VqN, fifo_state_r[vq].rd_ptr, fifo_state_r[vq].wr_ptr, mem[vq], queue[vq])

VqInv ==
  /\ Vqs!TypeOK /\ queue \in [Vqs!Vq -> Seq(Words)]
  /\ \A vq \in Vqs!Vq : VqRing(vq)
  /\ Vqs!FlagsExact /\ Vqs!PopsInOrder

VqStep(pushed, from) ==
  /\ pushed \in Vqs!AtMostOne(Vqs!Access) /\ from \in Vqs!AtMostOne(Vqs!Vq)
  /\ \A a \in pushed : Len(queue[a.vq]) < VqN \/ a.vq \in from
  /\ \A vq \in from : queue[vq] # <<>>
  /\ Vqs!Edge(pushed, from)
  /\ Vqs!Score(pushed, from)

TheOne(S) == CHOOSE e \in S : TRUE

\* What a cycle has for one of the queues: the word pushed to it, if any, and
\* whether its oldest word leaves.
VqPushed(vq, pushed) ==
  IF Vqs!To(vq, pushed) = {} THEN <<>> ELSE <<TheOne(pushed).word>>
VqGone(vq, from) == IF vq \in from THEN 1 ELSE 0

\* A push is to one queue, and the others have none.
LEMMA VqInput ==
  ASSUME NEW pushed, pushed \in Vqs!AtMostOne(Vqs!Access), NEW vq \in Vqs!Vq
  PROVE  \/ pushed = {} /\ Vqs!To(vq, pushed) = {} /\ VqPushed(vq, pushed) = <<>>
         \/ \E a \in Vqs!Access :
              /\ pushed = {a}
              /\ Vqs!To(vq, pushed) = IF a.vq = vq THEN {a} ELSE {}
              /\ VqPushed(vq, pushed) = IF a.vq = vq THEN <<a.word>> ELSE <<>>
<1>1. CASE pushed = {}
  BY <1>1 DEF Vqs!To, VqPushed
<1>2. CASE \E a \in Vqs!Access : pushed = {a}
  <2>1. PICK a \in Vqs!Access : pushed = {a}
    BY <1>2
  <2>2. Vqs!To(vq, pushed) = IF a.vq = vq THEN {a} ELSE {}
    BY <2>1 DEF Vqs!To
  <2>3. TheOne(pushed) = a
    BY <2>1 DEF TheOne
  <2>4. VqPushed(vq, pushed) = IF a.vq = vq THEN <<a.word>> ELSE <<>>
    <3>1. CASE a.vq = vq
      BY <2>2, <2>3, <3>1 DEF VqPushed
    <3>2. CASE a.vq # vq
      BY <2>2, <3>2 DEF VqPushed
    <3>3. QED
      BY <3>1, <3>2
  <2>5. QED
    BY <2>1, <2>2, <2>4
<1>3. QED
  BY <1>1, <1>2 DEF Vqs!AtMostOne

LEMMA VqWord ==
  ASSUME NEW pushed, pushed \in Vqs!AtMostOne(Vqs!Access), NEW vq \in Vqs!Vq
  PROVE  /\ VqPushed(vq, pushed) = <<>> \/ \E x \in Words : VqPushed(vq, pushed) = <<x>>
         /\ Vqs!To(vq, pushed) # {} <=> VqPushed(vq, pushed) # <<>>
<1>1. \A a \in Vqs!Access : a.word \in Words /\ <<a.word>> # <<>>
  BY DEF Vqs!Access
<1>2. QED
  BY <1>1, VqInput

\* What a cycle does to the words of one queue.
LEMMA VqScoreStep ==
  ASSUME VqInv, NEW pushed, NEW from, VqStep(pushed, from), NEW vq \in Vqs!Vq,
         NEW gone, gone = VqGone(vq, from),
         NEW more, more = IF VqPushed(vq, pushed) = <<>> THEN 0 ELSE 1
  PROVE  /\ gone \in 0 .. 1 /\ gone <= Len(queue[vq])
         /\ more \in 0 .. 1 /\ Len(queue[vq]) - gone + more <= VqN
         /\ queue'[vq] = SubSeq(queue[vq], gone + 1, Len(queue[vq])) \o VqPushed(vq, pushed)
<1>1. PICK q \in Seq(Words) : q = queue[vq]
  BY DEF VqInv
<1>2. PICK l \in Nat : l = Len(q) /\ l <= VqN
  BY <1>1 DEF VqInv, VqRing, Ring
<1>3. vq \in from => q # <<>>
  BY <1>1 DEF VqStep
<1>4. gone \in 0 .. 1 /\ (gone = 1 <=> vq \in from) /\ gone <= l
  <2>1. q # <<>> => l > 0
    BY <1>2, EmptySeq
  <2>2. QED
    BY <1>2, <1>3, <2>1 DEF VqGone
<1>5. more \in 0 .. 1 /\ l - gone + more <= VqN
  <2>1. VqPushed(vq, pushed) # <<>> => l < VqN \/ vq \in from
    <3> SUFFICES ASSUME VqPushed(vq, pushed) # <<>> PROVE l < VqN \/ vq \in from
      OBVIOUS
    <3>1. PICK a \in Vqs!Access : pushed = {a} /\ a.vq = vq
      BY VqInput DEF VqStep
    <3>2. Len(queue[a.vq]) < VqN \/ a.vq \in from
      BY <3>1 DEF VqStep
    <3>3. QED
      BY <1>1, <1>2, <3>1, <3>2
  <2>2. VqN \in Nat
    BY DepthAssumption
  <2>3. QED
    BY <1>2, <1>4, <2>1, <2>2
<1> DEFINE rest == IF vq \in from THEN Tail(q) ELSE q
           left == [v \in Vqs!Vq |-> IF v \in from THEN Tail(queue[v]) ELSE queue[v]]
<1>6. rest = SubSeq(q, gone + 1, l)
  <2>1. CASE vq \in from
    <3>1. gone + 1 = 2
      BY <1>4, <2>1
    <3>2. Tail(q) = SubSeq(q, 2, Len(q))
      BY <1>3, <2>1, TailIsSubSeq
    <3>3. QED
      BY <1>2, <2>1, <3>1, <3>2
  <2>2. CASE vq \notin from
    <3>1. gone + 1 = 1
      BY <1>4, <2>2
    <3>2. SubSeq(q, 1, Len(q)) = q
      BY SubSeqFull
    <3>3. QED
      BY <1>2, <2>2, <3>1, <3>2
  <2>3. QED
    BY <2>1, <2>2
<1>7. rest \in Seq(Words)
  <2>1. vq \in from => Tail(q) \in Seq(Words)
    BY <1>3
  <2>2. QED
    BY <2>1
<1>8. left[vq] = rest
  BY <1>1
<1>9. queue'[vq] = rest \o VqPushed(vq, pushed)
  <2>1. CASE pushed = {}
    <3>1. queue' = left
      BY <2>1 DEF VqStep, Vqs!Score
    <3>2. VqPushed(vq, pushed) = <<>>
      BY <2>1 DEF VqPushed, Vqs!To
    <3> HIDE DEF rest, left
    <3>3. rest \o <<>> = rest
      BY <1>7, ConcatEmptySeq
    <3>4. QED
      BY <1>8, <3>1, <3>2, <3>3
  <2>2. CASE pushed # {}
    <3>1. PICK a \in Vqs!Access :
                 /\ pushed = {a}
                 /\ VqPushed(vq, pushed) = IF a.vq = vq THEN <<a.word>> ELSE <<>>
      BY <2>2, VqInput DEF VqStep
    <3>2. queue' = [left EXCEPT ![a.vq] = Append(@, a.word)]
      <4>1. \E b \in pushed : queue' = [left EXCEPT ![b.vq] = Append(@, b.word)]
        BY <2>2 DEF VqStep, Vqs!Score
      <4>2. QED
        BY <3>1, <4>1
    <3>3. DOMAIN left = Vqs!Vq
      OBVIOUS
    <3> HIDE DEF rest, left
    <3>4. rest \o <<>> = rest
      BY <1>7, ConcatEmptySeq
    <3>5. Append(rest, a.word) = rest \o <<a.word>>
      <4>1. a.word \in Words
        BY DEF Vqs!Access
      <4>2. QED
        BY <1>7, <4>1, AppendIsConcat
    <3>6. QED
      BY <1>8, <3>1, <3>2, <3>3, <3>4, <3>5
  <2>3. QED
    BY <2>1, <2>2
<1>10. QED
  BY <1>1, <1>2, <1>4, <1>5, <1>6, <1>9

\* What a cycle does to the registers and the part of the RAM of one queue.  The
\* registers are loaded if the queue is pushed or popped.
LEMMA VqEdgeStep ==
  ASSUME VqInv, NEW pushed, NEW from, VqStep(pushed, from), NEW vq \in Vqs!Vq,
         NEW gone, gone = VqGone(vq, from),
         NEW more, more = IF VqPushed(vq, pushed) = <<>> THEN 0 ELSE 1,
         NEW s, s = fifo_state_r[vq], NEW t, t = fifo_state_r'[vq]
  PROVE  /\ t.rd_ptr = Plus(s.rd_ptr, gone, 2 * VqN)
         /\ t.wr_ptr = Plus(s.wr_ptr, more, 2 * VqN)
         /\ \/ t = s
            \/ t = [full |-> Vqs!is_full(t.rd_ptr, t.wr_ptr),
                    empty |-> Vqs!is_empty(t.rd_ptr, t.wr_ptr),
                    rd_ptr |-> t.rd_ptr, wr_ptr |-> t.wr_ptr]
<1>1. PICK M \in Nat \ {0} : M = 2 * VqN
  BY DepthAssumption
<1>2. s.rd_ptr \in 0 .. M - 1 /\ s.wr_ptr \in 0 .. M - 1
  BY <1>1 DEF VqInv, Vqs!TypeOK, Vqs!FifoState, Vqs!Ptr
<1>3. Plus(s.rd_ptr, 0, M) = s.rd_ptr /\ Plus(s.wr_ptr, 0, M) = s.wr_ptr
  BY <1>2, NotMoved
<1>4. /\ gone = IF vq \in from THEN 1 ELSE 0
      /\ more = IF Vqs!To(vq, pushed) # {} THEN 1 ELSE 0
  BY VqWord DEF VqGone, VqStep
<1> DEFINE rd == IF vq \in from THEN Vqs!Succ(s.rd_ptr) ELSE s.rd_ptr
           wr == IF Vqs!To(vq, pushed) # {} THEN Vqs!Succ(s.wr_ptr) ELSE s.wr_ptr
<1>5. rd = Plus(s.rd_ptr, gone, M) /\ wr = Plus(s.wr_ptr, more, M)
  BY <1>1, <1>3, <1>4 DEF Vqs!Succ, Plus
<1>6. t = IF Vqs!To(vq, pushed) # {} \/ vq \in from
          THEN [full |-> Vqs!is_full(rd, wr), empty |-> Vqs!is_empty(rd, wr),
                rd_ptr |-> rd, wr_ptr |-> wr]
          ELSE s
  BY DEF VqStep, Vqs!Edge, Vqs!fifo_state_en, Vqs!fifo_state_w
<1> HIDE DEF rd, wr
<1>7. CASE Vqs!To(vq, pushed) # {} \/ vq \in from
  BY <1>1, <1>5, <1>6, <1>7
<1>8. CASE ~(Vqs!To(vq, pushed) # {} \/ vq \in from)
  BY <1>1, <1>3, <1>4, <1>6, <1>8
<1>9. QED
  BY <1>7, <1>8

LEMMA VqMemStep ==
  ASSUME VqInv, NEW pushed, NEW from, VqStep(pushed, from), NEW vq \in Vqs!Vq
  PROVE  mem'[vq] = IF VqPushed(vq, pushed) = <<>> THEN mem[vq]
                    ELSE [mem[vq] EXCEPT ![fifo_state_r[vq].wr_ptr % VqN] =
                            VqPushed(vq, pushed)[1]]
<1>1. mem \in [Vqs!Vq -> [0 .. VqN - 1 -> Words]]
  BY DEF VqInv, Vqs!TypeOK
<1>2. CASE pushed = {}
  <2>1. mem' = mem /\ VqPushed(vq, pushed) = <<>>
    BY <1>2 DEF VqStep, Vqs!Edge, VqPushed, Vqs!To
  <2>2. QED
    BY <2>1
<1>3. CASE pushed # {}
  <2>1. PICK a \in Vqs!Access :
               /\ pushed = {a}
               /\ VqPushed(vq, pushed) = IF a.vq = vq THEN <<a.word>> ELSE <<>>
    BY <1>3, VqInput DEF VqStep
  <2>2. mem' = [mem EXCEPT ![a.vq][fifo_state_r[a.vq].wr_ptr % VqN] = a.word]
    <3>1. \E b \in pushed : mem' = [mem EXCEPT ![b.vq][Vqs!wr_addr(b)] = b.word]
      BY <1>3 DEF VqStep, Vqs!Edge
    <3>2. QED
      BY <2>1, <3>1 DEF Vqs!wr_addr
  <2>3. <<a.word>>[1] = a.word /\ <<a.word>> # <<>>
    OBVIOUS
  <2>4. CASE a.vq = vq
    BY <1>1, <2>1, <2>2, <2>3, <2>4
  <2>5. CASE a.vq # vq
    BY <1>1, <2>1, <2>2, <2>5
  <2>6. QED
    BY <2>4, <2>5
<1>4. QED
  BY <1>2, <1>3

\* A cycle leaves each queue in its ring, and its flags exact.
LEMMA VqRingStep ==
  ASSUME VqInv, NEW pushed, NEW from, VqStep(pushed, from), NEW vq \in Vqs!Vq
  PROVE  VqRing(vq)'
<1>1. PICK gone : gone = VqGone(vq, from)
  OBVIOUS
<1>2. PICK more : more = IF VqPushed(vq, pushed) = <<>> THEN 0 ELSE 1
  OBVIOUS
<1>3. PICK s, t : s = fifo_state_r[vq] /\ t = fifo_state_r'[vq]
  OBVIOUS
<1>4. /\ gone \in 0 .. 1 /\ gone <= Len(queue[vq])
      /\ more \in 0 .. 1 /\ Len(queue[vq]) - gone + more <= VqN
      /\ queue'[vq] = SubSeq(queue[vq], gone + 1, Len(queue[vq])) \o VqPushed(vq, pushed)
  BY <1>1, <1>2, VqScoreStep
<1>5. /\ t.rd_ptr = Plus(s.rd_ptr, gone, 2 * VqN)
      /\ t.wr_ptr = Plus(s.wr_ptr, more, 2 * VqN)
  BY <1>1, <1>2, <1>3, VqEdgeStep
<1>6. mem'[vq] = IF VqPushed(vq, pushed) = <<>> THEN mem[vq]
                 ELSE [mem[vq] EXCEPT ![s.wr_ptr % VqN] = VqPushed(vq, pushed)[1]]
  BY <1>3, VqMemStep
<1>7. Ring(Words, VqN, s.rd_ptr, s.wr_ptr, mem[vq], queue[vq])
  BY <1>3 DEF VqInv, VqRing
<1>8. VqPushed(vq, pushed) = <<>> \/ \E x \in Words : VqPushed(vq, pushed) = <<x>>
  BY VqWord DEF VqStep
<1>9. VqN \in Nat \ {0}
  BY DepthAssumption
<1>10. PICK x : x = VqPushed(vq, pushed)
  OBVIOUS
<1>11. PICK m, n, q, p : m = mem[vq] /\ n = mem'[vq] /\ q = queue[vq] /\ p = queue'[vq]
  OBVIOUS
<1>12. PICK r, w : r = s.rd_ptr /\ w = s.wr_ptr
  OBVIOUS
<1>13. gone <= Len(q) /\ Len(q) - gone + more <= VqN
  BY <1>4, <1>11
<1>14. /\ p = SubSeq(q, gone + 1, Len(q)) \o x
       /\ n = IF x = <<>> THEN m ELSE [m EXCEPT ![w % VqN] = x[1]]
  BY <1>4, <1>6, <1>10, <1>11, <1>12
<1>15. Ring(Words, VqN, r, w, m, q)
  BY <1>7, <1>11, <1>12
<1>16. /\ x = <<>> \/ \E y \in Words : x = <<y>>
       /\ more = IF x = <<>> THEN 0 ELSE 1
  BY <1>2, <1>8, <1>10
<1>17. RingTakes(Words, VqN, w, m, q, gone, more, x, n, p)
  BY <1>4, <1>13, <1>14, <1>16 DEF RingTakes
<1>18. /\ Ring(Words, VqN, Plus(r, gone, 2 * VqN), Plus(w, more, 2 * VqN), n, p)
       /\ Len(p) = Len(q) - gone + Len(x) /\ Len(x) = more
  BY <1>9, <1>15, <1>17, RingCycle
<1>19. Ring(Words, VqN, t.rd_ptr, t.wr_ptr, n, p)
  BY <1>5, <1>12, <1>18
<1>20. QED
  BY <1>3, <1>11, <1>19 DEF VqRing

\* The word a queue gives, if it gives one.
LEMMA VqWordGiven ==
  ASSUME VqInv, NEW pushed, NEW from, VqStep(pushed, from), NEW vq \in from
  PROVE  /\ vq \in Vqs!Vq /\ Len(queue[vq]) > 0
         /\ mem[vq][Vqs!rd_addr(vq)] = queue[vq][1] /\ Head(queue[vq]) = queue[vq][1]
         /\ queue[vq][1] \in Words
<1>1. vq \in Vqs!Vq /\ queue[vq] # <<>>
  BY DEF VqStep, Vqs!AtMostOne
<1>2. PICK q \in Seq(Words) : q = queue[vq]
  BY <1>1 DEF VqInv
<1>3. Len(q) > 0 /\ Head(q) = q[1] /\ q[1] \in Words
  BY <1>1, <1>2, EmptySeq
<1>4. mem[vq][fifo_state_r[vq].rd_ptr % VqN] = q[1]
  <2>1. PICK r, w, m : r = fifo_state_r[vq].rd_ptr /\ w = fifo_state_r[vq].wr_ptr /\ m = mem[vq]
    OBVIOUS
  <2>2. Ring(Words, VqN, r, w, m, q)
    BY <1>1, <1>2, <2>1 DEF VqInv, VqRing
  <2>3. VqN \in Nat \ {0}
    BY DepthAssumption
  <2>4. Len(q) > 0 => m[r % VqN] = q[1]
    BY <2>2, <2>3, RingFacts
  <2>5. QED
    BY <1>3, <2>1, <2>4
<1>5. QED
  BY <1>1, <1>2, <1>3, <1>4 DEF Vqs!rd_addr

LEMMA VqPopStep ==
  ASSUME VqInv, NEW pushed, NEW from, VqStep(pushed, from)
  PROVE  Vqs!PopsInOrder' /\ pop_data' \in SUBSET Vqs!Access
<1>1. pop_data' = {[vq |-> vq, word |-> mem[vq][Vqs!rd_addr(vq)]] : vq \in from}
  BY DEF VqStep, Vqs!Edge
<1>2. expected' = {[vq |-> vq, word |-> Head(queue[vq])] : vq \in from}
  BY DEF VqStep, Vqs!Score
<1>3. \A vq \in from : /\ vq \in Vqs!Vq
                         /\ mem[vq][Vqs!rd_addr(vq)] = Head(queue[vq])
                         /\ mem[vq][Vqs!rd_addr(vq)] \in Words
  BY VqWordGiven
<1>4. pop_data' = expected'
  BY <1>1, <1>2, <1>3
<1>5. pop_data' \in SUBSET Vqs!Access
  BY <1>1, <1>3 DEF Vqs!Access
<1>6. QED
  BY <1>4, <1>5 DEF Vqs!PopsInOrder

\* What the pointers of a queue say of it, and so what the flags do.
LEMMA VqPointers ==
  ASSUME NEW r, NEW w, NEW m, NEW q, Ring(Words, VqN, r, w, m, q)
  PROVE  /\ r \in Vqs!Ptr /\ w \in Vqs!Ptr
         /\ Vqs!is_full(r, w) <=> Len(q) = VqN
         /\ Vqs!is_empty(r, w) <=> q = <<>>
<1>1. VqN \in Nat \ {0}
  BY DepthAssumption
<1>2. /\ w \in 0 .. 2 * VqN - 1
      /\ Len(q) > 0 => m[r % VqN] = q[1]
      /\ r = w <=> Len(q) = 0
      /\ r # w /\ r % VqN = w % VqN <=> Len(q) = VqN
  BY <1>1, RingFacts
<1>3. q \in Seq(Words) /\ r \in 0 .. 2 * VqN - 1
  BY DEF Ring
<1>4. Len(q) = 0 <=> q = <<>>
  BY <1>3, EmptySeq
<1>5. QED
  BY <1>2, <1>3, <1>4 DEF Vqs!is_full, Vqs!is_empty, Vqs!Ptr

LEMMA VqFlagsStep ==
  ASSUME VqInv, NEW pushed, NEW from, VqStep(pushed, from), NEW vq \in Vqs!Vq
  PROVE  /\ fifo_state_r'[vq] \in Vqs!FifoState
         /\ fifo_state_r'[vq].full <=> Len(queue'[vq]) = VqN
         /\ fifo_state_r'[vq].empty <=> queue'[vq] = <<>>
<1>1. PICK s, t : s = fifo_state_r[vq] /\ t = fifo_state_r'[vq]
  OBVIOUS
<1>2. PICK q, p, m, n : q = queue[vq] /\ p = queue'[vq] /\ m = mem[vq] /\ n = mem'[vq]
  OBVIOUS
<1>3. Ring(Words, VqN, s.rd_ptr, s.wr_ptr, m, q)
  BY <1>1, <1>2 DEF VqInv, VqRing
<1>4. Ring(Words, VqN, t.rd_ptr, t.wr_ptr, n, p)
  <2>1. VqRing(vq)'
    BY VqRingStep
  <2>2. QED
    BY <1>1, <1>2, <2>1 DEF VqRing
<1>5. /\ Vqs!is_full(s.rd_ptr, s.wr_ptr) <=> Len(q) = VqN
      /\ Vqs!is_empty(s.rd_ptr, s.wr_ptr) <=> q = <<>>
  BY <1>3, VqPointers
<1>6. /\ t.rd_ptr \in Vqs!Ptr /\ t.wr_ptr \in Vqs!Ptr
      /\ Vqs!is_full(t.rd_ptr, t.wr_ptr) <=> Len(p) = VqN
      /\ Vqs!is_empty(t.rd_ptr, t.wr_ptr) <=> p = <<>>
  BY <1>4, VqPointers
<1>7. /\ s \in Vqs!FifoState
      /\ s.full <=> Len(q) = VqN
      /\ s.empty <=> q = <<>>
  BY <1>1, <1>2 DEF VqInv, Vqs!TypeOK, Vqs!FlagsExact
<1>8. \/ t = s
      \/ t = [full |-> Vqs!is_full(t.rd_ptr, t.wr_ptr),
              empty |-> Vqs!is_empty(t.rd_ptr, t.wr_ptr),
              rd_ptr |-> t.rd_ptr, wr_ptr |-> t.wr_ptr]
  <2>1. PICK gone, more : /\ gone = VqGone(vq, from)
                          /\ more = IF VqPushed(vq, pushed) = <<>> THEN 0 ELSE 1
    OBVIOUS
  <2>2. QED
    BY <1>1, <2>1, VqEdgeStep
<1>9. CASE t = s
  BY <1>1, <1>2, <1>5, <1>6, <1>7, <1>9
<1>10. CASE t = [full |-> Vqs!is_full(t.rd_ptr, t.wr_ptr),
                 empty |-> Vqs!is_empty(t.rd_ptr, t.wr_ptr),
                 rd_ptr |-> t.rd_ptr, wr_ptr |-> t.wr_ptr]
  <2>1. /\ Vqs!is_full(t.rd_ptr, t.wr_ptr) \in BOOLEAN
        /\ Vqs!is_empty(t.rd_ptr, t.wr_ptr) \in BOOLEAN
    BY DEF Vqs!is_full, Vqs!is_empty
  <2>2. PICK f, e : /\ f = Vqs!is_full(t.rd_ptr, t.wr_ptr)
                    /\ e = Vqs!is_empty(t.rd_ptr, t.wr_ptr)
    OBVIOUS
  <2>3. f \in BOOLEAN /\ e \in BOOLEAN
    BY <2>1, <2>2
  <2>4. t = [full |-> f, empty |-> e, rd_ptr |-> t.rd_ptr, wr_ptr |-> t.wr_ptr]
    BY <1>10, <2>2
  <2>5. t \in Vqs!FifoState /\ t.full = f /\ t.empty = e
    BY <1>6, <2>3, <2>4 DEF Vqs!FifoState
  <2>6. QED
    BY <1>1, <1>2, <1>6, <2>2, <2>5
<1>11. QED
  BY <1>8, <1>9, <1>10

LEMMA VqInitInv ==
  ASSUME Vqs!Init
  PROVE  VqInv
<1>1. PICK M \in Nat \ {0} : M = 2 * VqN
  BY DepthAssumption
<1>2. Plus(0, 0, M) = 0 /\ 0 \in Vqs!Ptr
  <2>1. 0 \in 0 .. M - 1
    OBVIOUS
  <2>2. QED
    BY <1>1, <2>1, NotMoved DEF Vqs!Ptr
<1>3. Vqs!TypeOK
  BY <1>2 DEF Vqs!Init, Vqs!TypeOK, Vqs!FifoState
<1>4. queue \in [Vqs!Vq -> Seq(Words)]
  BY DEF Vqs!Init
<1>5. ASSUME NEW vq \in Vqs!Vq
      PROVE  VqRing(vq)
  <2>1. /\ fifo_state_r[vq].rd_ptr = 0 /\ fifo_state_r[vq].wr_ptr = 0 /\ queue[vq] = <<>>
        /\ mem[vq] \in [0 .. VqN - 1 -> Words]
    BY DEF Vqs!Init
  <2>2. Ring(Words, VqN, 0, 0, mem[vq], <<>>)
    <3>1. <<>> \in Seq(Words) /\ Len(<<>>) = 0 /\ VqN \in Nat /\ 0 \in 0 .. 2 * VqN - 1
      BY DepthAssumption
    <3>2. 0 = Plus(0, 0, 2 * VqN)
      BY <1>1, <1>2
    <3>3. QED
      BY <2>1, <3>1, <3>2 DEF Ring
  <2>3. QED
    BY <2>1, <2>2 DEF VqRing
<1>6. Vqs!FlagsExact /\ Vqs!PopsInOrder
  BY DepthAssumption DEF Vqs!Init, Vqs!FlagsExact, Vqs!PopsInOrder
<1>7. QED
  BY <1>3, <1>4, <1>5, <1>6 DEF VqInv

LEMMA VqNextInv ==
  ASSUME VqInv, [Vqs!Next]_(Vqs!vars)
  PROVE  VqInv'
<1>1. CASE Vqs!Next
  <2>1. PICK pushed, from : VqStep(pushed, from)
    BY <1>1 DEF Vqs!Next, Vqs!Clock, VqStep
  <2>2. \A vq \in Vqs!Vq : VqRing(vq)'
    BY <2>1, VqRingStep
  <2>3. fifo_state_r' \in [Vqs!Vq -> Vqs!FifoState] /\ Vqs!FlagsExact'
    <3>1. fifo_state_r' = [vq \in Vqs!Vq |-> fifo_state_r'[vq]]
      BY <2>1 DEF VqStep, Vqs!Edge
    <3>2. \A vq \in Vqs!Vq : /\ fifo_state_r'[vq] \in Vqs!FifoState
                             /\ fifo_state_r'[vq].full <=> Len(queue'[vq]) = VqN
                             /\ fifo_state_r'[vq].empty <=> queue'[vq] = <<>>
      BY <2>1, VqFlagsStep
    <3>3. fifo_state_r' \in [Vqs!Vq -> Vqs!FifoState]
      BY <3>1, <3>2
    <3>4. Vqs!FlagsExact'
      BY <3>2 DEF Vqs!FlagsExact
    <3>5. QED
      BY <3>3, <3>4
  <2>4. mem' \in [Vqs!Vq -> [0 .. VqN - 1 -> Words]]
    <3>1. mem' = [vq \in Vqs!Vq |-> mem'[vq]]
      <4>1. mem = [vq \in Vqs!Vq |-> mem[vq]]
        BY DEF VqInv, Vqs!TypeOK
      <4>2. mem' = mem \/ \E vq, f : mem' = [mem EXCEPT ![vq] = f]
        BY <2>1 DEF VqStep, Vqs!Edge
      <4>3. QED
        BY <4>1, <4>2
    <3>2. \A vq \in Vqs!Vq : mem'[vq] \in [0 .. VqN - 1 -> Words]
      BY <2>2 DEF VqRing, Ring
    <3>3. QED
      BY <3>1, <3>2
  <2>5. queue' \in [Vqs!Vq -> Seq(Words)]
    <3>1. queue' = [vq \in Vqs!Vq |-> queue'[vq]]
      <4> DEFINE left == [v \in Vqs!Vq |-> IF v \in from THEN Tail(queue[v]) ELSE queue[v]]
      <4>1. queue' = left \/ \E vq, f : queue' = [left EXCEPT ![vq] = f]
        BY <2>1 DEF VqStep, Vqs!Score
      <4>2. QED
        BY <4>1
    <3>2. \A vq \in Vqs!Vq : queue'[vq] \in Seq(Words)
      BY <2>2 DEF VqRing, Ring
    <3>3. QED
      BY <3>1, <3>2
  <2>6. Vqs!PopsInOrder' /\ pop_data' \in SUBSET Vqs!Access
    BY <2>1, VqPopStep
  <2>7. QED
    BY <2>2, <2>3, <2>4, <2>5, <2>6 DEF VqInv, Vqs!TypeOK
<1>2. CASE UNCHANGED Vqs!vars
  BY <1>2 DEF Vqs!vars, VqInv, Vqs!TypeOK, VqRing, Vqs!FlagsExact, Vqs!PopsInOrder
<1>3. QED
  BY <1>1, <1>2

\* The words that lie between the pointers of a queue are the scoreboard's.
LEMMA VqHeldIsQueue ==
  ASSUME VqInv, NEW vq \in Vqs!Vq
  PROVE  Vqs!Held(vq) = queue[vq]
<1>1. PICK r, w, m, q : /\ r = fifo_state_r[vq].rd_ptr /\ w = fifo_state_r[vq].wr_ptr
                        /\ m = mem[vq] /\ q = queue[vq]
  OBVIOUS
<1>2. Ring(Words, VqN, r, w, m, q)
  BY <1>1 DEF VqInv, VqRing
<1>3. VqN \in Nat \ {0}
  BY DepthAssumption
<1>4. Inside(VqN, r, w, m) = q
  BY <1>2, <1>3, RingHeld
<1>5. QED
  BY <1>1, <1>4 DEF Inside, Vqs!Held, Vqs!Fill

\* What a queue delivers is what was popped from it, if the pop was from it.
LEMMA VqDeliveredStep ==
  ASSUME VqInv, NEW pushed, NEW from, VqStep(pushed, from), NEW vq \in Vqs!Vq
  PROVE  Vqs!Delivered(vq)' = IF vq \in from THEN <<queue[vq][1]>> ELSE <<>>
<1>1. pop_data' = {[vq |-> v, word |-> mem[v][Vqs!rd_addr(v)]] : v \in from}
  BY DEF VqStep, Vqs!Edge
<1>2. CASE vq \in from
  <2>1. PICK x : x = queue[vq][1]
    OBVIOUS
  <2>2. from = {vq} /\ mem[vq][Vqs!rd_addr(vq)] = x
    BY <1>2, <2>1, VqWordGiven DEF VqStep, Vqs!AtMostOne
  <2>3. pop_data' = {[vq |-> vq, word |-> x]}
    BY <1>1, <2>2
  <2>4. Vqs!To(vq, pop_data') = {[vq |-> vq, word |-> x]}
    BY <2>3 DEF Vqs!To
  <2>5. {a.word : a \in Vqs!To(vq, pop_data')} = {x}
    BY <2>4
  <2>6. Vqs!Delivered(vq)' = <<x>>
    BY <2>5 DEF Vqs!Delivered
  <2>7. QED
    BY <1>2, <2>1, <2>6
<1>3. CASE vq \notin from
  <2>1. Vqs!To(vq, pop_data') = {}
    BY <1>1, <1>3 DEF Vqs!To
  <2>2. {a.word : a \in Vqs!To(vq, pop_data')} = {}
    BY <2>1
  <2>3. Vqs!Delivered(vq)' = <<>>
    BY <2>2 DEF Vqs!Delivered
  <2>4. QED
    BY <1>3, <2>3
<1>4. QED
  BY <1>2, <1>3

\* A cycle of fifo_n is a cycle of each of its queues, idle for most of them.
LEMMA VqStepRefines ==
  ASSUME VqInv, NEW pushed, NEW from, VqStep(pushed, from), NEW vq \in Vqs!Vq,
         Vqs!Held(vq) = queue[vq], Vqs!Held(vq)' = queue'[vq]
  PROVE  Vqs!Abstract(vq)!Next
<1>1. PICK gone : gone = VqGone(vq, from)
  OBVIOUS
<1>2. PICK more : more = IF VqPushed(vq, pushed) = <<>> THEN 0 ELSE 1
  OBVIOUS
<1>3. /\ gone \in 0 .. 1 /\ gone <= Len(queue[vq])
      /\ more \in 0 .. 1 /\ Len(queue[vq]) - gone + more <= VqN
      /\ queue'[vq] = SubSeq(queue[vq], gone + 1, Len(queue[vq])) \o VqPushed(vq, pushed)
  BY <1>1, <1>2, VqScoreStep
<1>4. PICK pop \in BOOLEAN : (pop <=> vq \in from) /\ gone = IF pop THEN 1 ELSE 0
  BY <1>1 DEF VqGone
<1>5. PICK x, q, p : x = VqPushed(vq, pushed) /\ q = queue[vq] /\ p = queue'[vq]
  OBVIOUS
<1>6. x \in [1 .. more -> Words] /\ Len(x) = more
  <2>1. x = <<>> \/ \E y \in Words : x = <<y>>
    BY <1>5, VqWord DEF VqStep
  <2>2. CASE x = <<>>
    BY <1>2, <1>5, <2>2
  <2>3. CASE x # <<>>
    BY <1>2, <1>5, <2>1, <2>3
  <2>4. QED
    BY <2>2, <2>3
<1>7. Vqs!Abstract(vq)!One(pop) = gone
  BY <1>4 DEF Vqs!Abstract!One
<1>8. Vqs!Delivered(vq)' = IF pop THEN <<q[0 + 1]>> ELSE <<>>
  <2>1. Vqs!Delivered(vq)' = IF vq \in from THEN <<queue[vq][1]>> ELSE <<>>
    BY VqDeliveredStep
  <2>2. QED
    BY <1>4, <1>5, <2>1
<1>9. pop => 0 < Len(q) /\ 0 + gone > 0
  BY <1>4, <1>5, VqWordGiven
<1>10. Vqs!Abstract(vq)!Cycle(x, pop, pop, FALSE)
  <2>1. 1 + gone = gone + 1 /\ 0 = 0 + gone - gone
    BY <1>3
  <2>2. QED
    BY <1>3, <1>5, <1>6, <1>7, <1>8, <1>9, <2>1 DEF Vqs!Abstract!Cycle
<1>11. QED
  BY <1>3, <1>6, <1>10 DEF Vqs!Abstract!Next

LEMMA VqInitRefines ==
  ASSUME Vqs!Init, NEW vq \in Vqs!Vq, Vqs!Held(vq) = queue[vq]
  PROVE  Vqs!Abstract(vq)!Init
<1>1. Vqs!Held(vq) = <<>>
  BY DEF Vqs!Init
<1>2. Vqs!To(vq, pop_data) = {}
  BY DEF Vqs!Init, Vqs!To
<1>3. {a.word : a \in Vqs!To(vq, pop_data)} = {}
  BY <1>2
<1>4. Vqs!Delivered(vq) = <<>>
  BY <1>3 DEF Vqs!Delivered
<1>5. QED
  BY <1>1, <1>4 DEF Vqs!Abstract!Init

LEMMA VqNextRefines ==
  ASSUME VqInv, [Vqs!Next]_(Vqs!vars), NEW vq \in Vqs!Vq,
         Vqs!Held(vq) = queue[vq], Vqs!Held(vq)' = queue'[vq]
  PROVE  [Vqs!Abstract(vq)!Next]_(Vqs!Abstract(vq)!vars)
<1>1. CASE Vqs!Next
  <2>1. PICK pushed, from : VqStep(pushed, from)
    BY <1>1 DEF Vqs!Next, Vqs!Clock, VqStep
  <2>2. Vqs!Abstract(vq)!Next
    BY <2>1, VqStepRefines
  <2>3. QED
    BY <2>2
<1>2. CASE UNCHANGED Vqs!vars
  <2>1. Vqs!Delivered(vq)' = Vqs!Delivered(vq)
    BY <1>2 DEF Vqs!vars, Vqs!Delivered, Vqs!To
  <2>2. Vqs!Held(vq)' = Vqs!Held(vq)
    BY <1>2 DEF Vqs!vars
  <2>3. QED
    BY <2>1, <2>2 DEF Vqs!Abstract!vars
<1>3. QED
  BY <1>1, <1>2

\* In every state the pointers of every queue are pointers, the RAM has words
\* and what is popped is a word of a queue.
THEOREM VqTypeCorrect == Vqs!Init /\ [][Vqs!Next]_(Vqs!vars) => []Vqs!TypeOK
<1>1. VqInv => Vqs!TypeOK
  BY DEF VqInv
<1>2. QED
  BY <1>1, VqInitInv, VqNextInv, PTL

\* What is popped from a queue is what was pushed to it, in order, whatever the
\* other queues do, for any number of queues of any number of words.
THEOREM VqPopsCorrect == Vqs!Init /\ [][Vqs!Next]_(Vqs!vars) => []Vqs!PopsInOrder
<1>1. VqInv => Vqs!PopsInOrder
  BY DEF VqInv
<1>2. QED
  BY <1>1, VqInitInv, VqNextInv, PTL

\* Each queue, seen through its pointers and its part of the RAM, is a queue of
\* its own, and takes no part in the cycles of the others.
THEOREM VqRefinement ==
  ASSUME NEW vq \in Vqs!Vq
  PROVE  Vqs!Init /\ [][Vqs!Next]_(Vqs!vars) => Vqs!Abstract(vq)!Spec
<1>1. VqInv => Vqs!Held(vq) = queue[vq]
  BY VqHeldIsQueue
<1>2. Vqs!Init /\ Vqs!Held(vq) = queue[vq] => Vqs!Abstract(vq)!Init
  BY VqInitRefines
<1>3. /\ VqInv /\ [Vqs!Next]_(Vqs!vars)
      /\ Vqs!Held(vq) = queue[vq] /\ (Vqs!Held(vq) = queue[vq])'
      => [Vqs!Abstract(vq)!Next]_(Vqs!Abstract(vq)!vars)
  BY VqNextRefines
<1>4. QED
  BY <1>1, <1>2, <1>3, VqInitInv, VqNextInv, PTL DEF Vqs!Abstract!Spec

-----------------------------------------------------------------------------
(* fifo_multi_push: the inductive invariant.                               *)

\* Behind the lanes is a ring each.  The words are dealt to them in turn, from
\* the one at pop_idx_1h_r on.
MultiDealt(F, W, qs) ==
  /\ Dealt(W, F, pop_idx_1h_r, queue, qs)
  /\ \A i \in 0 .. F - 1 : Ring(W, MultiN, rd_ptr_r[i], wr_ptr_r[i], mem[i], qs[i])

MultiInv(F, W) ==
  /\ Multi(F, W)!TypeOK /\ push_idx_1h_r = Plus(pop_idx_1h_r, Len(queue), F)
  /\ \E qs : MultiDealt(F, W, qs)
  /\ Multi(F, W)!FlagsSafe /\ Multi(F, W)!PopsInOrder

MultiStep(F, W, pushed, pop) ==
  pushed \in Multi(F, W)!Pushed /\ pop \in BOOLEAN /\ Multi(F, W)!Clock(pushed, pop)

\* The words that leave in a cycle, altogether and from queue i.
MultiGone(pop) == IF pop /\ ~empty_r THEN 1 ELSE 0
GoneFrom(i, gone) == IF i = pop_idx_1h_r THEN gone ELSE 0

\* The words behind the lanes after a cycle.
DealtNext(F, qs, gone, pushed) ==
  [i \in 0 .. F - 1 |->
     Remains(qs[i], GoneFrom(i, gone)) \o Given(pushed, From(i, push_idx_1h_r, F))]

\* A queue flagged empty has a word, and a queue behind a lane too, if it is
\* popped from.
LEMMA MultiFirst ==
  ASSUME NEW F \in Nat \ {0}, NEW W, NEW o, NEW q, NEW qs, Dealt(W, F, o, q, qs)
  PROVE  /\ Len(qs[o]) \in Nat /\ Len(q) \in Nat
         /\ Len(qs[o]) = 0 <=> Len(q) = 0
         /\ Len(q) > 0 => qs[o][1] = q[1]
<1>1. Plus(o, 0, F) = o /\ o \in 0 .. F - 1
  BY NotMoved DEF Dealt
<1>2. 0 \in 0 .. F - 1
  OBVIOUS
<1>3. Has(F, o, q, qs, 0, 0)
  BY <1>2 DEF Dealt
<1>4. F * 0 = 0
  BY SMT
<1>5. /\ 0 < Len(qs[o]) <=> 0 < Len(q)
      /\ 0 < Len(q) => qs[o][1] = q[1]
  BY <1>1, <1>3, <1>4 DEF Has
<1>6. Len(qs[o]) \in Nat /\ Len(q) \in Nat
  BY <1>1 DEF Dealt
<1>7. QED
  BY <1>5, <1>6

\* What a cycle does to the scoreboard.
LEMMA MultiScore ==
  ASSUME NEW F \in Nat \ {0}, NEW W, MultiInv(F, W),
         NEW pushed, NEW pop, MultiStep(F, W, pushed, pop),
         NEW gone, gone = MultiGone(pop)
  PROVE  /\ gone \in 0 .. 1 /\ gone <= Len(queue) /\ queue \in Seq(W) /\ Len(queue) \in Nat
         /\ pushed \in Seq(W) /\ Len(pushed) \in Nat /\ Len(pushed) <= F
         /\ queue' = Remains(queue, gone) \o pushed
         /\ expected' = IF gone = 1 THEN <<queue[1]>> ELSE <<>>
         /\ pushed # <<>> => Len(queue) + (F - 1) < F * MultiN
<1>1. queue \in Seq(W) /\ Len(queue) \in Nat
  BY DEF MultiInv, MultiDealt, Dealt
<1>2. PICK m \in 0 .. F : pushed \in [1 .. m -> W]
  BY DEF MultiStep, Multi!Pushed
<1>3. pushed \in Seq(W) /\ Len(pushed) = m
  BY <1>2
<1>4. empty_r \in BOOLEAN /\ (gone = 1 <=> pop /\ ~empty_r) /\ gone \in 0 .. 1
  BY DEF MultiGone, MultiInv, Multi!TypeOK
<1>5. gone = 1 => Len(queue) > 0 /\ queue # <<>>
  BY <1>1, <1>4 DEF MultiInv, Multi!FlagsSafe
<1>6. /\ queue' = (IF gone = 1 THEN Tail(queue) ELSE queue) \o pushed
      /\ expected' = IF gone = 1 THEN <<Head(queue)>> ELSE <<>>
  BY <1>4 DEF MultiStep, Multi!Clock, Multi!Score, Multi!pop_idx_1h_en
<1>7. Remains(queue, gone) = IF gone = 1 THEN Tail(queue) ELSE queue
  <2>1. CASE gone = 1
    <3>1. SubSeq(queue, 1 + 1, Len(queue)) = Tail(queue)
      BY <1>1, <1>5, <2>1
    <3>2. QED
      BY <2>1, <3>1 DEF Remains
  <2>2. CASE gone = 0
    <3>1. SubSeq(queue, 0 + 1, Len(queue)) = queue
      BY <1>1
    <3>2. QED
      BY <2>2, <3>1 DEF Remains
  <2>3. QED
    BY <1>4, <2>1, <2>2
<1>8. gone = 1 => Head(queue) = queue[1]
  BY <1>1, <1>5
<1>9. ASSUME pushed # <<>>
      PROVE  Len(queue) + (F - 1) < F * MultiN
  <2>1. PICK l \in 0 .. F - 1 : l = F - 1
    OBVIOUS
  <2>2. ~full_r[l]
    BY <1>9 DEF MultiStep, Multi!Clock, Multi!Lane
  <2>3. ~(Len(queue) + l >= F * MultiN)
    BY <2>2 DEF MultiInv, Multi!FlagsSafe, Multi!Lane
  <2>4. PICK y \in Nat : y = F * MultiN
    BY DepthAssumption, Rounds
  <2>5. QED
    BY <1>1, <2>1, <2>3, <2>4
<1>10. QED
  BY <1>1, <1>3, <1>4, <1>5, <1>6, <1>7, <1>8, <1>9

\* A cycle takes the oldest word from the queue it is dealt to, and deals out
\* what is pushed; the indices follow.
LEMMA MultiDealtStep ==
  ASSUME NEW F \in Nat \ {0}, NEW W, MultiInv(F, W),
         NEW pushed, NEW pop, MultiStep(F, W, pushed, pop),
         NEW gone, gone = MultiGone(pop), NEW qs, MultiDealt(F, W, qs)
  PROVE  /\ Dealt(W, F, pop_idx_1h_r', queue', DealtNext(F, qs, gone, pushed))
         /\ pop_idx_1h_r' = Plus(pop_idx_1h_r, gone, F)
         /\ push_idx_1h_r' = Plus(pop_idx_1h_r', Len(queue'), F)
         /\ Len(queue') = Len(queue) - gone + Len(pushed)
<1>1. PICK o, q, w, q1 : /\ o = pop_idx_1h_r /\ q = queue /\ w = push_idx_1h_r
                         /\ q1 = Remains(queue, gone)
  OBVIOUS
<1>2. /\ gone \in 0 .. 1 /\ gone <= Len(q) /\ q \in Seq(W) /\ Len(q) \in Nat
      /\ pushed \in Seq(W) /\ Len(pushed) \in Nat /\ Len(pushed) <= F
      /\ queue' = q1 \o pushed
  BY <1>1, MultiScore
<1>3. Dealt(W, F, o, q, qs) /\ w = Plus(o, Len(q), F) /\ o \in 0 .. F - 1
  BY <1>1 DEF MultiDealt, MultiInv, Dealt
<1>4. q1 \in Seq(W) /\ Len(q1) = Len(q) - gone
  BY <1>1, <1>2, Rest DEF Remains
<1>5. Len(queue') = Len(q) - gone + Len(pushed)
  <2>1. Len(q1 \o pushed) = Len(q1) + Len(pushed)
    BY <1>2, <1>4, ConcatProperties
  <2>2. QED
    BY <1>2, <1>4, <2>1
<1>6. pop_idx_1h_r' = Plus(o, gone, F)
  <2>1. pop_idx_1h_r' = IF pop /\ ~empty_r THEN Plus(o, 1, F) ELSE o
    BY <1>1 DEF MultiStep, Multi!Clock, Multi!Edge, Multi!pop_idx_1h_en,
                Multi!pop_idx_1h_w, Multi!Rotated, Plus
  <2>2. Plus(o, 0, F) = o
    BY <1>3, NotMoved
  <2>3. QED
    BY <2>1, <2>2 DEF MultiGone
<1>7. push_idx_1h_r' = Plus(w, Len(pushed), F)
  BY <1>1 DEF MultiStep, Multi!Clock, Multi!Edge, Multi!push_idx_1h_w, Multi!Rotated, Plus
<1>8. PICK u : u = Plus(o, gone, F)
  OBVIOUS
<1>9. PICK a \in Nat, b \in Nat, c \in Nat :
        /\ a = Len(q) /\ b = Len(pushed) /\ c = Len(q1) /\ gone + c = a /\ gone \in Nat
  <2>1. Len(q1) \in Nat /\ gone + Len(q1) = Len(q) /\ gone \in Nat
    BY <1>2, <1>4
  <2>2. QED
    BY <1>2, <2>1
<1>10. w = Plus(u, c, F)
  <2>1. Plus(Plus(o, gone, F), c, F) = Plus(o, gone + c, F)
    BY <1>3, <1>9, TurnsAdd
  <2>2. QED
    BY <1>3, <1>8, <1>9, <2>1
<1>11. push_idx_1h_r' = Plus(u, Len(queue'), F)
  <2>1. u \in 0 .. F - 1
    BY <1>3, <1>8, <1>9, TurnsAdd
  <2>2. Plus(Plus(u, c, F), b, F) = Plus(u, c + b, F)
    BY <2>1, TurnsAdd
  <2>3. Len(queue') = c + b
    BY <1>4, <1>5, <1>9
  <2>4. QED
    BY <1>7, <1>9, <1>10, <2>2, <2>3
<1> DEFINE rs == [i \in 0 .. F - 1 |-> Remains(qs[i], IF i = o THEN gone ELSE 0)]
           ps == DealtNext(F, qs, gone, pushed)
<1>12. \A i \in 0 .. F - 1 : rs[i] = Remains(qs[i], IF i = o THEN gone ELSE 0)
  OBVIOUS
<1>13. \A i \in 0 .. F - 1 : ps[i] = rs[i] \o Given(pushed, From(i, w, F))
  BY <1>1 DEF DealtNext, GoneFrom
<1> HIDE DEF rs, ps
<1>14. Dealt(W, F, Plus(o, gone, F), Remains(q, gone), rs)
  BY <1>2, <1>3, <1>12, DealtGone
<1>15. Dealt(W, F, u, q1, rs) /\ w = Plus(u, Len(q1), F)
  BY <1>1, <1>8, <1>9, <1>10, <1>14
<1>16. Dealt(W, F, u, q1 \o pushed, ps)
  BY <1>2, <1>13, <1>15, DealtMore
<1>17. QED
  BY <1>1, <1>2, <1>5, <1>6, <1>8, <1>11, <1>16 DEF ps

\* A queue behind a lane gives and takes no word, or one, and takes it only if
\* it has room.
LEMMA MultiRoom ==
  ASSUME NEW F \in Nat \ {0}, NEW W, MultiInv(F, W),
         NEW pushed, NEW pop, MultiStep(F, W, pushed, pop),
         NEW gone, gone = MultiGone(pop), NEW qs, MultiDealt(F, W, qs),
         NEW i \in 0 .. F - 1, NEW given, given = Given(pushed, From(i, push_idx_1h_r, F)),
         NEW more, more = IF given = <<>> THEN 0 ELSE 1
  PROVE  /\ GoneFrom(i, gone) \in 0 .. 1 /\ GoneFrom(i, gone) <= Len(qs[i])
         /\ given = <<>> \/ \E x \in W : given = <<x>>
         /\ more \in 0 .. 1 /\ Len(qs[i]) - GoneFrom(i, gone) + more <= MultiN
         /\ given = <<>> <=> ~(From(i, push_idx_1h_r, F) < Len(pushed))
<1>1. PICK o, q, w : o = pop_idx_1h_r /\ q = queue /\ w = push_idx_1h_r
  OBVIOUS
<1>2. /\ gone \in 0 .. 1 /\ gone <= Len(q)
      /\ pushed \in Seq(W) /\ Len(pushed) \in Nat
      /\ pushed # <<>> => Len(q) + (F - 1) < F * MultiN
  BY <1>1, MultiScore
<1>3. /\ Dealt(W, F, o, q, qs) /\ w = Plus(o, Len(q), F) /\ o \in 0 .. F - 1
      /\ Len(q) \in Nat /\ w \in 0 .. F - 1
      /\ Ring(W, MultiN, rd_ptr_r[i], wr_ptr_r[i], mem[i], qs[i])
  BY <1>1 DEF MultiDealt, MultiInv, Dealt, Multi!TypeOK, Multi!Fifo
<1>4. PICK s : s = qs[i]
  OBVIOUS
<1>5. s \in Seq(W) /\ Len(s) \in Nat /\ Len(s) <= MultiN
  BY <1>3, <1>4 DEF Ring
<1>6. GoneFrom(i, gone) \in 0 .. 1 /\ GoneFrom(i, gone) <= Len(s)
  <2>1. /\ Len(qs[o]) \in Nat /\ Len(q) \in Nat
        /\ Len(qs[o]) = 0 <=> Len(q) = 0
        /\ Len(q) > 0 => qs[o][1] = q[1]
    BY <1>3, MultiFirst
  <2>2. CASE i = o
    BY <1>1, <1>2, <1>4, <2>1, <2>2 DEF GoneFrom
  <2>3. CASE i # o
    BY <1>1, <1>5, <2>3 DEF GoneFrom
  <2>4. QED
    BY <2>2, <2>3
<1>7. PICK l : l = From(i, w, F)
  OBVIOUS
<1>8. l \in 0 .. F - 1 /\ Plus(w, l, F) = i
  BY <1>3, <1>7, TurnsOnto DEF From
<1>9. given = Given(pushed, l)
  BY <1>1, <1>7
<1>10. given = <<>> \/ \E x \in W : given = <<x>>
  <2>1. l \in Nat
    BY <1>8
  <2>2. Given(pushed, l) = <<>> \/ \E x \in W : Given(pushed, l) = <<x>>
    BY <1>2, <2>1, GivenType
  <2>3. QED
    BY <1>9, <2>2
<1>11. given = <<>> <=> ~(l < Len(pushed))
  BY <1>9 DEF Given
<1>12. ASSUME given # <<>>
       PROVE  Len(s) < MultiN
  <2>1. l < Len(pushed)
    BY <1>11, <1>12
  <2>2. pushed # <<>>
    BY <1>8, <2>1
  <2>3. PICK y \in Nat : y = F * MultiN
    BY DepthAssumption, Rounds
  <2>4. ~(Len(q) + l >= F * MultiN)
    BY <1>2, <1>3, <1>8, <2>2, <2>3
  <2>5. MultiN \in Nat
    BY DepthAssumption
  <2>6. Len(qs[i]) >= MultiN <=> Len(q) + l >= F * MultiN
    BY <1>3, <1>8, <2>5, DealtFull
  <2>7. QED
    BY <1>4, <1>5, <2>4, <2>5, <2>6
<1>13. more \in 0 .. 1 /\ Len(s) - GoneFrom(i, gone) + more <= MultiN
  <2>1. MultiN \in Nat
    BY DepthAssumption
  <2>2. PICK g \in 0 .. 1 : g = GoneFrom(i, gone)
    BY <1>6
  <2>3. CASE given = <<>>
    BY <1>5, <2>1, <2>2, <2>3
  <2>4. CASE given # <<>>
    BY <1>5, <1>12, <2>1, <2>2, <2>4
  <2>5. QED
    BY <2>3, <2>4
<1>14. QED
  BY <1>1, <1>4, <1>6, <1>7, <1>10, <1>11, <1>13

\* A cycle leaves every queue behind the lanes in its ring.
LEMMA MultiRingStep ==
  ASSUME NEW F \in Nat \ {0}, NEW W, MultiInv(F, W),
         NEW pushed, NEW pop, MultiStep(F, W, pushed, pop),
         NEW gone, gone = MultiGone(pop), NEW qs, MultiDealt(F, W, qs),
         NEW i \in 0 .. F - 1
  PROVE  /\ Ring(W, MultiN, rd_ptr_r'[i], wr_ptr_r'[i], mem'[i],
                 DealtNext(F, qs, gone, pushed)[i])
         /\ rd_ptr_r'[i] = Multi(F, W)!fifo_rd_ptr_w(i, pop)
         /\ wr_ptr_r'[i] = Multi(F, W)!fifo_wr_ptr_w(i, pushed)
<1>1. PICK r, w, m, q : r = rd_ptr_r[i] /\ w = wr_ptr_r[i] /\ m = mem[i] /\ q = qs[i]
  OBVIOUS
<1>2. PICK given : given = Given(pushed, From(i, push_idx_1h_r, F))
  OBVIOUS
<1>3. PICK more : more = IF given = <<>> THEN 0 ELSE 1
  OBVIOUS
<1>4. PICK g : g = GoneFrom(i, gone)
  OBVIOUS
<1>5. /\ g \in 0 .. 1 /\ g <= Len(q)
      /\ given = <<>> \/ \E x \in W : given = <<x>>
      /\ more \in 0 .. 1 /\ Len(q) - g + more <= MultiN
      /\ given = <<>> <=> ~(From(i, push_idx_1h_r, F) < Len(pushed))
  BY <1>1, <1>2, <1>3, <1>4, MultiRoom
<1>6. Ring(W, MultiN, r, w, m, q)
  BY <1>1 DEF MultiDealt
<1>7. MultiN \in Nat \ {0} /\ 2 * MultiN \in Nat \ {0}
  BY DepthAssumption
<1>8. r \in 0 .. 2 * MultiN - 1 /\ w \in 0 .. 2 * MultiN - 1
  BY <1>6, <1>7, RingFacts DEF Ring
<1>9. Plus(r, 0, 2 * MultiN) = r /\ Plus(w, 0, 2 * MultiN) = w
  BY <1>7, <1>8, NotMoved
<1>10. Multi(F, W)!fifo_mem_en(i, pushed) <=> given # <<>>
  BY <1>5 DEF Multi!fifo_mem_en, Multi!LaneOf, From
<1>11. /\ rd_ptr_r'[i] = Multi(F, W)!fifo_rd_ptr_w(i, pop)
       /\ wr_ptr_r'[i] = Multi(F, W)!fifo_wr_ptr_w(i, pushed)
  BY DEF MultiStep, Multi!Clock, Multi!Edge, Multi!Fifo
<1>12. rd_ptr_r'[i] = Plus(r, g, 2 * MultiN)
  <2>1. Multi(F, W)!fifo_rd_ptr_w(i, pop) =
          IF pop_idx_1h_r = i /\ pop /\ ~empty_r THEN Plus(r, 1, 2 * MultiN) ELSE r
    BY <1>1 DEF Multi!fifo_rd_ptr_w, Multi!pop_idx_1h_en, Plus
  <2>2. g = IF pop_idx_1h_r = i /\ pop /\ ~empty_r THEN 1 ELSE 0
    BY <1>4 DEF GoneFrom, MultiGone
  <2>3. QED
    BY <1>9, <1>11, <2>1, <2>2
<1>13. wr_ptr_r'[i] = Plus(w, more, 2 * MultiN)
  <2>1. Multi(F, W)!fifo_wr_ptr_w(i, pushed) =
          IF given # <<>> THEN Plus(w, 1, 2 * MultiN) ELSE w
    BY <1>1, <1>10 DEF Multi!fifo_wr_ptr_w, Plus
  <2>2. QED
    BY <1>3, <1>9, <1>11, <2>1
<1>14. mem'[i] = IF given = <<>> THEN m ELSE [m EXCEPT ![w % MultiN] = given[1]]
  <2>1. mem'[i] = IF Multi(F, W)!fifo_mem_en(i, pushed)
                  THEN [mem[i] EXCEPT ![wr_ptr_r[i] % MultiN] =
                          pushed[Multi(F, W)!LaneOf(i) + 1]] ELSE mem[i]
    BY DEF MultiStep, Multi!Clock, Multi!Edge, Multi!Fifo
  <2>2. given # <<>> => given[1] = pushed[Multi(F, W)!LaneOf(i) + 1]
    BY <1>2 DEF Given, From, Multi!LaneOf
  <2>3. QED
    BY <1>1, <1>10, <2>1, <2>2
<1>15. PICK n, p : n = mem'[i] /\ p = DealtNext(F, qs, gone, pushed)[i]
  OBVIOUS
<1>16. p = SubSeq(q, g + 1, Len(q)) \o given
  BY <1>1, <1>2, <1>4, <1>15 DEF DealtNext, Remains
<1>17. RingTakes(W, MultiN, w, m, q, g, more, given, n, p)
  BY <1>3, <1>5, <1>14, <1>15, <1>16 DEF RingTakes
<1>18. /\ Ring(W, MultiN, Plus(r, g, 2 * MultiN), Plus(w, more, 2 * MultiN), n, p)
       /\ Len(p) = Len(q) - g + Len(given) /\ Len(given) = more
  BY <1>6, <1>7, <1>17, RingCycle
<1>19. QED
  BY <1>11, <1>12, <1>13, <1>15, <1>18

\* The pointers are N words apart, modulo twice as much, only if there are as
\* many words.
LEMMA RingFull ==
  ASSUME NEW S, NEW K \in Nat \ {0}, NEW r, NEW w, NEW m, NEW q, Ring(S, K, r, w, m, q)
  PROVE  w = Plus(r, K, 2 * K) <=> Len(q) >= K
<1>1. /\ r \in 0 .. 2 * K - 1 /\ Len(q) \in Nat /\ Len(q) <= K
      /\ w = Plus(r, Len(q), 2 * K)
  BY DEF Ring
<1>2. PICK M \in Nat \ {0}, l \in 0 .. K : M = 2 * K /\ l = Len(q)
  BY <1>1
<1>3. l # K => Plus(r, K, M) # Plus(r, l, M)
  <2>1. K \in 0 .. M - 1 /\ l \in 0 .. M - 1 /\ r \in 0 .. M - 1
    BY <1>1, <1>2
  <2>2. QED
    BY <2>1, EndsDiffer
<1>4. QED
  BY <1>1, <1>2, <1>3

\* If there are words behind a lane, there are words.
LEMMA DealtSome ==
  ASSUME NEW S, NEW F \in Nat \ {0}, NEW o, NEW q, NEW qs, Dealt(S, F, o, q, qs),
         NEW i, i \in 0 .. F - 1
  PROVE  Len(qs[i]) \in Nat /\ (Len(qs[i]) > 0 => Len(q) > 0)
<1>1. PICK d : d = From(i, o, F)
  OBVIOUS
<1>2. o \in 0 .. F - 1 /\ Len(qs[i]) \in Nat /\ Len(q) \in Nat
  BY DEF Dealt
<1>3. d \in 0 .. F - 1 /\ Plus(o, d, F) = i
  BY <1>1, <1>2, TurnsOnto DEF From
<1>4. Has(F, o, q, qs, d, 0)
  BY <1>3 DEF Dealt
<1>5. F * 0 = 0
  BY SMT
<1>6. 0 < Len(qs[i]) <=> d < Len(q)
  BY <1>3, <1>4, <1>5 DEF Has
<1>7. QED
  BY <1>2, <1>3, <1>6

\* If the queue after the first has no words, there is one word at most.
LEMMA DealtSecond ==
  ASSUME NEW S, NEW F \in Nat \ {0}, NEW o, NEW q, NEW qs, Dealt(S, F, o, q, qs),
         NEW j, j = Plus(o, 1, F), Len(qs[j]) = 0
  PROVE  Len(q) <= 1
<1>1. o \in 0 .. F - 1 /\ Len(q) \in Nat
  BY DEF Dealt
<1>2. CASE F = 1
  <2>1. Plus(Plus(o, 1, F), 0, F) = o /\ j \in 0 .. F - 1
    <3>1. 0 \in 0 .. F - 1
      OBVIOUS
    <3>2. /\ Plus(o, 1, F) \in 0 .. F - 1
          /\ Plus(Plus(o, 1, F), 0, F) = IF 0 = F - 1 THEN o ELSE Plus(o, 0 + 1, F)
      BY <1>1, <3>1, NextTurn
    <3>3. QED
      BY <1>2, <3>2
  <2>2. j = o
    BY <1>1, <1>2, <2>1
  <2>3. /\ Len(qs[o]) \in Nat /\ Len(q) \in Nat
        /\ Len(qs[o]) = 0 <=> Len(q) = 0
        /\ Len(q) > 0 => qs[o][1] = q[1]
    BY MultiFirst
  <2>4. QED
    BY <2>2, <2>3
<1>3. CASE F # 1
  <2>1. 1 \in 0 .. F - 1
    BY <1>3
  <2>2. Has(F, o, q, qs, 1, 0)
    BY <2>1 DEF Dealt
  <2>3. 1 + F * 0 = 1
    BY SMT
  <2>4. 0 < Len(qs[j]) <=> 1 < Len(q)
    BY <2>2, <2>3 DEF Has
  <2>5. QED
    BY <1>1, <2>4
<1>4. QED
  BY <1>2, <1>3

\* The flags are of the next cycle: a lane's is of the queue that it will push
\* to, that of the queue being empty is of the queue after the present one,
\* popped or not.
LEMMA MultiFlagsStep ==
  ASSUME NEW F \in Nat \ {0}, NEW W, MultiInv(F, W),
         NEW pushed, NEW pop, MultiStep(F, W, pushed, pop)
  PROVE  Multi(F, W)!FlagsSafe' /\ empty_r' \in BOOLEAN /\ full_r' \in [0 .. F - 1 -> BOOLEAN]
<1>1. PICK qs : MultiDealt(F, W, qs)
  BY DEF MultiInv
<1>2. PICK gone : gone = MultiGone(pop)
  OBVIOUS
<1>3. PICK ps, o, q, w : /\ ps = DealtNext(F, qs, gone, pushed) /\ o = pop_idx_1h_r'
                         /\ q = queue' /\ w = push_idx_1h_r'
  OBVIOUS
<1>4. Dealt(W, F, o, q, ps) /\ w = Plus(o, Len(q), F) /\ o = Plus(pop_idx_1h_r, gone, F)
  <2>1. /\ Dealt(W, F, pop_idx_1h_r', queue', DealtNext(F, qs, gone, pushed))
        /\ pop_idx_1h_r' = Plus(pop_idx_1h_r, gone, F)
        /\ push_idx_1h_r' = Plus(pop_idx_1h_r', Len(queue'), F)
        /\ Len(queue') = Len(queue) - gone + Len(pushed)
    BY <1>1, <1>2, MultiDealtStep
  <2>2. QED
    BY <1>3, <2>1
<1>5. \A i \in 0 .. F - 1 :
        /\ Ring(W, MultiN, rd_ptr_r'[i], wr_ptr_r'[i], mem'[i], ps[i])
        /\ rd_ptr_r'[i] = Multi(F, W)!fifo_rd_ptr_w(i, pop)
        /\ wr_ptr_r'[i] = Multi(F, W)!fifo_wr_ptr_w(i, pushed)
  BY <1>1, <1>2, <1>3, MultiRingStep
<1>6. o \in 0 .. F - 1 /\ Len(q) \in Nat /\ w \in 0 .. F - 1 /\ q \in Seq(W)
  <2>1. o \in 0 .. F - 1 /\ Len(q) \in Nat /\ q \in Seq(W)
    BY <1>4 DEF Dealt
  <2>2. QED
    BY <1>4, <2>1, TurnsAdd
<1>7. MultiN \in Nat \ {0}
  BY DepthAssumption
<1>8. ASSUME NEW lane \in 0 .. F - 1
      PROVE  full_r'[lane] <=> Len(q) + lane >= F * MultiN
  <2>1. PICK i : i = Plus(w, lane, F)
    OBVIOUS
  <2>2. i \in 0 .. F - 1
    BY <1>6, <2>1, TurnsAdd
  <2>3. full_r'[lane] <=> wr_ptr_r'[i] = Plus(rd_ptr_r'[i], MultiN, 2 * MultiN)
    <3>1. i = Multi(F, W)!Rotated(Multi(F, W)!push_idx_1h_w(pushed), lane)
      BY <1>3, <2>1 DEF MultiStep, Multi!Clock, Multi!Edge, Multi!Rotated, Plus
    <3>2. full_r'[lane] <=> Multi(F, W)!fifo_full_w(i, pushed, pop)
      BY <3>1 DEF MultiStep, Multi!Clock, Multi!Edge, Multi!Lane, Multi!full_w
    <3>3. QED
      BY <1>5, <2>2, <3>2 DEF Multi!fifo_full_w, Plus
  <2>4. wr_ptr_r'[i] = Plus(rd_ptr_r'[i], MultiN, 2 * MultiN) <=> Len(ps[i]) >= MultiN
    BY <1>5, <1>7, <2>2, RingFull
  <2>5. Len(ps[i]) >= MultiN <=> Len(q) + lane >= F * MultiN
    BY <1>4, <1>7, <2>1, DealtFull
  <2>6. QED
    BY <2>3, <2>4, <2>5
<1>9. PICK j : j = Plus(pop_idx_1h_r, 1, F)
  OBVIOUS
<1>10. pop_idx_1h_r \in 0 .. F - 1 /\ j \in 0 .. F - 1 /\ gone \in 0 .. 1
  <2>1. pop_idx_1h_r \in 0 .. F - 1 /\ empty_r \in BOOLEAN
    BY DEF MultiInv, Multi!TypeOK, Multi!Fifo
  <2>2. QED
    BY <1>2, <1>9, <2>1, TurnsAdd DEF MultiGone
<1>11. empty_r' <=> Len(ps[j]) = 0
  <2>1. empty_r' <=> rd_ptr_r'[j] = wr_ptr_r'[j]
    <3>1. empty_r' <=> Multi(F, W)!fifo_empty_w(j, pushed, pop)
      BY <1>9 DEF MultiStep, Multi!Clock, Multi!Edge, Multi!empty_w, Multi!pop_idx_1h_w,
                  Multi!Rotated, Plus
    <3>2. QED
      BY <1>5, <1>10, <3>1 DEF Multi!fifo_empty_w
  <2>2. PICK r, v, m, p : /\ r = rd_ptr_r'[j] /\ v = wr_ptr_r'[j] /\ m = mem'[j] /\ p = ps[j]
    OBVIOUS
  <2>3. Ring(W, MultiN, r, v, m, p)
    BY <1>5, <1>10, <2>2
  <2>4. r = v <=> Len(p) = 0
    BY <1>7, <2>3, RingFacts
  <2>5. QED
    BY <2>1, <2>2, <2>4
<1>12. Len(ps[j]) \in Nat /\ (Len(ps[j]) > 0 => Len(q) > 0)
  BY <1>4, <1>10, DealtSome
<1>13. Len(ps[j]) = 0 => Len(q) <= 1
  <2>1. CASE gone = 1
    <3>1. j = o
      BY <1>4, <1>9, <2>1
    <3>2. /\ Len(ps[o]) \in Nat /\ Len(q) \in Nat
          /\ Len(ps[o]) = 0 <=> Len(q) = 0
          /\ Len(q) > 0 => ps[o][1] = q[1]
      BY <1>4, MultiFirst
    <3>3. QED
      BY <3>1, <3>2
  <2>2. CASE gone = 0
    <3>1. j = Plus(o, 1, F)
      BY <1>4, <1>9, <1>10, <2>2, NotMoved
    <3>2. QED
      BY <1>4, <3>1, DealtSecond
  <2>3. QED
    BY <1>10, <2>1, <2>2
<1>14. q = <<>> <=> Len(q) = 0
  BY <1>6, EmptySeq
<1>15. full_r' \in [0 .. F - 1 -> BOOLEAN] /\ empty_r' \in BOOLEAN
  BY DEF MultiStep, Multi!Clock, Multi!Edge, Multi!Lane, Multi!full_w, Multi!empty_w,
         Multi!fifo_full_w, Multi!fifo_empty_w
<1>16. QED
  BY <1>3, <1>6, <1>8, <1>11, <1>12, <1>13, <1>14, <1>15 DEF Multi!FlagsSafe, Multi!Lane

\* What is popped is the oldest word.
LEMMA MultiPopStep ==
  ASSUME NEW F \in Nat \ {0}, NEW W, MultiInv(F, W),
         NEW pushed, NEW pop, MultiStep(F, W, pushed, pop),
         NEW gone, gone = MultiGone(pop)
  PROVE  /\ pop_data' = IF gone = 1 THEN <<queue[1]>> ELSE <<>>
         /\ gone = 1 => Len(queue) > 0 /\ queue[1] \in W
         /\ Multi(F, W)!PopsInOrder'
<1>1. PICK qs : MultiDealt(F, W, qs)
  BY DEF MultiInv
<1>2. PICK o, r, w, m, s : /\ o = pop_idx_1h_r /\ r = rd_ptr_r[o] /\ w = wr_ptr_r[o]
                           /\ m = mem[o] /\ s = qs[o]
  OBVIOUS
<1>3. /\ Dealt(W, F, o, queue, qs) /\ o \in 0 .. F - 1
      /\ Ring(W, MultiN, r, w, m, s)
  BY <1>1, <1>2 DEF MultiDealt, Dealt
<1>4. /\ gone \in 0 .. 1 /\ gone <= Len(queue) /\ Len(queue) \in Nat /\ queue \in Seq(W)
      /\ expected' = IF gone = 1 THEN <<queue[1]>> ELSE <<>>
  BY MultiScore
<1>5. /\ Len(qs[o]) \in Nat /\ Len(queue) \in Nat
      /\ Len(qs[o]) = 0 <=> Len(queue) = 0
      /\ Len(queue) > 0 => qs[o][1] = queue[1]
  BY <1>3, MultiFirst
<1>6. Len(s) > 0 => m[r % MultiN] = s[1]
  <2>1. MultiN \in Nat \ {0}
    BY DepthAssumption
  <2>2. QED
    BY <1>3, <2>1, RingFacts
<1>7. pop_data' = IF gone = 1 THEN <<m[r % MultiN]>> ELSE <<>>
  <2>1. pop_data' = IF pop /\ ~empty_r THEN <<mem[o][rd_ptr_r[o] % MultiN]>> ELSE <<>>
    BY <1>2 DEF MultiStep, Multi!Clock, Multi!Edge, Multi!pop_idx_1h_en
  <2>2. QED
    BY <1>2, <2>1 DEF MultiGone
<1>8. gone = 1 => Len(queue) > 0 /\ queue[1] \in W /\ m[r % MultiN] = queue[1]
  BY <1>2, <1>4, <1>5, <1>6
<1>9. QED
  BY <1>4, <1>7, <1>8 DEF Multi!PopsInOrder

LEMMA MultiInitInv ==
  ASSUME NEW F \in Nat \ {0}, NEW W, Multi(F, W)!Init
  PROVE  MultiInv(F, W)
<1>1. MultiN \in Nat \ {0} /\ 0 \in 0 .. 2 * MultiN - 1
  BY DepthAssumption
<1>2. 0 \in 0 .. F - 1 /\ Plus(0, 0, F) = 0
  BY NotMoved
<1>3. Plus(0, 0, 2 * MultiN) = 0
  <2>1. PICK M \in Nat \ {0} : M = 2 * MultiN
    BY <1>1
  <2>2. QED
    BY <1>1, <2>1, NotMoved
<1>4. /\ push_idx_1h_r = 0 /\ pop_idx_1h_r = 0
      /\ wr_ptr_r = [i \in 0 .. F - 1 |-> 0] /\ rd_ptr_r = [i \in 0 .. F - 1 |-> 0]
      /\ empty_r = TRUE /\ full_r = [i \in 0 .. F - 1 |-> FALSE]
      /\ mem \in [0 .. F - 1 -> [0 .. MultiN - 1 -> W]]
      /\ pop_data = <<>> /\ queue = <<>> /\ expected = <<>>
  BY DEF Multi!Init, Multi!Fifo, Multi!Lane
<1>5. Multi(F, W)!TypeOK
  BY <1>1, <1>2, <1>4 DEF Multi!TypeOK, Multi!Fifo, Multi!Lane, Multi!Ptr
<1> DEFINE qs == [i \in 0 .. F - 1 |-> <<>>]
<1>6. \A i \in 0 .. F - 1 : qs[i] = <<>>
  OBVIOUS
<1> HIDE DEF qs
<1>7. Dealt(W, F, 0, <<>>, qs)
  <2>1. ASSUME NEW d \in 0 .. F - 1, NEW k \in Nat
        PROVE  Has(F, 0, <<>>, qs, d, k)
    <3>1. Plus(0, d, F) \in 0 .. F - 1
      BY <1>2, MovedType
    <3>2. PICK x \in Nat : x = F * k
      BY Rounds
    <3>3. qs[Plus(0, d, F)] = <<>> /\ Len(<<>>) = 0
      BY <1>6, <3>1
    <3>4. ~(k < 0) /\ ~(d + x < 0)
      OBVIOUS
    <3>5. QED
      BY <3>2, <3>3, <3>4 DEF Has
  <2>2. <<>> \in Seq(W)
    OBVIOUS
  <2>3. QED
    BY <1>2, <1>6, <2>1, <2>2 DEF Dealt
<1>8. ASSUME NEW i \in 0 .. F - 1
      PROVE  Ring(W, MultiN, rd_ptr_r[i], wr_ptr_r[i], mem[i], qs[i])
  <2>1. rd_ptr_r[i] = 0 /\ wr_ptr_r[i] = 0 /\ mem[i] \in [0 .. MultiN - 1 -> W]
    BY <1>4
  <2>2. <<>> \in Seq(W) /\ Len(<<>>) = 0
    OBVIOUS
  <2>3. Ring(W, MultiN, 0, 0, mem[i], <<>>)
    BY <1>1, <1>3, <2>1, <2>2 DEF Ring
  <2>4. QED
    BY <1>6, <2>1, <2>3
<1>9. MultiDealt(F, W, qs)
  BY <1>4, <1>7, <1>8 DEF MultiDealt
<1>10. push_idx_1h_r = Plus(pop_idx_1h_r, Len(queue), F)
  BY <1>2, <1>4
<1>11. Multi(F, W)!FlagsSafe /\ Multi(F, W)!PopsInOrder
  <2>1. PICK y \in Nat : y = F * MultiN /\ y >= F
    <3>1. F * (0 + 1) = F * 0 + F /\ F * 0 \in Nat /\ F * MultiN \in Nat
          /\ F * 0 + F <= F * MultiN
      BY <1>1, Rounds
    <3>2. QED
      BY <3>1
  <2>2. ASSUME NEW lane \in 0 .. F - 1
        PROVE  full_r[lane] <=> Len(queue) + lane >= F * MultiN
    <3>1. full_r[lane] <=> FALSE
      BY <1>4
    <3>2. Len(queue) = 0
      BY <1>4
    <3>3. ~(0 + lane >= y)
      BY <2>1
    <3>4. QED
      BY <2>1, <3>1, <3>2, <3>3
  <2>3. QED
    BY <1>4, <2>2 DEF Multi!FlagsSafe, Multi!PopsInOrder, Multi!Lane
<1>12. QED
  BY <1>5, <1>9, <1>10, <1>11 DEF MultiInv

LEMMA MultiNextInv ==
  ASSUME NEW F \in Nat \ {0}, NEW W, MultiInv(F, W),
         [Multi(F, W)!Next]_(Multi(F, W)!vars)
  PROVE  MultiInv(F, W)'
<1>1. CASE Multi(F, W)!Next
  <2>1. PICK pushed, pop : MultiStep(F, W, pushed, pop)
    BY <1>1 DEF Multi!Next, MultiStep
  <2>2. PICK gone : gone = MultiGone(pop)
    OBVIOUS
  <2>3. PICK qs : MultiDealt(F, W, qs)
    BY DEF MultiInv
  <2>4. PICK ps : ps = DealtNext(F, qs, gone, pushed)
    OBVIOUS
  <2>5. /\ Dealt(W, F, pop_idx_1h_r', queue', ps)
        /\ push_idx_1h_r' = Plus(pop_idx_1h_r', Len(queue'), F)
    BY <2>1, <2>2, <2>3, <2>4, MultiDealtStep
  <2>6. \A i \in 0 .. F - 1 : Ring(W, MultiN, rd_ptr_r'[i], wr_ptr_r'[i], mem'[i], ps[i])
    BY <2>1, <2>2, <2>3, <2>4, MultiRingStep
  <2>7. MultiDealt(F, W, ps)'
    BY <2>5, <2>6 DEF MultiDealt
  <2>8. Multi(F, W)!FlagsSafe' /\ empty_r' \in BOOLEAN /\ full_r' \in [0 .. F - 1 -> BOOLEAN]
    BY <2>1, MultiFlagsStep
  <2>9. /\ pop_data' = IF gone = 1 THEN <<queue[1]>> ELSE <<>>
        /\ gone = 1 => Len(queue) > 0 /\ queue[1] \in W
        /\ Multi(F, W)!PopsInOrder'
    BY <2>1, <2>2, MultiPopStep
  <2>10. pop_data' \in {<<>>} \union {<<x>> : x \in W}
    BY <2>9
  <2>11. pop_idx_1h_r' \in 0 .. F - 1 /\ push_idx_1h_r' \in 0 .. F - 1
    <3>1. pop_idx_1h_r' \in 0 .. F - 1 /\ Len(queue') \in Nat
      BY <2>5 DEF Dealt
    <3>2. QED
      BY <2>5, <3>1, TurnsAdd
  <2>12. \A i \in 0 .. F - 1 : /\ rd_ptr_r'[i] \in 0 .. 2 * MultiN - 1
                               /\ wr_ptr_r'[i] \in 0 .. 2 * MultiN - 1
                               /\ mem'[i] \in [0 .. MultiN - 1 -> W]
    <3> SUFFICES ASSUME NEW i \in 0 .. F - 1
                 PROVE  /\ rd_ptr_r'[i] \in 0 .. 2 * MultiN - 1
                        /\ wr_ptr_r'[i] \in 0 .. 2 * MultiN - 1
                        /\ mem'[i] \in [0 .. MultiN - 1 -> W]
      OBVIOUS
    <3>1. PICK r, w, m, p : /\ r = rd_ptr_r'[i] /\ w = wr_ptr_r'[i] /\ m = mem'[i]
                            /\ p = ps[i]
      OBVIOUS
    <3>2. Ring(W, MultiN, r, w, m, p) /\ MultiN \in Nat \ {0}
      BY <2>6, <3>1, DepthAssumption
    <3>3. w \in 0 .. 2 * MultiN - 1
      BY <3>2, RingFacts
    <3>4. QED
      BY <3>1, <3>2, <3>3 DEF Ring
  <2>13. /\ rd_ptr_r' = [i \in 0 .. F - 1 |-> rd_ptr_r'[i]]
         /\ wr_ptr_r' = [i \in 0 .. F - 1 |-> wr_ptr_r'[i]]
         /\ mem' = [i \in 0 .. F - 1 |-> mem'[i]]
    BY <2>1 DEF MultiStep, Multi!Clock, Multi!Edge, Multi!Fifo
  <2>14. /\ rd_ptr_r' \in [0 .. F - 1 -> 0 .. 2 * MultiN - 1]
         /\ wr_ptr_r' \in [0 .. F - 1 -> 0 .. 2 * MultiN - 1]
         /\ mem' \in [0 .. F - 1 -> [0 .. MultiN - 1 -> W]]
    BY <2>12, <2>13
  <2>15. Multi(F, W)!TypeOK'
    BY <2>8, <2>10, <2>11, <2>14 DEF Multi!TypeOK, Multi!Fifo, Multi!Lane, Multi!Ptr
  <2>16. QED
    BY <2>5, <2>7, <2>8, <2>9, <2>15 DEF MultiInv
<1>2. CASE UNCHANGED Multi(F, W)!vars
  BY <1>2 DEF Multi!vars, MultiInv, MultiDealt, Multi!TypeOK, Multi!FlagsSafe,
              Multi!PopsInOrder
<1>3. QED
  BY <1>1, <1>2

\* There are never more words than the queues behind the lanes have room for.
LEMMA DealtFits ==
  ASSUME NEW S, NEW F \in Nat \ {0}, NEW o, NEW q, NEW qs, Dealt(S, F, o, q, qs),
         NEW K \in Nat, \A i \in 0 .. F - 1 : Len(qs[i]) <= K
  PROVE  Len(q) <= F * K
<1>1. o \in 0 .. F - 1 /\ Len(q) \in Nat /\ \A i \in 0 .. F - 1 : Len(qs[i]) \in Nat
  BY DEF Dealt
<1>2. PICK d \in 0 .. F - 1 : d = 0
  OBVIOUS
<1>3. Plus(o, d, F) \in 0 .. F - 1
  BY <1>1, MovedType
<1>4. Has(F, o, q, qs, d, K)
  BY DEF Dealt
<1>5. PICK x \in Nat : x = F * K
  BY Rounds
<1>6. K < Len(qs[Plus(o, d, F)]) <=> d + x < Len(q)
  BY <1>4, <1>5 DEF Has
<1>7. QED
  BY <1>1, <1>2, <1>3, <1>5, <1>6

\* The words between the pointers are the scoreboard's, in turn.
LEMMA MultiHeldIsQueue ==
  ASSUME NEW F \in Nat \ {0}, NEW W, MultiInv(F, W)
  PROVE  Multi(F, W)!Held = queue
<1>1. PICK qs : MultiDealt(F, W, qs)
  BY DEF MultiInv
<1>2. PICK o, q : o = pop_idx_1h_r /\ q = queue
  OBVIOUS
<1>3. Dealt(W, F, o, q, qs) /\ q \in Seq(W) /\ Len(q) \in Nat
  BY <1>1, <1>2 DEF MultiDealt, Dealt
<1>4. MultiN \in Nat \ {0}
  BY DepthAssumption
<1>5. \A i \in 0 .. F - 1 :
        Ring(W, MultiN, rd_ptr_r[i], wr_ptr_r[i], mem[i], qs[i])
  BY <1>1 DEF MultiDealt
<1>6. PICK M : M = 2 * MultiN
  OBVIOUS
<1>7. ASSUME NEW i \in 0 .. F - 1
      PROVE  (wr_ptr_r[i] - rd_ptr_r[i]) % M = Len(qs[i]) /\ Len(qs[i]) <= M
  <2>1. PICK r, w, m, p : r = rd_ptr_r[i] /\ w = wr_ptr_r[i] /\ m = mem[i] /\ p = qs[i]
    OBVIOUS
  <2>2. Ring(W, MultiN, r, w, m, p)
    BY <1>5, <2>1
  <2>3. /\ r \in 0 .. 2 * MultiN - 1 /\ Len(p) \in Nat /\ Len(p) <= MultiN
        /\ w = Plus(r, Len(p), 2 * MultiN)
    BY <2>2 DEF Ring
  <2>4. PICK K \in Nat \ {0} : K = M /\ r \in 0 .. K - 1
    BY <1>4, <1>6, <2>3
  <2>5. PICK l \in 0 .. K - 1 : l = Len(p)
    BY <1>4, <1>6, <2>3, <2>4
  <2>6. (Plus(r, l, K) - r) % K = l
    BY <2>4, HasMoved
  <2>7. l <= K
    BY <2>5
  <2>8. w = Plus(r, l, K)
    BY <1>6, <2>3, <2>4, <2>5
  <2>9. QED
    BY <2>1, <2>4, <2>5, <2>6, <2>7, <2>8
<1>8. Multi(F, W)!Fill = Len(q)
  <2>1. M \in Nat
    BY <1>4, <1>6
  <2>2. \A i \in 0 .. F - 1 : Len(qs[i]) <= M
    BY <1>7
  <2>3. Cardinality(Slots(F, M, qs)) = Len(q)
    BY <1>3, <2>1, <2>2, DealtCount
  <2>4. \A s \in (0 .. F - 1) \X (0 .. M - 1) :
          s[2] < (wr_ptr_r[s[1]] - rd_ptr_r[s[1]]) % M <=> s[2] < Len(qs[s[1]])
    BY <1>7
  <2> DEFINE slots == {s \in (0 .. F - 1) \X (0 .. 2 * MultiN - 1) :
                        s[2] < (wr_ptr_r[s[1]] - rd_ptr_r[s[1]]) % (2 * MultiN)}
  <2>5. slots = Slots(F, M, qs)
    BY <1>6, <2>4 DEF Slots
  <2>6. Multi(F, W)!Fill = Cardinality(slots)
    BY DEF Multi!Cardinality, Cardinality, Multi!Fill, Multi!Fifo, Multi!Ptr
  <2> HIDE DEF slots
  <2>7. QED
    BY <2>3, <2>5, <2>6
<1> DEFINE fifo(j) == Plus(o, j - 1, F)
           slot(j) == (j - 1) \div F
           f == [j \in 1 .. Len(q) |-> mem[fifo(j)][(rd_ptr_r[fifo(j)] + slot(j)) % MultiN]]
<1>9. Multi(F, W)!Held = f
  BY <1>2, <1>8 DEF Multi!Held, Multi!Rotated, Plus
<1>10. ASSUME NEW j \in 1 .. Len(q)
       PROVE  mem[fifo(j)][(rd_ptr_r[fifo(j)] + slot(j)) % MultiN] = q[j]
  <2>1. PICK i, k : i = fifo(j) /\ k = slot(j)
    OBVIOUS
  <2>2. /\ i \in 0 .. F - 1 /\ k \in Nat /\ k < Len(qs[i])
        /\ qs[i][k + 1] = q[j]
    <3>1. GoesTo(F, o, j, i, k)
      BY <2>1 DEF GoesTo
    <3>2. QED
      BY <1>3, <3>1, DealtTo
  <2>3. Ring(W, MultiN, rd_ptr_r[i], wr_ptr_r[i], mem[i], qs[i])
    BY <1>5, <2>2
  <2>4. k + 1 \in 1 .. Len(qs[i]) /\ (k + 1) - 1 = k
    <3>1. Len(qs[i]) \in Nat
      BY <2>3 DEF Ring
    <3>2. QED
      BY <2>2, <3>1
  <2>5. mem[i][Plus(rd_ptr_r[i], (k + 1) - 1, MultiN)] = qs[i][k + 1]
    BY <2>3, <2>4 DEF Ring
  <2>6. mem[i][Plus(rd_ptr_r[i], k, MultiN)] = q[j]
    BY <2>2, <2>4, <2>5
  <2>7. QED
    BY <2>1, <2>6 DEF Plus
<1>11. /\ DOMAIN f = 1 .. Len(q) /\ f = [j \in DOMAIN f |-> f[j]]
       /\ \A j \in 1 .. Len(q) : f[j] = q[j]
  BY <1>10
<1> HIDE DEF f
<1>12. f = q
  BY <1>3, <1>11, SameWords
<1>13. QED
  BY <1>2, <1>9, <1>12

\* A cycle of fifo_multi_push is a cycle of the abstract queue.
LEMMA MultiStepRefines ==
  ASSUME NEW F \in Nat \ {0}, NEW W, MultiInv(F, W),
         NEW pushed, NEW pop, MultiStep(F, W, pushed, pop),
         Multi(F, W)!Held = queue, Multi(F, W)!Held' = queue'
  PROVE  Multi(F, W)!Abstract!Next
<1>1. PICK gone : gone = MultiGone(pop)
  OBVIOUS
<1>2. PICK given \in BOOLEAN : given <=> pop /\ ~empty_r
  <2>1. (pop /\ ~empty_r) \in BOOLEAN
    OBVIOUS
  <2>2. QED
    BY <2>1
<1>3. gone = Multi(F, W)!Abstract!One(given) /\ (gone = 1 <=> given)
  BY <1>1, <1>2 DEF MultiGone, Multi!Abstract!One
<1>4. /\ gone \in 0 .. 1 /\ gone <= Len(queue) /\ Len(queue) \in Nat
      /\ pushed \in Seq(W) /\ Len(pushed) \in Nat /\ Len(pushed) <= F
      /\ queue' = Remains(queue, gone) \o pushed
  BY <1>1, MultiScore
<1>5. PICK n \in 0 .. F : n = Len(pushed)
  BY <1>4
<1>6. pushed \in [1 .. n -> W]
  BY <1>4, <1>5
<1>7. /\ pop_data' = IF gone = 1 THEN <<queue[1]>> ELSE <<>>
      /\ gone = 1 => Len(queue) > 0 /\ queue[1] \in W
  BY <1>1, MultiPopStep
<1>8. Len(queue) - gone + Len(pushed) <= F * MultiN
  <2>1. PICK qs : MultiDealt(F, W, qs)
    BY DEF MultiInv
  <2>2. PICK ps : ps = DealtNext(F, qs, gone, pushed)
    OBVIOUS
  <2>3. /\ Dealt(W, F, pop_idx_1h_r', queue', ps)
        /\ Len(queue') = Len(queue) - gone + Len(pushed)
    BY <1>1, <2>1, <2>2, MultiDealtStep
  <2>4. \A i \in 0 .. F - 1 : Len(ps[i]) <= MultiN
    BY <1>1, <2>1, <2>2, MultiRingStep DEF Ring
  <2>5. MultiN \in Nat
    BY DepthAssumption
  <2>6. Len(queue') <= F * MultiN
    BY <2>3, <2>4, <2>5, DealtFits
  <2>7. QED
    BY <2>3, <2>6
<1>9. queue' = SubSeq(queue, 1 + gone, Len(queue)) \o pushed
  <2>1. 1 + gone = gone + 1
    BY <1>4
  <2>2. QED
    BY <1>4, <2>1 DEF Remains
<1>10. Multi(F, W)!Abstract!Cycle(pushed, given, given, FALSE)
  <2>1. given => gone = 1
    BY <1>3
  <2>5. given => 0 < Len(queue) /\ 0 + gone > 0
    BY <1>4, <1>7, <2>1
  <2>2. pop_data' = IF given THEN <<queue[0 + 1]>> ELSE <<>>
    BY <1>3, <1>7
  <2>3. 0 = 0 + gone - gone
    BY <1>4
  <2>4. QED
    BY <1>3, <1>8, <1>9, <2>2, <2>3, <2>5 DEF Multi!Abstract!Cycle
<1>11. given \in BOOLEAN /\ FALSE \in BOOLEAN
  BY <1>2
<1>12. QED
  BY <1>5, <1>6, <1>10, <1>11 DEF Multi!Abstract!Next

LEMMA MultiNextRefines ==
  ASSUME NEW F \in Nat \ {0}, NEW W, MultiInv(F, W),
         [Multi(F, W)!Next]_(Multi(F, W)!vars),
         Multi(F, W)!Held = queue, Multi(F, W)!Held' = queue'
  PROVE  [Multi(F, W)!Abstract!Next]_(Multi(F, W)!Abstract!vars)
<1>1. CASE Multi(F, W)!Next
  <2>1. PICK pushed, pop : MultiStep(F, W, pushed, pop)
    BY <1>1 DEF Multi!Next, MultiStep
  <2>2. Multi(F, W)!Abstract!Next
    BY <2>1, MultiStepRefines
  <2>3. QED
    BY <2>2
<1>2. CASE UNCHANGED Multi(F, W)!vars
  <2>1. Multi(F, W)!Held' = Multi(F, W)!Held /\ pop_data' = pop_data
    BY <1>2 DEF Multi!vars
  <2>2. QED
    BY <2>1 DEF Multi!Abstract!vars
<1>3. QED
  BY <1>1, <1>2

\* The types, the order, the flags and the queue, for any number of lanes that
\* are queues of any number of words.
THEOREM MultiCorrect ==
  ASSUME NEW F \in Nat \ {0}, NEW W
  PROVE  Multi(F, W)!Init /\ [][Multi(F, W)!Next]_(Multi(F, W)!vars)
         => /\ [](Multi(F, W)!TypeOK /\ Multi(F, W)!PopsInOrder /\ Multi(F, W)!FlagsSafe)
            /\ Multi(F, W)!Abstract!Spec
<1>1. Multi(F, W)!Init => MultiInv(F, W)
  BY MultiInitInv
<1>2. MultiInv(F, W) /\ [Multi(F, W)!Next]_(Multi(F, W)!vars) => MultiInv(F, W)'
  BY MultiNextInv
<1>3. MultiInv(F, W) => /\ Multi(F, W)!TypeOK /\ Multi(F, W)!PopsInOrder /\ Multi(F, W)!FlagsSafe
                        /\ Multi(F, W)!Held = queue
  BY MultiHeldIsQueue DEF MultiInv
<1>4. Multi(F, W)!Init /\ Multi(F, W)!Held = queue => Multi(F, W)!Abstract!Init
  BY DEF Multi!Init, Multi!Abstract!Init
<1>5. /\ MultiInv(F, W) /\ [Multi(F, W)!Next]_(Multi(F, W)!vars)
      /\ Multi(F, W)!Held = queue /\ (Multi(F, W)!Held = queue)'
      => [Multi(F, W)!Abstract!Next]_(Multi(F, W)!Abstract!vars)
  BY MultiNextRefines
<1>6. QED
  BY <1>1, <1>2, <1>3, <1>4, <1>5, PTL DEF Multi!Abstract!Spec

-----------------------------------------------------------------------------
(* The queues together: a behaviour is about one of them.                  *)

Single == {"fifo_ptr", "fifo_ptr_replay", "fifo_sr", "fifo_n"}
Multiple == {"fifo_multi_push", "fifo_multi_push_4"}

FifosInv ==
  /\ unit \in Single \union Multiple
  /\ unit = "fifo_ptr" => PtrInv(FALSE)
  /\ unit = "fifo_ptr_replay" => PtrInv(TRUE)
  /\ unit = "fifo_sr" => SrInv
  /\ unit = "fifo_n" => VqInv
  /\ unit = "fifo_multi_push" => MultiInv(MultiF, Words)
  /\ unit = "fifo_multi_push_4" => MultiInv(4, {0})

\* After reset the invariant holds of whichever queue it is.
LEMMA FifosInitInv == Init => FifosInv
<1> SUFFICES ASSUME Init
             PROVE  FifosInv
  OBVIOUS
<1>1. ASSUME unit = "fifo_ptr"
      PROVE  PtrInv(FALSE)
  BY <1>1, PtrInitInv DEF Init
<1>2. ASSUME unit = "fifo_ptr_replay"
      PROVE  PtrInv(TRUE)
  BY <1>2, PtrInitInv DEF Init
<1>3. ASSUME unit = "fifo_sr"
      PROVE  SrInv
  BY <1>3, SrInitInv DEF Init
<1>4. ASSUME unit = "fifo_n"
      PROVE  VqInv
  BY <1>4, VqInitInv DEF Init
<1>5. ASSUME unit = "fifo_multi_push"
      PROVE  MultiInv(MultiF, Words)
  <2>1. Multi(MultiF, Words)!Init /\ MultiF \in Nat \ {0}
    BY <1>5, DepthAssumption DEF Init
  <2>2. QED
    BY <2>1, MultiInitInv
<1>6. ASSUME unit = "fifo_multi_push_4"
      PROVE  MultiInv(4, {0})
  <2>1. Multi(4, {0})!Init /\ 4 \in Nat \ {0}
    BY <1>6 DEF Init
  <2>2. QED
    BY <2>1, MultiInitInv
<1>7. unit \in Single \union Multiple
  BY DEF Init, Single, Multiple
<1>8. QED
  BY <1>1, <1>2, <1>3, <1>4, <1>5, <1>6, <1>7 DEF FifosInv

\* A cycle is one of the queue it is about.
LEMMA FifosNextInv == FifosInv /\ [Next]_vars => FifosInv'
<1> SUFFICES ASSUME FifosInv, [Next]_vars
             PROVE  FifosInv'
  OBVIOUS
<1>1. unit' = unit
  BY DEF Next, vars
<1>2. ASSUME unit = "fifo_ptr"
      PROVE  PtrInv(FALSE)'
  <2>1. [Ptr(FALSE)!Next]_(Ptr(FALSE)!vars)
    BY <1>2 DEF Next, vars, Ptr!vars, flagVars, ptrVars
  <2>2. PtrInv(FALSE)
    BY <1>2 DEF FifosInv
  <2>3. QED
    BY <2>1, <2>2, PtrNextInv
<1>3. ASSUME unit = "fifo_ptr_replay"
      PROVE  PtrInv(TRUE)'
  <2>1. [Ptr(TRUE)!Next]_(Ptr(TRUE)!vars)
    BY <1>3 DEF Next, vars, Ptr!vars, flagVars, ptrVars
  <2>2. PtrInv(TRUE)
    BY <1>3 DEF FifosInv
  <2>3. QED
    BY <2>1, <2>2, PtrNextInv
<1>4. ASSUME unit = "fifo_sr"
      PROVE  SrInv'
  <2>1. [Sr!Next]_(Sr!vars)
    BY <1>4 DEF Next, vars, Sr!vars, flagVars, srVars
  <2>2. SrInv
    BY <1>4 DEF FifosInv
  <2>3. QED
    BY <2>1, <2>2, SrNextInv
<1>5. ASSUME unit = "fifo_n"
      PROVE  VqInv'
  <2>1. [Vqs!Next]_(Vqs!vars)
    BY <1>5 DEF Next, vars, Vqs!vars, nVars
  <2>2. VqInv
    BY <1>5 DEF FifosInv
  <2>3. QED
    BY <2>1, <2>2, VqNextInv
<1>6. ASSUME unit = "fifo_multi_push"
      PROVE  MultiInv(MultiF, Words)'
  <2>1. [Multi(MultiF, Words)!Next]_(Multi(MultiF, Words)!vars)
    BY <1>6 DEF Next, vars, Multi!vars, flagVars, multiVars
  <2>2. MultiInv(MultiF, Words) /\ MultiF \in Nat \ {0}
    BY <1>6, DepthAssumption DEF FifosInv
  <2>3. QED
    BY <2>1, <2>2, MultiNextInv
<1>7. ASSUME unit = "fifo_multi_push_4"
      PROVE  MultiInv(4, {0})'
  <2>1. [Multi(4, {0})!Next]_(Multi(4, {0})!vars)
    BY <1>7 DEF Next, vars, Multi!vars, flagVars, multiVars
  <2>2. MultiInv(4, {0}) /\ 4 \in Nat \ {0}
    BY <1>7 DEF FifosInv
  <2>3. QED
    BY <2>1, <2>2, MultiNextInv
<1>8. unit' \in Single \union Multiple
  BY <1>1 DEF FifosInv
<1>9. QED
  BY <1>1, <1>2, <1>3, <1>4, <1>5, <1>6, <1>7, <1>8 DEF FifosInv

\* The flags of fifo_ptr, with and without replay, and of fifo_n are exact,
\* for any number of words and of queues.
THEOREM FlagsExactCorrect == Spec => []FlagsExact
<1>1. FifosInv => FlagsExact
  <2> SUFFICES ASSUME FifosInv
               PROVE  FlagsExact
    OBVIOUS
  <2>1. unit = "fifo_ptr" => Ptr(FALSE)!FlagsExact
    BY DEF FifosInv, PtrInv
  <2>2. unit = "fifo_ptr_replay" => Ptr(TRUE)!FlagsExact
    BY DEF FifosInv, PtrInv
  <2>3. unit = "fifo_n" => Vqs!FlagsExact
    BY DEF FifosInv, VqInv
  <2>4. QED
    BY <2>1, <2>2, <2>3 DEF FlagsExact
<1>2. QED
  BY <1>1, FifosInitInv, FifosNextInv, PTL DEF Spec

\* In every state the registers of the queue at hand hold values of their width.
THEOREM TypeCorrect == Spec => []TypeOK
<1>1. FifosInv => TypeOK
  <2> SUFFICES ASSUME FifosInv
               PROVE  TypeOK
    OBVIOUS
  <2>1. unit = "fifo_ptr" => Ptr(FALSE)!TypeOK
    BY DEF FifosInv, PtrInv
  <2>2. unit = "fifo_ptr_replay" => Ptr(TRUE)!TypeOK
    BY DEF FifosInv, PtrInv
  <2>3. unit = "fifo_sr" => Sr!TypeOK
    BY DEF FifosInv, SrInv
  <2>4. unit = "fifo_n" => Vqs!TypeOK
    BY DEF FifosInv, VqInv
  <2>5. unit = "fifo_multi_push" => Multi(MultiF, Words)!TypeOK
    BY DEF FifosInv, MultiInv
  <2>6. unit = "fifo_multi_push_4" => Multi(4, {0})!TypeOK
    BY DEF FifosInv, MultiInv
  <2>7. unit \in Single \union Multiple
    BY DEF FifosInv
  <2>8. QED
    BY <2>1, <2>2, <2>3, <2>4, <2>5, <2>6, <2>7 DEF TypeOK, Single, Multiple
<1>2. QED
  BY <1>1, FifosInitInv, FifosNextInv, PTL DEF Spec

\* What is popped is what was pushed, in order, for any number of words, of
\* queues and of lanes.
THEOREM PopsCorrect == Spec => []PopsInOrder
<1>1. FifosInv => PopsInOrder
  <2> SUFFICES ASSUME FifosInv
               PROVE  PopsInOrder
    OBVIOUS
  <2>1. unit = "fifo_ptr" => Ptr(FALSE)!PopsInOrder
    BY DEF FifosInv, PtrInv
  <2>2. unit = "fifo_ptr_replay" => Ptr(TRUE)!PopsInOrder
    BY DEF FifosInv, PtrInv
  <2>3. unit = "fifo_sr" => Sr!PopsInOrder
    BY DEF FifosInv, SrInv
  <2>4. unit = "fifo_n" => Vqs!PopsInOrder
    BY DEF FifosInv, VqInv
  <2>5. unit = "fifo_multi_push" => Multi(MultiF, Words)!PopsInOrder
    BY DEF FifosInv, MultiInv
  <2>6. unit = "fifo_multi_push_4" => Multi(4, {0})!PopsInOrder
    BY DEF FifosInv, MultiInv
  <2>7. unit \in Single \union Multiple
    BY DEF FifosInv
  <2>8. QED
    BY <2>1, <2>2, <2>3, <2>4, <2>5, <2>6, <2>7 DEF PopsInOrder, Single, Multiple
<1>2. QED
  BY <1>1, FifosInitInv, FifosNextInv, PTL DEF Spec

\* No flag of fifo_sr or of fifo_multi_push promises a word or room that is not
\* there, and they err by a word at most.
THEOREM FlagsSafeCorrect == Spec => []FlagsSafe
<1>1. FifosInv => FlagsSafe
  BY DEF FifosInv, SrInv, MultiInv, FlagsSafe
<1>2. QED
  BY <1>1, FifosInitInv, FifosNextInv, PTL DEF Spec

-----------------------------------------------------------------------------
(* The refinement, of whichever queue it is.                               *)

\* What the registers hold is the scoreboard's.
HeldAreQueues ==
  /\ unit = "fifo_ptr" => Ptr(FALSE)!Held = queue /\ Ptr(FALSE)!Taken = popped
  /\ unit = "fifo_ptr_replay" => Ptr(TRUE)!Held = queue /\ Ptr(TRUE)!Taken = popped
  /\ unit = "fifo_sr" => Sr!Held = queue
  /\ unit = "fifo_n" => \A vq \in Vqs!Vq : Vqs!Held(vq) = queue[vq]
  /\ unit = "fifo_multi_push" => Multi(MultiF, Words)!Held = queue
  /\ unit = "fifo_multi_push_4" => Multi(4, {0})!Held = queue

LEMMA HeldAreQueuesAlways == FifosInv => HeldAreQueues
<1> SUFFICES ASSUME FifosInv
             PROVE  HeldAreQueues
  OBVIOUS
<1>1. unit = "fifo_ptr" => Ptr(FALSE)!Held = queue /\ Ptr(FALSE)!Taken = popped
  BY PtrHeldIsQueue DEF FifosInv
<1>2. unit = "fifo_ptr_replay" => Ptr(TRUE)!Held = queue /\ Ptr(TRUE)!Taken = popped
  BY PtrHeldIsQueue DEF FifosInv
<1>3. unit = "fifo_sr" => Sr!Held = queue
  BY SrHeldIsQueue DEF FifosInv
<1>4. unit = "fifo_n" => \A vq \in Vqs!Vq : Vqs!Held(vq) = queue[vq]
  BY VqHeldIsQueue DEF FifosInv
<1>5. unit = "fifo_multi_push" => Multi(MultiF, Words)!Held = queue
  <2>1. MultiF \in Nat \ {0}
    BY DepthAssumption
  <2>2. QED
    BY <2>1, MultiHeldIsQueue DEF FifosInv
<1>6. unit = "fifo_multi_push_4" => Multi(4, {0})!Held = queue
  <2>1. 4 \in Nat \ {0}
    OBVIOUS
  <2>2. QED
    BY <2>1, MultiHeldIsQueue DEF FifosInv
<1>7. QED
  BY <1>1, <1>2, <1>3, <1>4, <1>5, <1>6 DEF HeldAreQueues

LEMMA FifosInitRefines ==
  ASSUME Init, HeldAreQueues
  PROVE  QueueInit
<1>1. ASSUME unit = "fifo_ptr"
      PROVE  Ptr(FALSE)!Abstract!Init
  BY <1>1 DEF Init, HeldAreQueues, Ptr!Init, Ptr!Abstract!Init
<1>2. ASSUME unit = "fifo_ptr_replay"
      PROVE  Ptr(TRUE)!Abstract!Init
  BY <1>2 DEF Init, HeldAreQueues, Ptr!Init, Ptr!Abstract!Init
<1>3. ASSUME unit = "fifo_sr"
      PROVE  Sr!Abstract!Init
  BY <1>3 DEF Init, HeldAreQueues, Sr!Init, Sr!Abstract!Init
<1>4. ASSUME unit = "fifo_n"
      PROVE  \A vq \in Vqs!Vq : Vqs!Abstract(vq)!Init
  <2>1. Vqs!Init /\ \A vq \in Vqs!Vq : Vqs!Held(vq) = queue[vq]
    BY <1>4 DEF Init, HeldAreQueues
  <2>2. QED
    BY <2>1, VqInitRefines
<1>5. ASSUME unit = "fifo_multi_push"
      PROVE  Multi(MultiF, Words)!Abstract!Init
  BY <1>5 DEF Init, HeldAreQueues, Multi!Init, Multi!Abstract!Init
<1>6. ASSUME unit = "fifo_multi_push_4"
      PROVE  Multi(4, {0})!Abstract!Init
  BY <1>6 DEF Init, HeldAreQueues, Multi!Init, Multi!Abstract!Init
<1>7. unit \in Single \union Multiple
  BY DEF Init, Single, Multiple
<1>8. QED
  BY <1>1, <1>2, <1>3, <1>4, <1>5, <1>6, <1>7 DEF QueueInit, Single, Multiple

\* A cycle is a cycle of the abstract queue, or of each of them.
LEMMA FifosNextRefines ==
  ASSUME FifosInv, Next, HeldAreQueues, HeldAreQueues'
  PROVE  QueueStep
<1>1. unit' = unit
  BY DEF Next
<1>2. ASSUME unit = "fifo_ptr"
      PROVE  [Ptr(FALSE)!Abstract!Next]_(Ptr(FALSE)!Abstract!vars)
  <2>1. Ptr(FALSE)!Next /\ PtrInv(FALSE)
    BY <1>2 DEF Next, FifosInv
  <2>2. /\ Ptr(FALSE)!Held = queue /\ Ptr(FALSE)!Taken = popped
        /\ Ptr(FALSE)!Held' = queue' /\ Ptr(FALSE)!Taken' = popped'
    BY <1>1, <1>2 DEF HeldAreQueues
  <2>3. QED
    BY <2>1, <2>2, PtrNextRefines
<1>3. ASSUME unit = "fifo_ptr_replay"
      PROVE  [Ptr(TRUE)!Abstract!Next]_(Ptr(TRUE)!Abstract!vars)
  <2>1. Ptr(TRUE)!Next /\ PtrInv(TRUE)
    BY <1>3 DEF Next, FifosInv
  <2>2. /\ Ptr(TRUE)!Held = queue /\ Ptr(TRUE)!Taken = popped
        /\ Ptr(TRUE)!Held' = queue' /\ Ptr(TRUE)!Taken' = popped'
    BY <1>1, <1>3 DEF HeldAreQueues
  <2>3. QED
    BY <2>1, <2>2, PtrNextRefines
<1>4. ASSUME unit = "fifo_sr"
      PROVE  [Sr!Abstract!Next]_(Sr!Abstract!vars)
  <2>1. Sr!Next /\ SrInv
    BY <1>4 DEF Next, FifosInv
  <2>2. Sr!Held = queue /\ Sr!Held' = queue'
    BY <1>1, <1>4 DEF HeldAreQueues
  <2>3. QED
    BY <2>1, <2>2, SrNextRefines
<1>5. ASSUME unit = "fifo_n"
      PROVE  \A vq \in Vqs!Vq : [Vqs!Abstract(vq)!Next]_(Vqs!Abstract(vq)!vars)
  <2>1. Vqs!Next /\ VqInv
    BY <1>5 DEF Next, FifosInv
  <2>2. \A vq \in Vqs!Vq : Vqs!Held(vq) = queue[vq] /\ Vqs!Held(vq)' = queue'[vq]
    BY <1>1, <1>5 DEF HeldAreQueues, Vqs!Vq
  <2>3. QED
    BY <2>1, <2>2, VqNextRefines
<1>6. ASSUME unit = "fifo_multi_push"
      PROVE  [Multi(MultiF, Words)!Abstract!Next]_(Multi(MultiF, Words)!Abstract!vars)
  <2>1. Multi(MultiF, Words)!Next /\ MultiInv(MultiF, Words) /\ MultiF \in Nat \ {0}
    BY <1>6, DepthAssumption DEF Next, FifosInv
  <2>2. Multi(MultiF, Words)!Held = queue /\ Multi(MultiF, Words)!Held' = queue'
    BY <1>1, <1>6 DEF HeldAreQueues
  <2>3. QED
    BY <2>1, <2>2, MultiNextRefines
<1>7. ASSUME unit = "fifo_multi_push_4"
      PROVE  [Multi(4, {0})!Abstract!Next]_(Multi(4, {0})!Abstract!vars)
  <2>1. Multi(4, {0})!Next /\ MultiInv(4, {0}) /\ 4 \in Nat \ {0}
    BY <1>7 DEF Next, FifosInv
  <2>2. Multi(4, {0})!Held = queue /\ Multi(4, {0})!Held' = queue'
    BY <1>1, <1>7 DEF HeldAreQueues
  <2>3. QED
    BY <2>1, <2>2, MultiNextRefines
<1>8. unit \in Single \union Multiple
  BY DEF FifosInv
<1>9. QED
  BY <1>2, <1>3, <1>4, <1>5, <1>6, <1>7, <1>8 DEF QueueStep, Single, Multiple

\* Seen through its registers alone every queue is the abstract one, and every
\* queue of fifo_n is one of its own.
THEOREM Refinement == Spec => ImplementsQueue
<1>1. Init /\ HeldAreQueues => QueueInit
  BY FifosInitRefines
<1>2. FifosInv /\ [Next]_vars /\ HeldAreQueues /\ HeldAreQueues' => [QueueStep]_vars
  BY FifosNextRefines
<1>3. QED
  BY <1>1, <1>2, HeldAreQueuesAlways, FifosInitInv, FifosNextInv, PTL
     DEF Spec, ImplementsQueue
=============================================================================
