----------------------------- MODULE UnitsProofs -----------------------------
(***************************************************************************)
(* Proofs about the small sequential units.                                *)
(***************************************************************************)
EXTENDS MCUnits, QueueLemmas

-----------------------------------------------------------------------------
(* clk_div_by_3.                                                           *)

\* The counters follow each other half a period of clk apart, and the flops
\* are their zeros.
ClkState(clk, neg) ==
  LET pos == IF clk THEN Clk!Wrapped(neg) ELSE neg
  IN  [clk |-> clk, pos |-> pos, neg |-> neg, pos_out |-> pos = 0, neg_out |-> neg = 0]

\* How long ago clk_div_3 changed.
ClkAge(clk, neg) ==
  IF neg = 0 THEN (IF clk THEN 3 ELSE 2)
  ELSE IF neg = 1 THEN (IF clk THEN 2 ELSE 1) ELSE (IF clk THEN 1 ELSE 3)

\* The state says when clk_div_3 changed, but before its first edge.
ClkInv ==
  \E clk \in BOOLEAN, neg \in 0 .. 2 :
    /\ reg = ClkState(clk, neg)
    /\ tb = ClkAge(clk, neg) \/ (tb = 0 /\ clk /\ neg = 0)

LEMMA ClkInitInv == Clk!Init => ClkInv
<1>1. Clk!Wrapped(0) = 1 /\ (1 = 0) = FALSE /\ (0 = 0) = TRUE
  BY DEF Clk!Wrapped
<1>2. ClkState(TRUE, 0) = [clk |-> TRUE, pos |-> 1, neg |-> 0, pos_out |-> FALSE, neg_out |-> TRUE]
  BY <1>1, Zenon DEF ClkState
<1>3. ASSUME Clk!Init
      PROVE  reg = ClkState(TRUE, 0) /\ tb = 0
  BY <1>2, <1>3 DEF Clk!Init
<1>4. TRUE \in BOOLEAN /\ 0 \in 0 .. 2
  OBVIOUS
<1>5. QED
  BY <1>3, <1>4 DEF ClkInv

\* An edge of clk, from each level.
LEMMA ClkFalls ==
  ASSUME NEW neg \in 0 .. 2, reg = ClkState(TRUE, neg), Clk!Next
  PROVE  /\ reg' = ClkState(FALSE, Clk!Wrapped(neg))
         /\ Clk!clk_div_3' # Clk!clk_div_3 <=> neg = 0
<1>1. /\ reg.clk /\ reg.pos = Clk!Wrapped(neg) /\ reg.neg = neg
      /\ reg.pos_out = (Clk!Wrapped(neg) = 0) /\ reg.neg_out = (neg = 0)
  BY DEF ClkState
<1>2. reg' = [clk |-> FALSE, pos |-> Clk!Wrapped(neg), neg |-> Clk!Wrapped(neg),
              pos_out |-> Clk!Wrapped(neg) = 0, neg_out |-> Clk!Wrapped(neg) = 0]
  BY <1>1 DEF Clk!Next, Clk!Edge, ClkState
<1>3. reg' = ClkState(FALSE, Clk!Wrapped(neg))
  BY <1>2 DEF ClkState
<1>4. reg'.pos_out = (Clk!Wrapped(neg) = 0) /\ reg'.neg_out = (Clk!Wrapped(neg) = 0)
  BY <1>2
<1>5. Clk!clk_div_3 <=> Clk!Wrapped(neg) = 0 \/ neg = 0
  BY <1>1 DEF Clk!clk_div_3
<1>6. Clk!clk_div_3' <=> Clk!Wrapped(neg) = 0
  BY <1>4 DEF Clk!clk_div_3
<1>7. Clk!clk_div_3 \in BOOLEAN /\ Clk!clk_div_3' \in BOOLEAN
  BY DEF Clk!clk_div_3
<1>8. neg = 0 => Clk!Wrapped(neg) # 0
  BY DEF Clk!Wrapped
<1>9. QED
  BY <1>3, <1>5, <1>6, <1>7, <1>8

LEMMA ClkRises ==
  ASSUME NEW neg \in 0 .. 2, reg = ClkState(FALSE, neg), Clk!Next
  PROVE  /\ reg' = ClkState(TRUE, neg)
         /\ Clk!clk_div_3' # Clk!clk_div_3 <=> neg = 2
<1>1. /\ ~reg.clk /\ reg.pos = neg /\ reg.neg = neg
      /\ reg.pos_out = (neg = 0) /\ reg.neg_out = (neg = 0)
  BY DEF ClkState
<1>2. reg' = [clk |-> TRUE, pos |-> Clk!Wrapped(neg), neg |-> neg,
              pos_out |-> Clk!Wrapped(neg) = 0, neg_out |-> neg = 0]
  BY <1>1 DEF Clk!Next, Clk!Edge, ClkState
<1>3. reg' = ClkState(TRUE, neg)
  BY <1>2 DEF ClkState
<1>4. reg'.pos_out = (Clk!Wrapped(neg) = 0) /\ reg'.neg_out = (neg = 0)
  BY <1>2
<1>5. Clk!clk_div_3 <=> neg = 0
  BY <1>1 DEF Clk!clk_div_3
<1>6. Clk!clk_div_3' <=> Clk!Wrapped(neg) = 0 \/ neg = 0
  BY <1>4 DEF Clk!clk_div_3
<1>7. Clk!clk_div_3 \in BOOLEAN /\ Clk!clk_div_3' \in BOOLEAN
  BY DEF Clk!clk_div_3
<1>8. Clk!Wrapped(neg) = 0 <=> neg = 2
  BY DEF Clk!Wrapped
<1>9. QED
  BY <1>3, <1>5, <1>6, <1>7, <1>8

LEMMA ClkStep ==
  ASSUME ClkInv, Clk!Next
  PROVE  ClkInv' /\ (Clk!clk_div_3' # Clk!clk_div_3 <=> tb \in {0, 3})
<1>1. PICK clk \in BOOLEAN, neg \in 0 .. 2 :
        /\ reg = ClkState(clk, neg)
        /\ tb = ClkAge(clk, neg) \/ (tb = 0 /\ clk /\ neg = 0)
  BY DEF ClkInv
<1>2. tb' = IF Clk!clk_div_3' # Clk!clk_div_3 THEN 1 ELSE IF tb = 0 THEN 0 ELSE tb + 1
  BY DEF Clk!Next
<1>3. Clk!Wrapped(neg) \in 0 .. 2 /\ Clk!Wrapped(neg) = IF neg = 2 THEN 0 ELSE neg + 1
  BY DEF Clk!Wrapped
<1>4. CASE clk
  <2>1. /\ reg' = ClkState(FALSE, Clk!Wrapped(neg))
        /\ Clk!clk_div_3' # Clk!clk_div_3 <=> neg = 0
    BY <1>1, <1>4, ClkFalls
  <2>2. tb' = ClkAge(FALSE, Clk!Wrapped(neg)) /\ (neg = 0 <=> tb \in {0, 3})
    BY <1>1, <1>2, <1>3, <1>4, <2>1 DEF ClkAge
  <2>3. QED
    BY <1>3, <2>1, <2>2 DEF ClkInv
<1>5. CASE ~clk
  <2>1. reg' = ClkState(TRUE, neg) /\ (Clk!clk_div_3' # Clk!clk_div_3 <=> neg = 2)
    BY <1>1, <1>5, ClkRises
  <2>2. tb' = ClkAge(TRUE, neg) /\ (neg = 2 <=> tb \in {0, 3})
    BY <1>1, <1>2, <1>5, <2>1 DEF ClkAge
  <2>3. QED
    BY <2>1, <2>2 DEF ClkInv
<1>6. QED
  BY <1>4, <1>5

LEMMA ClkNextInv ==
  ASSUME ClkInv, [Clk!Next]_(Clk!vars)
  PROVE  ClkInv'
<1>1. CASE UNCHANGED Clk!vars
  BY <1>1 DEF ClkInv, Clk!vars
<1>2. CASE Clk!Next
  BY <1>2, ClkStep
<1>3. QED
  BY <1>1, <1>2

-----------------------------------------------------------------------------
(* detect_sequence.                                                        *)

\* The last k bits are the first k of the sequence.
EndsWith(shift, k) == \A i \in 1 .. k : shift[8 - k + i] = Detect!SEQUENCE[i]

\* The state is the longest beginning of the sequence that the stream ends
\* with, of those that begin after what was detected last; and what was
\* detected last is still there but for the bits since.
DetectState(fsm, shift, since) ==
  /\ fsm \in 0 .. 8 /\ shift \in [1 .. 8 -> {0, 1}] /\ since \in 1 .. 8
  /\ EndsWith(shift, fsm)
  /\ \A k \in 1 .. 8 : k <= since /\ EndsWith(shift, k) => k <= fsm
  /\ since < 8 => \A i \in 1 .. 8 - since : shift[i] = Detect!SEQUENCE[since + i]

DetectInv ==
  /\ reg = [fsm |-> reg.fsm, shift |-> reg.shift]
  /\ DetectState(reg.fsm, reg.shift, tb)

\* The sequence, bit by bit.
LEMMA SequenceBits ==
  /\ Detect!SEQUENCE[1] = 1 /\ Detect!SEQUENCE[2] = 0 /\ Detect!SEQUENCE[3] = 0
  /\ Detect!SEQUENCE[4] = 1 /\ Detect!SEQUENCE[5] = 1 /\ Detect!SEQUENCE[6] = 0
  /\ Detect!SEQUENCE[7] = 1 /\ Detect!SEQUENCE[8] = 0
  BY DEF Detect!SEQUENCE

\* Where a beginning of s bits goes with a bit: it ends with the beginning of
\* t bits, and with none that is longer.
Falls(s, in, t) ==
  /\ t \in 0 .. s + 1
  /\ \A i \in 1 .. t - 1 : Detect!SEQUENCE[s - t + 1 + i] = Detect!SEQUENCE[i]
  /\ t > 0 => Detect!SEQUENCE[t] = in
  /\ \A k \in 1 .. s + 1 :
       /\ Detect!SEQUENCE[k] = in
       /\ \A i \in 1 .. k - 1 : Detect!SEQUENCE[s - k + 1 + i] = Detect!SEQUENCE[i]
       => k <= t

LEMMA TransitionFalls ==
  ASSUME NEW s \in 0 .. 7, NEW in \in {0, 1}
  PROVE  Falls(s, in, Detect!Transition[s][in + 1])
<1>1. CASE s = 0
  BY <1>1, SequenceBits DEF Falls, Detect!Transition
<1>2. CASE s = 1
  BY <1>2, SequenceBits DEF Falls, Detect!Transition
<1>3. CASE s = 2
  BY <1>3, SequenceBits DEF Falls, Detect!Transition
<1>4. CASE s = 3
  BY <1>4, SequenceBits DEF Falls, Detect!Transition
<1>5. CASE s = 4
  BY <1>5, SequenceBits DEF Falls, Detect!Transition
<1>6. CASE s = 5
  BY <1>6, SequenceBits DEF Falls, Detect!Transition
<1>7. CASE s = 6
  BY <1>7, SequenceBits DEF Falls, Detect!Transition
<1>8. CASE s = 7
  BY <1>8, SequenceBits DEF Falls, Detect!Transition
<1>9. QED
  BY <1>1, <1>2, <1>3, <1>4, <1>5, <1>6, <1>7, <1>8

LEMMA DetectInitInv == Detect!Init => DetectInv
<1> SUFFICES ASSUME Detect!Init
             PROVE  DetectInv
  OBVIOUS
<1>1. reg = [fsm |-> 0, shift |-> [i \in 1 .. 8 |-> 0]] /\ tb = 8
  BY DEF Detect!Init
<1>2. ASSUME NEW k \in 1 .. 8, EndsWith([i \in 1 .. 8 |-> 0], k)
      PROVE  FALSE
  BY <1>2, SequenceBits DEF EndsWith
<1>3. DetectState(0, [i \in 1 .. 8 |-> 0], 8)
  BY <1>2 DEF DetectState, EndsWith
<1>4. QED
  BY <1>1, <1>3 DEF DetectInv

\* A bit more.
LEMMA DetectStep ==
  ASSUME NEW fsm, NEW shift, NEW since, DetectState(fsm, shift, since), NEW in \in {0, 1},
         NEW next, \A i \in 1 .. 7 : next[i] = shift[i + 1], next[8] = in,
         next \in [1 .. 8 -> {0, 1}]
  PROVE  DetectState(Detect!Transition[fsm][in + 1], next,
                     IF fsm = 8 THEN 1 ELSE IF since < 8 THEN since + 1 ELSE since)
<1>1. /\ fsm \in 0 .. 8 /\ since \in 1 .. 8
      /\ EndsWith(shift, fsm)
  BY DEF DetectState
<1>2. CASE fsm = 8
  <2>1. Detect!Transition[fsm][in + 1] = in
    BY <1>2 DEF Detect!Transition
  <2>2. \A i \in 1 .. 8 : shift[i] = Detect!SEQUENCE[i]
    BY <1>1, <1>2 DEF EndsWith
  <2>3. \A i \in 1 .. 7 : next[i] = Detect!SEQUENCE[1 + i]
    BY <2>2
  <2>4. EndsWith(next, in)
    BY SequenceBits DEF EndsWith
  <2>5. ASSUME NEW k \in 1 .. 8, k <= 1, EndsWith(next, k)
        PROVE  k <= in
    BY <2>5, SequenceBits DEF EndsWith
  <2>6. QED
    BY <1>2, <2>1, <2>3, <2>4, <2>5 DEF DetectState
<1>3. CASE fsm < 8
  <2>1. PICK t : t = Detect!Transition[fsm][in + 1]
    OBVIOUS
  <2>2. PICK after \in 1 .. 8 : after = IF since < 8 THEN since + 1 ELSE since
    BY <1>1
  <2>3. Falls(fsm, in, t)
    BY <1>1, <1>3, <2>1, TransitionFalls
  <2>4. t \in 0 .. fsm + 1
    BY <2>3 DEF Falls
  <2>5. ASSUME NEW i \in 1 .. t
        PROVE  next[8 - t + i] = Detect!SEQUENCE[i]
    <3>1. CASE i = t
      BY <1>1, <2>3, <2>4, <3>1 DEF Falls
    <3>2. CASE i < t
      <4>1. next[8 - t + i] = shift[8 - t + i + 1]
        BY <1>1, <1>3, <2>4, <3>2
      <4>2. PICK j \in 1 .. fsm : j = fsm - t + 1 + i /\ 8 - fsm + j = 8 - t + i + 1
        BY <1>1, <1>3, <2>4, <3>2
      <4>3. shift[8 - fsm + j] = Detect!SEQUENCE[j]
        BY <1>1, <4>2 DEF EndsWith
      <4>4. Detect!SEQUENCE[fsm - t + 1 + i] = Detect!SEQUENCE[i]
        BY <2>3, <2>4, <3>2 DEF Falls
      <4>5. QED
        BY <4>1, <4>2, <4>3, <4>4
    <3>3. QED
      BY <2>4, <3>1, <3>2
  <2>6. ASSUME NEW k \in 1 .. 8, k <= after, EndsWith(next, k)
        PROVE  k <= t
    <3>1. \A i \in 1 .. k : next[8 - k + i] = Detect!SEQUENCE[i]
      BY <2>6 DEF EndsWith
    <3>2. ASSUME NEW i \in 1 .. k - 1
          PROVE  shift[8 - (k - 1) + i] = Detect!SEQUENCE[i]
      <4>1. next[8 - k + i] = Detect!SEQUENCE[i]
        BY <3>1
      <4>2. next[8 - k + i] = shift[8 - k + i + 1] /\ 8 - k + i + 1 = 8 - (k - 1) + i
        OBVIOUS
      <4>3. QED
        BY <4>1, <4>2
    <3>3. k - 1 <= fsm
      <4>1. CASE k = 1
        BY <1>1, <4>1
      <4>2. CASE k > 1
        <5>1. k - 1 \in 1 .. 8 /\ k - 1 <= since
          BY <1>1, <2>2, <2>6, <4>2
        <5>2. EndsWith(shift, k - 1)
          BY <3>2 DEF EndsWith
        <5>3. QED
          BY <5>1, <5>2 DEF DetectState
      <4>3. QED
        BY <4>1, <4>2
    <3>4. Detect!SEQUENCE[k] = in
      BY <3>1
    <3>5. ASSUME NEW i \in 1 .. k - 1
          PROVE  Detect!SEQUENCE[fsm - k + 1 + i] = Detect!SEQUENCE[i]
      <4>1. PICK j \in 1 .. fsm : j = fsm - k + 1 + i /\ 8 - fsm + j = 8 - (k - 1) + i
        BY <1>1, <3>3
      <4>2. shift[8 - fsm + j] = Detect!SEQUENCE[j]
        BY <1>1 DEF EndsWith
      <4>3. QED
        BY <3>2, <4>1, <4>2
    <3>6. k \in 1 .. fsm + 1
      BY <1>1, <3>3
    <3>7. QED
      BY <2>3, <3>4, <3>5, <3>6 DEF Falls
  <2>7. ASSUME after < 8, NEW i \in 1 .. 8 - after
        PROVE  next[i] = Detect!SEQUENCE[after + i]
    <3>1. since < 8 /\ after = since + 1 /\ i + 1 \in 1 .. 8 - since
      BY <1>1, <2>2, <2>7
    <3>2. shift[i + 1] = Detect!SEQUENCE[since + (i + 1)]
      BY <3>1 DEF DetectState
    <3>3. next[i] = shift[i + 1] /\ since + (i + 1) = after + i
      BY <1>1, <2>2, <3>1
    <3>4. QED
      BY <3>2, <3>3
  <2>8. EndsWith(next, t)
    BY <2>5 DEF EndsWith
  <2>9. DetectState(t, next, after)
    BY <1>1, <1>3, <2>4, <2>6, <2>7, <2>8 DEF DetectState
  <2>10. QED
    BY <1>3, <2>1, <2>2, <2>9
<1>4. QED
  BY <1>1, <1>2, <1>3

LEMMA DetectNextInv ==
  ASSUME DetectInv, [Detect!Next]_(Detect!vars)
  PROVE  DetectInv'
<1>1. CASE UNCHANGED Detect!vars
  BY <1>1 DEF DetectInv, Detect!vars
<1>2. CASE Detect!Next
  <2>1. PICK in \in {0, 1} :
          /\ reg' = [fsm |-> Detect!fsm_w(in), shift |-> Append(Tail(reg.shift), in)]
          /\ tb' = IF Detect!detect_fsm THEN 1 ELSE IF tb < 8 THEN tb + 1 ELSE tb
    BY <1>2 DEF Detect!Next
  <2>2. PICK next : next = Append(Tail(reg.shift), in)
    OBVIOUS
  <2>3. /\ next \in [1 .. 8 -> {0, 1}] /\ next[8] = in
        /\ \A i \in 1 .. 7 : next[i] = reg.shift[i + 1]
    <3>1. PICK shift : shift = reg.shift /\ shift \in [1 .. 8 -> {0, 1}]
      BY DEF DetectInv, DetectState
    <3>2. /\ Append(Tail(shift), in) \in [1 .. 8 -> {0, 1}]
          /\ Append(Tail(shift), in)[8] = in
          /\ \A i \in 1 .. 7 : Append(Tail(shift), in)[i] = shift[i + 1]
      BY <3>1, ShiftedIn
    <3>3. QED
      BY <2>2, <3>1, <3>2
  <2>4. DetectState(Detect!Transition[reg.fsm][in + 1], next,
                    IF reg.fsm = 8 THEN 1 ELSE IF tb < 8 THEN tb + 1 ELSE tb)
    BY <2>3, DetectStep DEF DetectInv
  <2>5. QED
    BY <2>1, <2>2, <2>4 DEF DetectInv, Detect!fsm_w, Detect!detect_fsm
<1>3. QED
  BY <1>1, <1>2

\* Of the sequence two bits are both its beginning and its end, and no other
\* number is.
LEMMA DetectUnlessShared == DetectInv => Detect!DetectsUnlessShared
<1> SUFFICES ASSUME DetectInv
             PROVE  Detect!DetectsUnlessShared
  OBVIOUS
<1>1. PICK fsm, shift : fsm = reg.fsm /\ shift = reg.shift /\ DetectState(fsm, shift, tb)
  BY DEF DetectInv
<1>2. /\ fsm \in 0 .. 8 /\ tb \in 1 .. 8
      /\ shift \in [1 .. 8 -> {0, 1}]
      /\ EndsWith(shift, fsm)
      /\ 8 <= tb /\ EndsWith(shift, 8) => 8 <= fsm
      /\ tb < 8 => \A i \in 1 .. 8 - tb : shift[i] = Detect!SEQUENCE[tb + i]
  BY <1>1 DEF DetectState
<1>3. Detect!SEQUENCE \in [1 .. 8 -> {0, 1}]
  BY DEF Detect!SEQUENCE
<1>4. ASSUME Detect!detect_fsm
      PROVE  Detect!detect_shift
  <2>1. \A i \in 1 .. 8 : shift[i] = Detect!SEQUENCE[i]
    BY <1>1, <1>2, <1>4 DEF EndsWith, Detect!detect_fsm
  <2>2. shift = Detect!SEQUENCE
    BY <1>2, <1>3, <2>1
  <2>3. QED
    BY <1>1, <2>2 DEF Detect!detect_shift
<1>5. ASSUME Detect!detect_shift, ~Detect!detect_fsm
      PROVE  tb = 6
  <2>1. shift = Detect!SEQUENCE /\ fsm # 8
    BY <1>1, <1>5 DEF Detect!detect_shift, Detect!detect_fsm
  <2>2. EndsWith(shift, 8)
    BY <2>1 DEF EndsWith
  <2>3. tb < 8
    BY <1>2, <2>1, <2>2
  <2>4. \A i \in 1 .. 8 - tb : Detect!SEQUENCE[i] = Detect!SEQUENCE[tb + i]
    BY <1>2, <2>1, <2>3
  <2>5. QED
    BY <1>2, <2>3, <2>4, SequenceBits
<1>6. QED
  BY <1>4, <1>5 DEF Detect!DetectsUnlessShared

-----------------------------------------------------------------------------
(* vending_machine_dp.                                                     *)

\* The machine is serving or has served, and gives change.
Served(fsm) == fsm \in {"SERVE_WAIT_DONE", "CHANGE_EMIT", "CHANGE_WAIT_DONE"}

\* What is counted was paid and not given back.  A machine that has left
\* DEPOSIT has been paid the price, and emits no coin that it has not counted.
DpState(fsm, count, enough, paid, back, served) ==
  /\ fsm \in Dp!Fsm
  /\ paid \in 0 .. DpPurse /\ back \in 0 .. paid /\ count = paid - back
  /\ enough = (count >= Dp!PRICE)
  /\ served = IF Served(fsm) THEN 1 ELSE 0
  /\ back > 0 => Served(fsm)
  /\ fsm # "DEPOSIT" => paid >= Dp!PRICE
  /\ fsm = "CHANGE_EMIT" => count > 0

DpInv == DpState(reg.fsm, reg.count, reg.enough, tb.paid, tb.back, tb.served)

LEMMA DpInitInv == Dp!Init => DpInv
<1> SUFFICES ASSUME Dp!Init
             PROVE  DpInv
  OBVIOUS
<1>1. /\ reg.fsm = "DEPOSIT" /\ reg.count = 0 /\ reg.enough = FALSE
      /\ tb.paid = 0 /\ tb.back = 0 /\ tb.served = 0
  BY DEF Dp!Init
<1>2. FALSE = (0 >= Dp!PRICE) /\ ~Served("DEPOSIT")
  BY DEF Dp!PRICE, Served
<1>3. DpState("DEPOSIT", 0, FALSE, 0, 0, 0)
  BY <1>2, PurseAssumption DEF DpState, Dp!Fsm
<1>4. QED
  BY <1>1, <1>3 DEF DpInv

\* The count goes up and down within the range.
LEMMA DpCounts ==
  ASSUME NEW count \in 0 .. DpPurse
  PROVE  /\ \A coin \in Dp!Coins : count + coin <= DpPurse => (count + coin) % DpM = count + coin
         /\ count > 0 => (count + DpM - 1) % DpM = count - 1
<1>1. ASSUME NEW coin \in Dp!Coins, count + coin <= DpPurse
      PROVE  (count + coin) % DpM = count + coin
  <2>1. DpM \in Nat \ {0} /\ count + coin \in 0 .. DpM - 1
    BY <1>1, PurseAssumption DEF Dp!Coins
  <2>2. QED
    BY <2>1
<1>2. ASSUME count > 0
      PROVE  (count + DpM - 1) % DpM = count - 1
  <2>1. /\ DpM \in Nat \ {0} /\ count \in 0 .. DpM - 1 /\ DpM - 1 \in 0 .. DpM - 1
        /\ count + (DpM - 1) = count + DpM - 1
    BY <1>2, PurseAssumption
  <2>2. (count + (DpM - 1)) % DpM
          = IF count + (DpM - 1) < DpM THEN count + (DpM - 1) ELSE count + (DpM - 1) - DpM
    BY <2>1, Moved
  <2>3. QED
    BY <1>2, <2>1, <2>2
<1>3. QED
  BY <1>1, <1>2

LEMMA DpNextInv ==
  ASSUME DpInv, [Dp!Next]_(Dp!vars)
  PROVE  DpInv'
<1>1. CASE UNCHANGED Dp!vars
  BY <1>1 DEF DpInv, Dp!vars
<1>2. CASE Dp!Next
  <2>1. PICK coin \in Dp!Coins, dispense \in BOOLEAN, serve_done \in BOOLEAN,
             change_done \in BOOLEAN :
          Dp!Clock(coin, dispense, serve_done, change_done)
    BY <1>2 DEF Dp!Next
  <2>2. PICK fsm, count, enough, paid, back, served :
          /\ fsm = reg.fsm /\ count = reg.count /\ enough = reg.enough
          /\ paid = tb.paid /\ back = tb.back /\ served = tb.served
          /\ DpState(fsm, count, enough, paid, back, served)
    BY DEF DpInv
  <2>3. PICK next : next = Dp!fsm_w(dispense, serve_done, change_done)
    OBVIOUS
  <2>4. PICK total : total = Dp!count_w(coin, next)
    OBVIOUS
  <2>5. reg'.fsm = next /\ reg'.count = total /\ reg'.enough = (total >= Dp!PRICE)
    BY <2>1, <2>3, <2>4 DEF Dp!Clock, Dp!Edge
  <2>6. /\ fsm \in Dp!Fsm /\ coin \in {0, 1, 2, 5}
        /\ paid \in 0 .. DpPurse /\ back \in 0 .. paid /\ count = paid - back
        /\ enough <=> count >= 8
        /\ served = IF Served(fsm) THEN 1 ELSE 0
        /\ back > 0 => Served(fsm)
        /\ fsm # "DEPOSIT" => paid >= 8
        /\ fsm = "CHANGE_EMIT" => count > 0
    BY <2>2 DEF DpState, Dp!PRICE, Dp!Coins
  <2>7. coin > 0 => fsm \in {"DEPOSIT", "DISPENSE"} /\ paid + coin <= DpPurse
    BY <2>1, <2>2 DEF Dp!Clock
  <2>8. coin = 0 \/ paid + coin <= DpPurse
    BY <2>6, <2>7
  <2>9. /\ (count + coin) % DpM = count + coin
        /\ count > 0 => (count + DpM - 1) % DpM = count - 1
    <3>1. count \in 0 .. DpPurse /\ count + coin <= DpPurse
      BY <2>6, <2>8, PurseAssumption
    <3>2. QED
      BY <3>1, DpCounts
  <2>10. /\ next = CASE fsm = "DEPOSIT" -> IF enough THEN "DISPENSE" ELSE "DEPOSIT"
                     [] fsm = "DISPENSE" -> IF dispense THEN "SERVE_IRN_BRU" ELSE "DISPENSE"
                     [] fsm = "SERVE_IRN_BRU" -> "SERVE_WAIT_DONE"
                     [] fsm = "SERVE_WAIT_DONE" ->
                          IF ~serve_done THEN "SERVE_WAIT_DONE"
                          ELSE IF count = 0 THEN "DEPOSIT" ELSE "CHANGE_EMIT"
                     [] fsm = "CHANGE_EMIT" -> "CHANGE_WAIT_DONE"
                     [] fsm = "CHANGE_WAIT_DONE" ->
                          IF count = 0 THEN "DEPOSIT"
                          ELSE IF change_done THEN "CHANGE_EMIT" ELSE "CHANGE_WAIT_DONE"
    BY <2>2, <2>3 DEF Dp!fsm_w, Dp!count_is_zero
  <2>11. total = IF fsm # "DEPOSIT" /\ next = "DEPOSIT" THEN 0
                 ELSE IF fsm = "CHANGE_EMIT" THEN count - 1 ELSE count + coin
    BY <2>2, <2>4, <2>6, <2>9 DEF Dp!count_w
  <2>12. CASE fsm # "DEPOSIT" /\ next = "DEPOSIT"
    <3>1. tb'.paid = 0 /\ tb'.back = 0 /\ tb'.served = 0
      BY <2>1, <2>2, <2>5, <2>12 DEF Dp!Clock, Dp!Score
    <3>2. total = 0
      BY <2>11, <2>12
    <3>3. DpState(next, total, total >= Dp!PRICE, 0, 0, 0)
      BY <2>12, <3>2, PurseAssumption DEF DpState, Dp!Fsm, Dp!PRICE, Served
    <3>4. QED
      BY <2>5, <3>1, <3>3 DEF DpInv
  <2>13. CASE ~(fsm # "DEPOSIT" /\ next = "DEPOSIT")
    <3>1. /\ tb'.paid = paid + coin
          /\ tb'.back = back + (IF fsm = "CHANGE_EMIT" THEN 1 ELSE 0)
          /\ tb'.served = served + (IF fsm = "SERVE_IRN_BRU" THEN 1 ELSE 0)
      BY <2>1, <2>2, <2>5, <2>13 DEF Dp!Clock, Dp!Score
    <3>2. PICK sum, given, drinks, more :
            /\ sum = paid + coin /\ more = (total >= Dp!PRICE)
            /\ given = back + (IF fsm = "CHANGE_EMIT" THEN 1 ELSE 0)
            /\ drinks = served + (IF fsm = "SERVE_IRN_BRU" THEN 1 ELSE 0)
      OBVIOUS
    <3>3. next \in Dp!Fsm
      BY <2>6, <2>10 DEF Dp!Fsm
    <3>4. sum \in 0 .. DpPurse /\ given \in 0 .. sum /\ total = sum - given
      BY <2>6, <2>7, <2>8, <2>11, <2>13, <3>2, PurseAssumption
    <3>5. drinks = IF Served(next) THEN 1 ELSE 0
      BY <2>6, <2>10, <2>13, <3>2 DEF Served, Dp!Fsm
    <3>6. given > 0 => Served(next)
      BY <2>6, <2>10, <2>13, <3>2 DEF Served, Dp!Fsm
    <3>7. next # "DEPOSIT" => sum >= Dp!PRICE
      BY <2>6, <2>10, <3>2 DEF Dp!Fsm, Dp!PRICE
    <3>8. next = "CHANGE_EMIT" => total > 0
      BY <2>6, <2>10, <2>11, <2>13 DEF Dp!Fsm
    <3>9. DpState(next, total, more, sum, given, drinks)
      BY <3>2, <3>3, <3>4, <3>5, <3>6, <3>7, <3>8, Zenon DEF DpState
    <3>10. QED
      BY <2>5, <3>1, <3>2, <3>9 DEF DpInv
  <2>14. QED
    BY <2>12, <2>13
<1>3. QED
  BY <1>1, <1>2

LEMMA DpConserved == DpInv => Dp!Conserved
<1> SUFFICES ASSUME DpInv
             PROVE  Dp!Conserved
  OBVIOUS
<1>1. /\ reg.count = tb.paid - tb.back
      /\ tb.served = IF Served(reg.fsm) THEN 1 ELSE 0
      /\ tb.back > 0 => Served(reg.fsm)
      /\ reg.fsm # "DEPOSIT" => tb.paid >= Dp!PRICE
  BY DEF DpInv, DpState
<1>2. Served(reg.fsm) => reg.fsm # "DEPOSIT"
  BY DEF Served
<1>3. QED
  BY <1>1, <1>2 DEF Dp!Conserved

-----------------------------------------------------------------------------
(* vending_machine_fsm.                                                    *)

VendInv ==
  /\ reg \in 0 .. 9
  /\ tb.value \in Nat /\ tb.vend_n \in Nat /\ tb.change_n \in Nat
  /\ Vend!Conserved

LEMMA VendInitInv == Vend!Init => VendInv
  BY DEF Vend!Init, VendInv, Vend!Conserved, Vend!vend

LEMMA VendNextInv ==
  ASSUME VendInv, [Vend!Next]_(Vend!vars)
  PROVE  VendInv'
<1>1. CASE UNCHANGED Vend!vars
  BY <1>1 DEF VendInv, Vend!vars, Vend!Conserved, Vend!vend
<1>2. CASE Vend!Next
  <2>1. PICK nickel \in BOOLEAN, dime \in BOOLEAN : Vend!Clock(nickel, dime)
    BY <1>2 DEF Vend!Next
  <2>2. PICK value \in 0 .. 2 : value = IF nickel THEN 1 ELSE IF dime THEN 2 ELSE 0
    OBVIOUS
  <2>3. PICK more, change : /\ more = IF reg < 8 /\ reg' >= 8 THEN 1 ELSE 0
                            /\ change = IF reg < 8 /\ reg' = 9 THEN 1 ELSE 0
    OBVIOUS
  <2>4. reg \in 0 .. 9 /\ (reg >= 8 => value = 0)
    BY <2>1, <2>2 DEF VendInv, Vend!Clock, Vend!vend
  <2>5. reg' = IF reg >= 8 THEN 0 ELSE reg + value
    BY <2>1, <2>2, <2>4 DEF Vend!Clock, Vend!fsm_w, Vend!vend
  <2>6. reg' \in 0 .. 9
    BY <2>4, <2>5
  <2>7. /\ tb'.value = tb.value + value
        /\ tb'.vend_n = tb.vend_n + more /\ tb'.change_n = tb.change_n + change
    BY <2>1, <2>2, <2>3, <2>4, <2>6 DEF Vend!Clock, Vend!vend
  <2>8. /\ tb.value \in Nat /\ tb.vend_n \in Nat /\ tb.change_n \in Nat
        /\ tb.value = 8 * tb.vend_n + tb.change_n + (IF reg >= 8 THEN 0 ELSE reg)
    BY DEF VendInv, Vend!Conserved, Vend!vend
  <2>9. tb'.value \in Nat /\ tb'.vend_n \in Nat /\ tb'.change_n \in Nat
    BY <2>3, <2>7, <2>8
  <2>10. tb'.value = 8 * tb'.vend_n + tb'.change_n + (IF reg' >= 8 THEN 0 ELSE reg')
    BY <2>3, <2>4, <2>5, <2>6, <2>7, <2>8
  <2>11. QED
    BY <2>6, <2>9, <2>10 DEF VendInv, Vend!Conserved, Vend!vend
<1>3. QED
  BY <1>1, <1>2

-----------------------------------------------------------------------------
(* latency.                                                                *)

\* A pipe of n stages and the three counters: what is in flight is pending, and
\* the aggregate follows from what has been issued.
LatState(n, pipe, issue, pending, aggregate) ==
  /\ pipe \in [1 .. n -> BOOLEAN]
  /\ issue \in 0 .. LatM - 1 /\ pending \in 0 .. LatM - 1 /\ aggregate \in 0 .. LatM - 1
  /\ pending = Cardinality(InPipe(n, pipe)) % LatM
  /\ (aggregate + Cardinality(StagesAhead(n, pipe))) % LatM = (n * issue) % LatM

LatInv ==
  \E n \in Nat \ {0} : LatState(n, tb, reg.issue, reg.pending, reg.aggregate)

\* The pipe that the testbench begins with.
LEMMA LatCleared ==
  ASSUME NEW n \in Nat \ {0}
  PROVE  LatState(n, [i \in 1 .. n |-> FALSE], 0, 0, 0)
<1>1. PICK pipe \in [1 .. n -> BOOLEAN] : pipe = [i \in 1 .. n |-> FALSE]
  OBVIOUS
<1>2. InPipe(n, pipe) = {} /\ StagesAhead(n, pipe) = {}
  BY <1>1 DEF InPipe, StagesAhead
<1>3. Cardinality({}) = 0
  BY FS_EmptySet
<1>4. 0 \in 0 .. LatM - 1 /\ 0 % LatM = 0 /\ n * 0 = 0 /\ 0 + 0 = 0
  BY LatencyAssumption
<1>5. LatState(n, pipe, 0, 0, 0)
  BY <1>2, <1>3, <1>4 DEF LatState
<1>6. QED
  BY <1>1, <1>5

LEMMA LatInitInv == Lat!Init => LatInv
<1> SUFFICES ASSUME Lat!Init
             PROVE  LatInv
  OBVIOUS
<1>1. PICK n \in Delays : tb = [i \in 1 .. n |-> FALSE]
  BY DEF Lat!Init, Lat!EmptyPipe
<1>2. reg.issue = 0 /\ reg.pending = 0 /\ reg.aggregate = 0
  BY DEF Lat!Init, Lat!Cleared
<1>3. n \in Nat \ {0} /\ LatState(n, [i \in 1 .. n |-> FALSE], 0, 0, 0)
  BY LatencyAssumption, LatCleared
<1>4. QED
  BY <1>1, <1>2, <1>3 DEF LatInv

\* An edge: a command is issued or not, and what is in the last stage retires.
LEMMA LatEdge ==
  ASSUME NEW n \in Nat \ {0}, NEW pipe, NEW issue, NEW pending, NEW aggregate,
         LatState(n, pipe, issue, pending, aggregate),
         NEW in \in BOOLEAN, NEW next, Stepped(n, pipe, in, next),
         NEW pend,
         pend = IF in /\ ~pipe[n] THEN (pending + 1) % LatM
                ELSE IF pipe[n] /\ ~in THEN (pending + LatM - 1) % LatM ELSE pending
  PROVE  LatState(n, next, IF in THEN (issue + 1) % LatM ELSE issue, pend,
                  IF pend # 0 THEN (aggregate + pend) % LatM ELSE aggregate)
<1>1. /\ pipe \in [1 .. n -> BOOLEAN]
      /\ issue \in 0 .. LatM - 1 /\ aggregate \in 0 .. LatM - 1
      /\ pending = Cardinality(InPipe(n, pipe)) % LatM
      /\ (aggregate + Cardinality(StagesAhead(n, pipe))) % LatM = (n * issue) % LatM
      /\ LatM \in Nat \ {0}
  BY LatencyAssumption DEF LatState
<1>2. PICK i \in 0 .. 1, o \in 0 .. 1 :
        i = (IF in THEN 1 ELSE 0) /\ o = (IF pipe[n] THEN 1 ELSE 0)
  OBVIOUS
<1>3. PICK stay \in Nat : stay = Cardinality(Staying(n, pipe))
  BY <1>1, PipeFinite
<1>4. PICK far \in Nat : far = Cardinality(FarAhead(n, pipe))
  BY <1>1, FarFinite
<1>5. Cardinality(InPipe(n, pipe)) = stay + o
  BY <1>1, <1>2, <1>3, PipeWas
<1>6. Cardinality(InPipe(n, next)) = stay + i
  BY <1>1, <1>2, <1>3, PipeIs
<1>7. Cardinality(StagesAhead(n, pipe)) = stay + far
  BY <1>1, <1>3, <1>4, AheadWas
<1>8. Cardinality(StagesAhead(n, next)) = (IF i = 1 THEN n - 1 ELSE 0) + far
  BY <1>1, <1>2, <1>4, AheadIs
<1>9. pend = (stay + i) % LatM
  <2>1. pending = (stay + o) % LatM
    BY <1>1, <1>5
  <2>2. ((stay % LatM) + 1) % LatM = (stay + 1) % LatM
    BY <1>1, <1>3, SumRemainder
  <2>3. (((stay + 1) % LatM) + LatM - 1) % LatM = stay % LatM
    BY <1>1, <1>3, CountsDown
  <2>4. stay + 0 = stay
    BY <1>3
  <2>5. CASE in /\ ~pipe[n]
    BY <1>2, <2>1, <2>2, <2>4, <2>5
  <2>6. CASE pipe[n] /\ ~in
    BY <1>2, <2>1, <2>3, <2>4, <2>6
  <2>7. CASE in <=> pipe[n]
    BY <1>2, <2>1, <2>7
  <2>8. QED
    BY <1>1, <2>5, <2>6, <2>7
<1>10. pend \in 0 .. LatM - 1
  <2>1. PICK sum \in Nat : sum = stay + i
    OBVIOUS
  <2>2. sum % LatM \in 0 .. LatM - 1
    BY <1>1, PlaceExists
  <2>3. QED
    BY <1>9, <2>1, <2>2
<1>11. PICK agg : agg = IF pend # 0 THEN (aggregate + pend) % LatM ELSE aggregate
  OBVIOUS
<1>12. agg = (aggregate + pend) % LatM /\ agg \in 0 .. LatM - 1
  <2>1. PICK sum \in Nat : sum = aggregate + pend
    BY <1>1, <1>10
  <2>2. sum % LatM \in 0 .. LatM - 1
    BY <1>1, PlaceExists
  <2>3. aggregate % LatM = aggregate
    BY <1>1, SmallRemainder
  <2>4. pend = 0 => sum = aggregate
    <3>1. aggregate + 0 = aggregate
      BY <1>1
    <3>2. QED
      BY <2>1, <3>1, Zenon
  <2>5. QED
    BY <1>11, <2>1, <2>2, <2>3, <2>4
<1>13. PICK cnt : cnt = IF in THEN (issue + 1) % LatM ELSE issue
  OBVIOUS
<1>14. cnt = (issue + i) % LatM /\ cnt \in 0 .. LatM - 1
  <2>1. issue % LatM = issue /\ (issue + i) % LatM \in 0 .. LatM - 1
    BY <1>1, SmallRemainder
  <2>2. issue + 0 = issue
    BY <1>1
  <2>3. QED
    BY <1>2, <1>13, <2>1, <2>2
<1>15. (agg + Cardinality(StagesAhead(n, next))) % LatM = (n * cnt) % LatM
  <2>1. PICK sum \in Nat, old \in Nat, new \in Nat, plus \in Nat, more \in Nat :
          /\ sum = stay + i /\ old = stay + far /\ new = (IF i = 1 THEN n - 1 ELSE 0) + far
          /\ plus = (IF i = 1 THEN n ELSE 0) /\ more = issue + i
    <3>1. /\ stay + i \in Nat /\ stay + far \in Nat /\ issue + i \in Nat
          /\ (IF i = 1 THEN n - 1 ELSE 0) + far \in Nat /\ (IF i = 1 THEN n ELSE 0) \in Nat
      BY <1>1
    <3>2. QED
      BY <3>1, Zenon
  <2>2. sum + new = old + plus
    BY <1>2, <1>3, <1>4, <2>1
  <2>3. n * more = n * issue + plus
    <3>1. issue \in Nat
      BY <1>1
    <3>2. n * (issue + 1) = n * issue + n /\ n * issue \in Nat
      BY <3>1, Rounds
    <3>3. CASE i = 1
      BY <2>1, <3>2, <3>3
    <3>4. CASE i = 0
      BY <2>1, <3>1, <3>2, <3>4
    <3>5. QED
      BY <1>2, <3>3, <3>4
  <2>4. (aggregate + old) % LatM = (n * issue) % LatM
    BY <1>1, <1>7, <2>1
  <2>5. aggregate \in Nat /\ issue \in Nat /\ n \in Nat
    BY <1>1
  <2>6. (((aggregate + (sum % LatM)) % LatM) + new) % LatM = (n * (more % LatM)) % LatM
    <3>1. Aggregated(LatM, n, aggregate, issue, sum, old, new, plus, more)
      BY <1>1, <2>1, <2>2, <2>3, <2>4, <2>5 DEF Aggregated
    <3>2. QED
      BY <3>1, Aggregates, SMT
  <2>7. QED
    BY <1>8, <1>9, <1>12, <1>14, <2>1, <2>6
<1>16. next \in [1 .. n -> BOOLEAN]
  BY DEF Stepped
<1>17. LatState(n, next, cnt, pend, agg)
  BY <1>6, <1>9, <1>10, <1>12, <1>14, <1>15, <1>16 DEF LatState
<1>18. QED
  BY <1>11, <1>13, <1>17

LEMMA LatNextInv ==
  ASSUME LatInv, [Lat!Next]_(Lat!vars)
  PROVE  LatInv'
<1>1. CASE UNCHANGED Lat!vars
  BY <1>1 DEF LatInv, Lat!vars
<1>2. CASE Lat!Run
  <2>1. PICK n \in Nat \ {0} : LatState(n, tb, reg.issue, reg.pending, reg.aggregate)
    BY DEF LatInv
  <2>2. PICK in \in BOOLEAN :
          Lat!Count(in, Lat!Last(tb)) /\ tb' = <<in>> \o Lat!Front(tb)
    BY <1>2 DEF Lat!Run
  <2>3. PICK pipe : pipe = tb /\ pipe \in [1 .. n -> BOOLEAN]
    BY <2>1 DEF LatState
  <2>4. Stepped(n, pipe, in, <<in>> \o SubSeq(pipe, 1, Len(pipe) - 1)) /\ Len(pipe) = n
    BY <2>3, PipeSteps
  <2>5. Stepped(n, pipe, in, tb') /\ Lat!Last(tb) = pipe[n]
    BY <2>2, <2>3, <2>4 DEF Lat!Front, Lat!Last
  <2>6. PICK pend : pend = Lat!pending_cnt_w(in, pipe[n])
    OBVIOUS
  <2>7. pend = IF in /\ ~pipe[n] THEN (reg.pending + 1) % LatM
               ELSE IF pipe[n] /\ ~in THEN (reg.pending + LatM - 1) % LatM ELSE reg.pending
    BY <2>6 DEF Lat!pending_cnt_w
  <2>8. /\ reg'.issue = IF in THEN (reg.issue + 1) % LatM ELSE reg.issue
        /\ reg'.pending = pend
        /\ reg'.aggregate = IF pend # 0 THEN (reg.aggregate + pend) % LatM ELSE reg.aggregate
    BY <2>2, <2>5, <2>6 DEF Lat!Count
  <2>9. LatState(n, tb', IF in THEN (reg.issue + 1) % LatM ELSE reg.issue, pend,
                 IF pend # 0 THEN (reg.aggregate + pend) % LatM ELSE reg.aggregate)
    BY <2>1, <2>3, <2>5, <2>7, LatEdge
  <2>10. QED
    BY <2>8, <2>9 DEF LatInv
<1>3. CASE Lat!Clear
  <2>1. PICK n \in Delays : tb' = [i \in 1 .. n |-> FALSE] /\ reg' = Lat!Cleared
    BY <1>3 DEF Lat!Clear, Lat!EmptyPipe
  <2>2. reg'.issue = 0 /\ reg'.pending = 0 /\ reg'.aggregate = 0
    BY <2>1 DEF Lat!Cleared
  <2>3. n \in Nat \ {0} /\ LatState(n, [i \in 1 .. n |-> FALSE], 0, 0, 0)
    BY LatencyAssumption, LatCleared
  <2>4. QED
    BY <2>1, <2>2, <2>3 DEF LatInv
<1>4. QED
  BY <1>1, <1>2, <1>3 DEF Lat!Next

LEMMA LatConserved == LatInv => Lat!Conserved
<1> SUFFICES ASSUME LatInv
             PROVE  Lat!Conserved
  OBVIOUS
<1>1. PICK n \in Nat \ {0} : LatState(n, tb, reg.issue, reg.pending, reg.aggregate)
  BY DEF LatInv
<1>2. PICK pipe : pipe = tb /\ pipe \in [1 .. n -> BOOLEAN]
  BY <1>1 DEF LatState
<1>3. Len(pipe) = n /\ DOMAIN pipe = 1 .. n
  BY <1>2, FunctionIsSeq
<1>4. Lat!Ahead = StagesAhead(n, tb) /\ Len(tb) = n
  BY <1>2, <1>3 DEF Lat!Ahead, StagesAhead
<1>5. (reg.aggregate + Cardinality(StagesAhead(n, tb))) % LatM = (n * reg.issue) % LatM
  BY <1>1 DEF LatState
<1>6. Lat!Cardinality(Lat!Ahead) = Cardinality(StagesAhead(n, tb))
  BY <1>4 DEF Lat!Cardinality, Cardinality
<1>7. QED
  BY <1>4, <1>5, <1>6, Zenon DEF Lat!Conserved

(* sort_query: the network.                                                *)

LEMMA FourSlots ==
  /\ Sort!Slot = 0 .. 3 /\ Sort!Slot = {0, 1, 2, 3}
  /\ IsFiniteSet(Sort!Slot) /\ Cardinality(Sort!Slot) = 4
<1>1. Sort!Slot = 0 .. 3
  BY DEF Sort!Slot
<1>2. IsFiniteSet(0 .. 4 - 1) /\ Cardinality(0 .. 4 - 1) = 4
  BY FirstNumbers
<1>3. QED
  BY <1>1, <1>2

\* Two entries change places, or none does.
LEMMA SwapEntries ==
  ASSUME NEW x, Proper(x), NEW a \in Sort!Slot, NEW b \in Sort!Slot, a # b,
         NEW y, y = Sort!compare_and_swap(x, a, b)
  PROVE  /\ y \in Sort!List /\ y[a].key >= y[b].key
         /\ \A e \in Sort!Slot \ {a, b} : y[e] = x[e]
         /\ (y[a] = x[a] /\ y[b] = x[b]) \/ (y[a] = x[b] /\ y[b] = x[a])
<1>1. x \in Sort!List
  BY DEF Proper
<1>2. x \in [Sort!Slot -> Sort!Entry]
  BY <1>1 DEF Sort!List
<1>3. x[a].key \in Nat /\ x[b].key \in Nat
  BY <1>2, LookupsAssumption DEF Sort!Entry
<1>4. CASE x[a].key < x[b].key
  <2>1. y = [x EXCEPT ![a] = x[b], ![b] = x[a]]
    BY <1>4 DEF Sort!compare_and_swap
  <2>2. y[a] = x[b] /\ y[b] = x[a] /\ \A e \in Sort!Slot \ {a, b} : y[e] = x[e]
    BY <1>2, <2>1
  <2>3. y \in [Sort!Slot -> Sort!Entry]
    BY <1>2, <2>1
  <2>4. QED
    BY <1>3, <1>4, <2>2, <2>3 DEF Sort!List
<1>5. CASE ~(x[a].key < x[b].key)
  <2>1. y = x
    BY <1>5, Zenon DEF Sort!compare_and_swap
  <2>2. QED
    BY <1>1, <1>3, <1>5, <2>1
<1>6. QED
  BY <1>4, <1>5

\* An entry has its place among the others' after a swap.
LEMMA SwapKeeps ==
  ASSUME NEW x, Proper(x), NEW a \in Sort!Slot, NEW b \in Sort!Slot, a # b,
         NEW y, y = Sort!compare_and_swap(x, a, b)
  PROVE  Proper(y) /\ Sort!Pairs(y) = Sort!Pairs(x)
<1>1. /\ y \in Sort!List
      /\ \A e \in Sort!Slot \ {a, b} : y[e] = x[e]
      /\ (y[a] = x[a] /\ y[b] = x[b]) \/ (y[a] = x[b] /\ y[b] = x[a])
  BY SwapEntries
<1>2. PICK p \in [Sort!Slot -> Sort!Slot] :
        /\ \A e \in Sort!Slot : y[e] = x[p[e]]
        /\ \A e, f \in Sort!Slot : p[e] = p[f] => e = f
        /\ \A f \in Sort!Slot : \E e \in Sort!Slot : p[e] = f
  <2>1. CASE y[a] = x[a] /\ y[b] = x[b]
    <3>1. \A e \in Sort!Slot : y[e] = x[[f \in Sort!Slot |-> f][e]]
      BY <1>1, <2>1
    <3> DEFINE p == [f \in Sort!Slot |-> f]
    <3>2. /\ p \in [Sort!Slot -> Sort!Slot]
          /\ \A e \in Sort!Slot : y[e] = x[p[e]]
          /\ \A e, f \in Sort!Slot : p[e] = p[f] => e = f
          /\ \A f \in Sort!Slot : \E e \in Sort!Slot : p[e] = f
      BY <3>1
    <3> HIDE DEF p
    <3>3. QED
      BY <3>2
  <2>2. CASE y[a] = x[b] /\ y[b] = x[a]
    <3> DEFINE p == [f \in Sort!Slot |-> IF f = a THEN b ELSE IF f = b THEN a ELSE f]
    <3>1. /\ p \in [Sort!Slot -> Sort!Slot]
          /\ \A e \in Sort!Slot : y[e] = x[p[e]]
          /\ \A e, f \in Sort!Slot : p[e] = p[f] => e = f
      BY <1>1, <2>2
    <3>2. \A f \in Sort!Slot : p[p[f]] = f
      OBVIOUS
    <3>3. \A f \in Sort!Slot : \E e \in Sort!Slot : p[e] = f
      BY <3>1, <3>2
    <3> HIDE DEF p
    <3>4. QED
      BY <3>1, <3>3
  <2>3. QED
    BY <1>1, <2>1, <2>2
<1>3. \A e \in Sort!Slot : p[e] \in Sort!Slot
  BY <1>2
<1>4. \A e \in Sort!Slot : ~y[e].vld => y[e].key = 0
  BY <1>2, <1>3 DEF Proper
<1>5. ASSUME NEW e \in Sort!Vld(y), NEW f \in Sort!Vld(y), y[e].key = y[f].key
      PROVE  e = f
  <2>1. p[e] \in Sort!Vld(x) /\ p[f] \in Sort!Vld(x) /\ x[p[e]].key = x[p[f]].key
    BY <1>2, <1>3, <1>5 DEF Sort!Vld
  <2>2. p[e] = p[f] /\ e \in Sort!Slot /\ f \in Sort!Slot
    BY <2>1 DEF Proper, Sort!Vld
  <2>3. QED
    BY <1>2, <2>2
<1>6. ASSUME NEW e \in Sort!Vld(y)
      PROVE  [key |-> y[e].key, size |-> y[e].size] \in Sort!Pairs(x)
  <2>1. p[e] \in Sort!Vld(x) /\ y[e] = x[p[e]]
    BY <1>2, <1>3 DEF Sort!Vld
  <2>2. QED
    BY <2>1 DEF Sort!Pairs
<1>7. ASSUME NEW f \in Sort!Vld(x)
      PROVE  [key |-> x[f].key, size |-> x[f].size] \in Sort!Pairs(y)
  <2>1. PICK e \in Sort!Slot : p[e] = f
    BY <1>2 DEF Sort!Vld
  <2>2. e \in Sort!Vld(y) /\ x[f] = y[e]
    BY <1>2, <2>1 DEF Sort!Vld
  <2>3. QED
    BY <2>2 DEF Sort!Pairs
<1>8. Sort!Pairs(y) \subseteq Sort!Pairs(x)
  BY <1>6 DEF Sort!Pairs
<1>9. Sort!Pairs(x) \subseteq Sort!Pairs(y)
  BY <1>7 DEF Sort!Pairs
<1>10. QED
  BY <1>1, <1>4, <1>5, <1>8, <1>9 DEF Proper

\* Sorted, largest key first.
Descending(s) == \A e, f \in Sort!Slot : e <= f => s[e].key >= s[f].key

LEMMA ListKeys ==
  ASSUME NEW x \in Sort!List
  PROVE  \A e \in Sort!Slot : x[e].key \in Nat
<1>1. \A e \in Sort!Slot : x[e] \in Sort!Entry
  BY DEF Sort!List
<1>2. \A e \in Sort!Slot : x[e].key \in Keys
  BY <1>1 DEF Sort!Entry
<1>3. QED
  BY <1>2, LookupsAssumption

LEMMA NetworkStage ==
  ASSUME NEW x, Proper(x)
  PROVE  /\ Proper(Sort!s0_w(x)) /\ Sort!Pairs(Sort!s0_w(x)) = Sort!Pairs(x)
         /\ Proper(Sort!s1_w(x)) /\ Sort!Pairs(Sort!s1_w(x)) = Sort!Pairs(x)
         /\ Proper(Sort!s2_w(x)) /\ Sort!Pairs(Sort!s2_w(x)) = Sort!Pairs(x)
<1>1. 0 \in Sort!Slot /\ 1 \in Sort!Slot /\ 2 \in Sort!Slot /\ 3 \in Sort!Slot
  BY FourSlots
<1>2. Proper(Sort!s0_w(x)) /\ Sort!Pairs(Sort!s0_w(x)) = Sort!Pairs(x)
  <2> DEFINE y == Sort!compare_and_swap(x, 1, 3)
  <2>1. Proper(y) /\ Sort!Pairs(y) = Sort!Pairs(x)
    BY <1>1, SwapKeeps
  <2>2. Sort!s0_w(x) = Sort!compare_and_swap(y, 0, 2)
    BY Zenon DEF Sort!s0_w
  <2> HIDE DEF y
  <2>3. QED
    BY <1>1, <2>1, <2>2, SwapKeeps
<1>3. Proper(Sort!s1_w(x)) /\ Sort!Pairs(Sort!s1_w(x)) = Sort!Pairs(x)
  <2> DEFINE y == Sort!compare_and_swap(x, 2, 3)
  <2>1. Proper(y) /\ Sort!Pairs(y) = Sort!Pairs(x)
    BY <1>1, SwapKeeps
  <2>2. Sort!s1_w(x) = Sort!compare_and_swap(y, 0, 1)
    BY Zenon DEF Sort!s1_w
  <2> HIDE DEF y
  <2>3. QED
    BY <1>1, <2>1, <2>2, SwapKeeps
<1>4. Proper(Sort!s2_w(x)) /\ Sort!Pairs(Sort!s2_w(x)) = Sort!Pairs(x)
  BY <1>1, SwapKeeps DEF Sort!s2_w
<1>5. QED
  BY <1>2, <1>3, <1>4

\* The sorting network sorts.
LEMMA NetworkSorts ==
  ASSUME NEW x, Proper(x)
  PROVE  Descending(Sort!s2_w(Sort!s1_w(Sort!s0_w(x))))
<1> DEFINE y == Sort!compare_and_swap(x, 1, 3)
           z == Sort!compare_and_swap(y, 0, 2)
           u == Sort!compare_and_swap(z, 2, 3)
           v == Sort!compare_and_swap(u, 0, 1)
           w == Sort!compare_and_swap(v, 1, 2)
<1>1. 0 \in Sort!Slot /\ 1 \in Sort!Slot /\ 2 \in Sort!Slot /\ 3 \in Sort!Slot
  BY FourSlots
<1>2. Sort!s2_w(Sort!s1_w(Sort!s0_w(x))) = w
  BY Zenon DEF Sort!s0_w, Sort!s1_w, Sort!s2_w
<1>3. Proper(y) /\ Proper(z) /\ Proper(u) /\ Proper(v) /\ Proper(w)
  <2>1. Proper(y)
    BY <1>1, SwapKeeps
  <2> HIDE DEF y
  <2>2. Proper(z)
    BY <1>1, <2>1, SwapKeeps
  <2> HIDE DEF z
  <2>3. Proper(u)
    BY <1>1, <2>2, SwapKeeps
  <2> HIDE DEF u
  <2>4. Proper(v)
    BY <1>1, <2>3, SwapKeeps
  <2> HIDE DEF v
  <2>5. Proper(w)
    BY <1>1, <2>4, SwapKeeps
  <2>6. QED
    BY <2>1, <2>2, <2>3, <2>4, <2>5
<1>4. /\ y[1].key >= y[3].key
      /\ z[0].key >= z[2].key /\ z[1] = y[1] /\ z[3] = y[3]
      /\ u[2].key >= u[3].key /\ u[0] = z[0] /\ u[1] = z[1]
      /\ (u[2] = z[2] /\ u[3] = z[3]) \/ (u[2] = z[3] /\ u[3] = z[2])
      /\ v[0].key >= v[1].key /\ v[2] = u[2] /\ v[3] = u[3]
      /\ (v[0] = u[0] /\ v[1] = u[1]) \/ (v[0] = u[1] /\ v[1] = u[0])
      /\ w[1].key >= w[2].key /\ w[0] = v[0] /\ w[3] = v[3]
      /\ (w[1] = v[1] /\ w[2] = v[2]) \/ (w[1] = v[2] /\ w[2] = v[1])
  <2>1. y[1].key >= y[3].key
    BY <1>1, SwapEntries
  <2> HIDE DEF y
  <2>2. z[0].key >= z[2].key /\ z[1] = y[1] /\ z[3] = y[3]
    BY <1>1, <1>3, SwapEntries
  <2> HIDE DEF z
  <2>3. /\ u[2].key >= u[3].key /\ u[0] = z[0] /\ u[1] = z[1]
        /\ (u[2] = z[2] /\ u[3] = z[3]) \/ (u[2] = z[3] /\ u[3] = z[2])
    BY <1>1, <1>3, SwapEntries
  <2> HIDE DEF u
  <2>4. /\ v[0].key >= v[1].key /\ v[2] = u[2] /\ v[3] = u[3]
        /\ (v[0] = u[0] /\ v[1] = u[1]) \/ (v[0] = u[1] /\ v[1] = u[0])
    BY <1>1, <1>3, SwapEntries
  <2> HIDE DEF v
  <2>5. /\ w[1].key >= w[2].key /\ w[0] = v[0] /\ w[3] = v[3]
        /\ (w[1] = v[1] /\ w[2] = v[2]) \/ (w[1] = v[2] /\ w[2] = v[1])
    BY <1>1, <1>3, SwapEntries
  <2>6. QED
    BY <2>1, <2>2, <2>3, <2>4, <2>5
<1> HIDE DEF y, z, u, v, w
<1>5. /\ \A e \in Sort!Slot : y[e].key \in Nat
      /\ \A e \in Sort!Slot : z[e].key \in Nat
      /\ \A e \in Sort!Slot : w[e].key \in Nat
  BY <1>3, ListKeys DEF Proper
<1>6. w[0].key >= w[1].key /\ w[1].key >= w[2].key /\ w[2].key >= w[3].key
  BY <1>1, <1>4, <1>5
<1>7. QED
  BY <1>2, <1>5, <1>6, FourSlots DEF Descending

-----------------------------------------------------------------------------
(* sort_query: what is selected from a sorted list.                        *)

\* A valid entry is one pair.
LEMMA PairsCount ==
  ASSUME NEW s, Proper(s), NEW V \in SUBSET Sort!Vld(s)
  PROVE  /\ IsFiniteSet(V)
         /\ IsFiniteSet({[key |-> s[e].key, size |-> s[e].size] : e \in V})
         /\ Cardinality({[key |-> s[e].key, size |-> s[e].size] : e \in V}) = Cardinality(V)
<1> DEFINE T == {[key |-> s[e].key, size |-> s[e].size] : e \in V}
           f == [e \in V |-> [key |-> s[e].key, size |-> s[e].size]]
<1>1. V \subseteq Sort!Slot
  BY DEF Sort!Vld
<1>2. IsFiniteSet(V)
  BY <1>1, FourSlots, FS_Subset
<1>3. f \in [V -> T]
  OBVIOUS
<1>4. ASSUME NEW d \in V, NEW e \in V, f[d] = f[e]
      PROVE  d = e
  <2>1. s[d].key = s[e].key
    BY <1>4
  <2>2. QED
    BY <2>1 DEF Proper
<1>5. \A p \in T : \E e \in V : f[e] = p
  OBVIOUS
<1> HIDE DEF T, f
<1>6. IsFiniteSet(T) /\ Cardinality(T) = Cardinality(V)
  BY <1>2, <1>3, <1>4, <1>5, Renamed
<1>7. QED
  BY <1>2, <1>6 DEF T

\* The pairs with a larger key than k, in the slots of s.
Above(s, k) == {e \in Sort!Vld(s) : s[e].key > k}

LEMMA AbovePairs ==
  ASSUME NEW s, Proper(s), NEW k
  PROVE  Cardinality({p \in Sort!Pairs(s) : p.key > k}) = Cardinality(Above(s, k))
<1>1. {p \in Sort!Pairs(s) : p.key > k} =
        {[key |-> s[e].key, size |-> s[e].size] : e \in Above(s, k)}
  BY DEF Sort!Pairs, Above
<1>2. Above(s, k) \in SUBSET Sort!Vld(s)
  BY DEF Above
<1>3. QED
  BY <1>1, <1>2, PairsCount

\* A proper list has as many pairs as valid entries, and no two of one key.
LEMMA ProperPairs ==
  ASSUME NEW s, Proper(s)
  PROVE  /\ IsFiniteSet(Sort!Pairs(s)) /\ IsFiniteSet(Sort!Vld(s))
         /\ Cardinality(Sort!Pairs(s)) = Cardinality(Sort!Vld(s))
         /\ \A p, q \in Sort!Pairs(s) : p.key = q.key => p = q
         /\ \A p \in Sort!Pairs(s) : p.key \in Nat
<1>1. Sort!Pairs(s) = {[key |-> s[e].key, size |-> s[e].size] : e \in Sort!Vld(s)}
  BY DEF Sort!Pairs
<1>2. /\ IsFiniteSet(Sort!Pairs(s)) /\ IsFiniteSet(Sort!Vld(s))
      /\ Cardinality(Sort!Pairs(s)) = Cardinality(Sort!Vld(s))
  <2>1. Sort!Vld(s) \in SUBSET Sort!Vld(s)
    OBVIOUS
  <2>2. /\ IsFiniteSet(Sort!Vld(s))
        /\ IsFiniteSet({[key |-> s[e].key, size |-> s[e].size] : e \in Sort!Vld(s)})
        /\ Cardinality({[key |-> s[e].key, size |-> s[e].size] : e \in Sort!Vld(s)})
             = Cardinality(Sort!Vld(s))
    BY <2>1, PairsCount, Zenon
  <2>3. QED
    BY <1>1, <2>2, Zenon
<1>3. \A p, q \in Sort!Pairs(s) : p.key = q.key => p = q
  <2> SUFFICES ASSUME NEW p \in Sort!Pairs(s), NEW q \in Sort!Pairs(s), p.key = q.key
               PROVE  p = q
    OBVIOUS
  <2>1. PICK e \in Sort!Vld(s) : p = [key |-> s[e].key, size |-> s[e].size]
    BY <1>1
  <2>2. PICK f \in Sort!Vld(s) : q = [key |-> s[f].key, size |-> s[f].size]
    BY <1>1
  <2>3. e = f
    BY <2>1, <2>2 DEF Proper
  <2>4. QED
    BY <2>1, <2>2, <2>3
<1>4. \A e \in Sort!Vld(s) : s[e].key \in Nat
  BY ListKeys DEF Proper, Sort!Vld
<1>5. \A p \in Sort!Pairs(s) : p.key \in Nat
  BY <1>1, <1>4
<1>6. QED
  BY <1>2, <1>3, <1>5

\* Ranks are unique: at most one pair has level pairs of a larger key.
LEMMA RankUnique ==
  ASSUME NEW s, Proper(s), NEW p \in Sort!Pairs(s), NEW q \in Sort!Pairs(s),
         Cardinality({r \in Sort!Pairs(s) : r.key > p.key})
           = Cardinality({r \in Sort!Pairs(s) : r.key > q.key})
  PROVE  p = q
<1>1. /\ IsFiniteSet(Sort!Pairs(s)) /\ p.key \in Nat /\ q.key \in Nat
      /\ \A r \in Sort!Pairs(s) : r.key \in Nat
      /\ p.key = q.key => p = q
  BY ProperPairs
<1>2. ASSUME NEW a \in Sort!Pairs(s), NEW b \in Sort!Pairs(s), a.key \in Nat, b.key \in Nat,
             a.key > b.key,
             Cardinality({r \in Sort!Pairs(s) : r.key > a.key})
               = Cardinality({r \in Sort!Pairs(s) : r.key > b.key})
      PROVE  FALSE
  <2> DEFINE A == {r \in Sort!Pairs(s) : r.key > a.key}
             B == {r \in Sort!Pairs(s) : r.key > b.key}
  <2>1. A \in SUBSET B
    BY <1>1, <1>2
  <2>2. a \in B /\ a \notin A
    BY <1>2
  <2>3. IsFiniteSet(B)
    BY <1>1, FS_Subset
  <2>4. Cardinality(B) = Cardinality(A)
    BY <1>2
  <2> HIDE DEF A, B
  <2>5. QED
    BY <2>1, <2>2, <2>3, <2>4, FS_Subset
<1>3. p.key = q.key \/ p.key > q.key \/ q.key > p.key
  BY <1>1
<1>4. QED
  BY <1>1, <1>2, <1>3

\* What a query of this level may not find for the keys that are 0.
Ambiguous(s, level) ==
  /\ Sort!Hit(s, 0) # {} /\ Sort!Vld(s) # Sort!Slot
  /\ level >= Cardinality(Sort!Vld(s)) - 1

LEMMA LevelsCount ==
  ASSUME NEW level \in Sort!Slot, NEW V \in SUBSET Sort!Slot
  PROVE  /\ IsFiniteSet(V) /\ Cardinality(V) \in Nat
         /\ V \subseteq 0 .. level - 1 => Cardinality(V) <= level
         /\ 0 .. level - 1 \subseteq V => level <= Cardinality(V)
         /\ 0 .. level \subseteq V => level + 1 <= Cardinality(V)
         /\ V = 0 .. level - 1 => Cardinality(V) = level
<1>1. level \in 0 .. 3
  BY FourSlots
<1>2. IsFiniteSet(0 .. level - 1) /\ Cardinality(0 .. level - 1) = level
  BY <1>1, FirstNumbers
<1>3. IsFiniteSet(0 .. (level + 1) - 1) /\ Cardinality(0 .. (level + 1) - 1) = level + 1
  BY <1>1, FirstNumbers
<1>4. Cardinality(0 .. level - 1) = level /\ Cardinality(0 .. level) = level + 1
  BY <1>1, <1>2, <1>3
<1>5. IsFiniteSet(V) /\ Cardinality(V) \in Nat
  BY FourSlots, FS_Subset, FS_CardinalityType
<1>6. ASSUME V \subseteq 0 .. level - 1
      PROVE  Cardinality(V) <= level
  <2>1. V \in SUBSET (0 .. level - 1)
    BY <1>6
  <2>2. Cardinality(V) <= Cardinality(0 .. level - 1)
    BY <1>2, <2>1, FS_Subset, Zenon
  <2>3. QED
    BY <1>4, <2>2
<1>7. ASSUME 0 .. level - 1 \subseteq V
      PROVE  level <= Cardinality(V)
  <2>1. 0 .. level - 1 \in SUBSET V
    BY <1>7
  <2>2. Cardinality(0 .. level - 1) <= Cardinality(V)
    BY <1>5, <2>1, FS_Subset, Zenon
  <2>3. QED
    BY <1>4, <2>2
<1>8. ASSUME 0 .. level \subseteq V
      PROVE  level + 1 <= Cardinality(V)
  <2>1. 0 .. level \in SUBSET V
    BY <1>8
  <2>2. Cardinality(0 .. level) <= Cardinality(V)
    BY <1>5, <2>1, FS_Subset, Zenon
  <2>3. QED
    BY <1>4, <2>2
<1>9. QED
  BY <1>4, <1>5, <1>6, <1>7, <1>8

\* The slot of the level that is asked for is valid if and only if there are
\* more valid entries, and those before it are the ones of a larger key.
LEMMA LevelOfSorted ==
  ASSUME NEW s, Proper(s), Descending(s), NEW level \in Sort!Slot, ~Ambiguous(s, level)
  PROVE  /\ s[level].vld <=> level < Cardinality(Sort!Vld(s))
         /\ s[level].vld => Above(s, s[level].key) = 0 .. level - 1
<1>1. /\ \A e \in Sort!Slot : ~s[e].vld => s[e].key = 0
      /\ \A e, f \in Sort!Vld(s) : s[e].key = s[f].key => e = f
      /\ \A e \in Sort!Slot : s[e].key \in Nat
      /\ \A e, f \in Sort!Slot : e <= f => s[e].key >= s[f].key
  BY ListKeys DEF Proper, Descending
<1>2. Sort!Slot = 0 .. 3 /\ level \in 0 .. 3
  BY FourSlots
<1>3. Sort!Vld(s) \subseteq Sort!Slot /\ \A e \in Sort!Slot : e \in Sort!Vld(s) <=> s[e].vld
  BY DEF Sort!Vld
<1>4. IsFiniteSet(Sort!Vld(s)) /\ Cardinality(Sort!Vld(s)) \in Nat
  BY <1>3, LevelsCount
\* Entries before a key that is not 0 are valid; those from a key that is 0 on
\* have key 0, so one of them at most is valid.
<1>5. ASSUME s[level].key > 0
      PROVE  \A e \in 0 .. level : e \in Sort!Vld(s)
  <2>1. ASSUME NEW e \in 0 .. level
        PROVE  e \in Sort!Vld(s)
    <3>1. e \in Sort!Slot /\ s[e].key >= s[level].key
      BY <1>1, <1>2
    <3>2. s[e].key # 0
      BY <1>1, <1>5, <3>1
    <3>3. QED
      BY <1>1, <1>3, <3>1, <3>2
  <2>2. QED
    BY <2>1
<1>6. ASSUME s[level].key = 0, NEW e \in Sort!Vld(s), level <= e
      PROVE  s[e].key = 0 /\ e \in Sort!Hit(s, 0)
  <2>1. e \in Sort!Slot /\ s[level].key >= s[e].key /\ s[e].key \in Nat
    BY <1>1, <1>3, <1>6
  <2>2. s[e].key = 0
    BY <1>6, <2>1
  <2>3. QED
    BY <1>3, <2>1, <2>2 DEF Sort!Hit
<1>7. CASE s[level].key > 0
  <2>1. 0 .. level \subseteq Sort!Vld(s) /\ s[level].vld
    BY <1>2, <1>3, <1>5, <1>7
  <2>2. level + 1 <= Cardinality(Sort!Vld(s))
    BY <1>3, <2>1, LevelsCount
  <2>3. ASSUME NEW e
        PROVE  e \in Above(s, s[level].key) <=> e \in 0 .. level - 1
    <3>1. CASE e \in 0 .. level - 1
      <4>1. e \in Sort!Vld(s) /\ e \in Sort!Slot /\ level \in Sort!Vld(s) /\ e # level
        BY <1>2, <1>3, <2>1, <3>1
      <4>2. s[e].key >= s[level].key /\ s[e].key # s[level].key
        BY <1>1, <1>2, <3>1, <4>1
      <4>3. s[e].key > s[level].key
        BY <1>1, <1>2, <4>1, <4>2
      <4>4. QED
        BY <3>1, <4>1, <4>3 DEF Above
    <3>2. CASE e \in Above(s, s[level].key)
      <4>1. e \in Sort!Slot /\ s[e].key > s[level].key
        BY <1>3, <3>2 DEF Above
      <4>2. ~(level <= e)
        BY <1>1, <1>2, <4>1
      <4>3. QED
        BY <1>2, <3>2, <4>1, <4>2
    <3>3. QED
      BY <3>1, <3>2
  <2>4. Above(s, s[level].key) = 0 .. level - 1
    BY <2>3
  <2>5. QED
    BY <1>2, <1>4, <2>1, <2>2, <2>4
<1>8. CASE s[level].key = 0 /\ Sort!Vld(s) = Sort!Slot
  <2>1. s[level].vld /\ Cardinality(Sort!Vld(s)) = 4
    BY <1>3, <1>8, FourSlots
  <2>2. ASSUME NEW e \in Sort!Slot
        PROVE  s[e].key > 0 <=> e < level
    <3>1. CASE e < level
      <4>1. s[e].key # s[level].key /\ s[e].key >= s[level].key
        BY <1>1, <1>2, <1>8, <3>1
      <4>2. QED
        BY <1>1, <1>8, <3>1, <4>1
    <3>2. CASE level <= e
      <4>1. s[level].key >= s[e].key
        BY <1>1, <3>2
      <4>2. QED
        BY <1>1, <1>2, <1>8, <3>2, <4>1
    <3>3. QED
      BY <1>2, <3>1, <3>2
  <2>3. \A e : e \in Above(s, 0) <=> e \in 0 .. level - 1
    BY <1>2, <1>8, <2>2 DEF Above
  <2>4. Above(s, s[level].key) = 0 .. level - 1
    BY <1>8, <2>3
  <2>5. QED
    BY <1>2, <2>1, <2>4
<1>9. CASE s[level].key = 0 /\ Sort!Vld(s) # Sort!Slot
  <2>1. CASE Sort!Hit(s, 0) = {}
    <3>1. Sort!Vld(s) \subseteq 0 .. level - 1
      <4>1. ASSUME NEW e \in Sort!Vld(s)
            PROVE  e \in 0 .. level - 1
        <5>1. ~(level <= e)
          BY <1>6, <1>9, <2>1
        <5>2. QED
          BY <1>2, <1>3, <5>1
      <4>2. QED
        BY <4>1
    <3>2. Cardinality(Sort!Vld(s)) <= level
      BY <1>3, <3>1, LevelsCount
    <3>3. ~s[level].vld
      BY <1>2, <1>3, <3>1
    <3>4. QED
      BY <1>2, <1>4, <3>2, <3>3
  <2>2. CASE level < Cardinality(Sort!Vld(s)) - 1
    <3>1. PICK e \in Sort!Slot : Sort!Vld(s) \ {e} \subseteq 0 .. level - 1
      <4>1. CASE \E e \in Sort!Vld(s) : level <= e
        <5>1. PICK e \in Sort!Vld(s) : level <= e
          BY <4>1
        <5>2. ASSUME NEW f \in Sort!Vld(s) \ {e}
              PROVE  f \in 0 .. level - 1
          <6>1. ~(level <= f)
            BY <1>1, <1>6, <1>9, <5>1
          <6>2. QED
            BY <1>2, <1>3, <6>1
        <5>3. QED
          BY <1>3, <5>2
      <4>2. CASE \A e \in Sort!Vld(s) : ~(level <= e)
        BY <1>2, <1>3, <4>2
      <4>3. QED
        BY <4>1, <4>2
    <3>2. Sort!Vld(s) \ {e} \in SUBSET Sort!Slot
      BY <1>3
    <3>3. Cardinality(Sort!Vld(s) \ {e}) <= level
      BY <3>1, <3>2, LevelsCount
    <3>4. Cardinality(Sort!Vld(s) \ {e}) >= Cardinality(Sort!Vld(s)) - 1
      <4>1. Cardinality(Sort!Vld(s) \ {e}) =
              IF e \in Sort!Vld(s) THEN Cardinality(Sort!Vld(s)) - 1
              ELSE Cardinality(Sort!Vld(s))
        BY <1>4, FS_RemoveElement, Zenon
      <4>2. QED
        BY <1>4, <4>1
    <3>5. QED
      BY <1>2, <1>4, <2>2, <3>2, <3>3, <3>4, LevelsCount
  <2>3. QED
    BY <1>2, <1>4, <1>9, <2>1, <2>2 DEF Ambiguous
<1>10. QED
  BY <1>1, <1>7, <1>8, <1>9

\* A query that may not find a key 0 is answered as the testbench expects.
LEMMA SelectedExpected ==
  ASSUME NEW q \in Sort!Query, NEW s, Proper(q.t), Proper(s), Descending(s),
         Sort!Pairs(s) = Sort!Pairs(q.t), ~Ambiguous(s, q.level)
  PROVE  Sort!Same(Sort!Selected(s, q.level), Sort!Expected(q))
<1> DEFINE c == Cardinality(Sort!Vld(s))
           level == q.level
           pair == [key |-> s[level].key, size |-> s[level].size]
<1>1. level \in Sort!Slot
  BY DEF Sort!Query
<1>2. Cardinality(Sort!Pairs(q.t)) = c
  BY ProperPairs
<1>3. s[level].vld <=> level < c
  BY <1>1, LevelOfSorted
<1>4. Sort!Cardinality(Sort!Pairs(q.t)) = c /\ Sort!Cardinality(Sort!Vld(s)) = c
  BY <1>2 DEF Sort!Cardinality, Cardinality
<1>5. level \in Nat /\ c \in Nat
  BY <1>1, FourSlots, LevelsCount DEF Sort!Vld
<1>6. CASE ~s[level].vld
  <2>1. level >= c
    BY <1>3, <1>5, <1>6
  <2>2. Sort!Expected(q).error
    BY <1>4, <2>1 DEF Sort!Expected
  <2>3. Sort!Selected(s, level).error
    BY <1>6 DEF Sort!Selected
  <2>4. QED
    BY <2>2, <2>3 DEF Sort!Same
<1>7. CASE s[level].vld
  <2>1. pair \in Sort!Pairs(s)
    BY <1>1, <1>7 DEF Sort!Pairs, Sort!Vld
  <2>2. Cardinality({p \in Sort!Pairs(s) : p.key > pair.key}) = level
    <3>1. Above(s, s[level].key) = 0 .. level - 1
      BY <1>1, <1>7, LevelOfSorted
    <3>2. Cardinality(0 .. level - 1) = level
      BY <1>5, FirstNumbers
    <3>3. Cardinality({p \in Sort!Pairs(s) : p.key > pair.key}) = Cardinality(Above(s, pair.key))
      BY AbovePairs
    <3>4. QED
      BY <3>1, <3>2, <3>3
  <2> HIDE DEF pair
  <2>3. pair = CHOOSE p1 \in Sort!Pairs(q.t) :
                 Sort!Cardinality({p2 \in Sort!Pairs(q.t) : p2.key > p1.key}) = level
    <3>1. \A p \in Sort!Pairs(s) :
            Cardinality({r \in Sort!Pairs(s) : r.key > p.key}) = level => p = pair
      BY <2>1, <2>2, RankUnique
    <3>2. pair = CHOOSE p1 \in Sort!Pairs(s) :
                 Cardinality({p2 \in Sort!Pairs(s) : p2.key > p1.key}) = level
      BY <2>1, <2>2, <3>1
    <3>3. QED
      BY <3>2 DEF Sort!Cardinality, Cardinality
  <2>4. Sort!Expected(q) = [key |-> pair.key, size |-> pair.size, listsize |-> c, error |-> FALSE]
    BY <1>3, <1>4, <1>5, <1>7, <2>3 DEF Sort!Expected
  <2>5. Sort!Selected(s, level) =
          [key |-> pair.key, size |-> pair.size, listsize |-> c, error |-> FALSE]
    BY <1>4, <1>7 DEF Sort!Selected, pair
  <2>6. QED
    BY <2>4, <2>5 DEF Sort!Same
<1>8. QED
  BY <1>6, <1>7

\* A query of a key that may be lost finds it, or an entry that is free.
LEMMA SelectedAmong ==
  ASSUME NEW s, Proper(s), Descending(s), NEW level \in Sort!Slot, Ambiguous(s, level)
  PROVE  Sort!Selected(s, level).error \/ Sort!Selected(s, level).key = 0
<1>1. /\ \A e \in Sort!Slot : ~s[e].vld => s[e].key = 0
      /\ \A e \in Sort!Slot : s[e].key \in Nat
      /\ \A e, f \in Sort!Slot : e <= f => s[e].key >= s[f].key
  BY ListKeys DEF Proper, Descending
<1>2. Sort!Vld(s) \in SUBSET Sort!Slot
  BY DEF Sort!Vld
<1>3. IsFiniteSet(Sort!Vld(s)) /\ Cardinality(Sort!Vld(s)) \in Nat /\ level \in 0 .. 3
  BY <1>2, LevelsCount, FourSlots
<1>4. ASSUME s[level].key # 0
      PROVE  FALSE
  <2>1. PICK e \in Sort!Vld(s) : s[e].key = 0
    BY DEF Ambiguous, Sort!Hit, Sort!Vld
  <2>2. ASSUME NEW f \in 0 .. level
        PROVE  f \in Sort!Vld(s) \ {e}
    <3>1. f \in Sort!Slot /\ s[f].key >= s[level].key
      BY <1>1, <1>3, <2>2, FourSlots
    <3>2. s[level].key \in Nat /\ s[f].key \in Nat
      BY <1>1, <3>1
    <3>3. s[f].key # 0
      BY <1>4, <3>1, <3>2
    <3>4. QED
      BY <1>1, <2>1, <3>1, <3>3 DEF Sort!Vld
  <2>3. 0 .. level \subseteq Sort!Vld(s) \ {e} /\ Sort!Vld(s) \ {e} \in SUBSET Sort!Slot
    BY <1>2, <2>2
  <2>4. level + 1 <= Cardinality(Sort!Vld(s) \ {e})
    BY <2>3, LevelsCount
  <2>5. Cardinality(Sort!Vld(s) \ {e}) =
          IF e \in Sort!Vld(s) THEN Cardinality(Sort!Vld(s)) - 1 ELSE Cardinality(Sort!Vld(s))
    BY <1>3, FS_RemoveElement, Zenon
  <2>6. level >= Cardinality(Sort!Vld(s)) - 1
    BY DEF Ambiguous
  <2>7. QED
    BY <1>3, <2>1, <2>4, <2>5, <2>6
<1>5. QED
  BY <1>4 DEF Sort!Selected

-----------------------------------------------------------------------------
(* sort_query: the pipeline.                                               *)

\* A stage has a query or none.
AQuery == AtMostOne(Sort!Query)

\* What a stage has of a query: the list as far as it is sorted, the level, and
\* in the end the response.
ListIn0(o) == IF o # <<>> THEN Sort!s0_w(o[1].t) ELSE Sort!Cleared
ListIn1(o) == Sort!s1_w(ListIn0(o))
ListIn2(o) == Sort!s2_w(ListIn1(o))
LevelIn(o) == IF o # <<>> THEN <<o[1].level>> ELSE <<>>
ResponseTo(o) == IF o # <<>> THEN <<Sort!Selected(ListIn2(o), o[1].level)>> ELSE <<>>

\* The queries the testbench waits for are those in the stages.
SortState(q2, s0, s1, s2, resp) ==
  /\ reg = [qry2 |-> q2, s0 |-> ListIn0(s0), s1 |-> ListIn1(s1), s2 |-> ListIn2(s2),
            delay |-> <<LevelIn(s0), LevelIn(s1), LevelIn(s2)>>, resp |-> ResponseTo(resp)]
  /\ tb = resp \o (s2 \o (s1 \o (s0 \o q2)))

SortInv == \E q2, s0, s1, s2, resp \in AQuery : SortState(q2, s0, s1, s2, resp)

\* An empty stage has the cleared list.
LEMMA ClearedSorted ==
  /\ Sort!s0_w(Sort!Cleared) = Sort!Cleared /\ Sort!s1_w(Sort!Cleared) = Sort!Cleared
  /\ Sort!s2_w(Sort!Cleared) = Sort!Cleared
<1>1. \A a, b \in Sort!Slot : Sort!compare_and_swap(Sort!Cleared, a, b) = Sort!Cleared
  <2>1. \A a \in Sort!Slot : Sort!Cleared[a].key = 0
    BY DEF Sort!Cleared
  <2>2. \A a, b \in Sort!Slot : ~(Sort!Cleared[a].key < Sort!Cleared[b].key)
    BY <2>1
  <2>3. QED
    BY <2>2, Zenon DEF Sort!compare_and_swap
<1>2. 0 \in Sort!Slot /\ 1 \in Sort!Slot /\ 2 \in Sort!Slot /\ 3 \in Sort!Slot
  BY FourSlots
<1>3. QED
  BY <1>1, <1>2 DEF Sort!s0_w, Sort!s1_w, Sort!s2_w

LEMMA SortInitInv == Sort!Init => SortInv
<1> SUFFICES ASSUME Sort!Init
             PROVE  SortInv
  OBVIOUS
<1>1. ListIn0(<<>>) = Sort!Cleared /\ LevelIn(<<>>) = <<>> /\ ResponseTo(<<>>) = <<>>
  BY DEF ListIn0, LevelIn, ResponseTo
<1>2. ListIn1(<<>>) = Sort!Cleared
  BY <1>1, ClearedSorted, Zenon DEF ListIn1
<1>3. ListIn2(<<>>) = Sort!Cleared
  BY <1>2, ClearedSorted, Zenon DEF ListIn2
<1>4. reg = [qry2 |-> <<>>, s0 |-> ListIn0(<<>>), s1 |-> ListIn1(<<>>), s2 |-> ListIn2(<<>>),
             delay |-> <<LevelIn(<<>>), LevelIn(<<>>), LevelIn(<<>>)>>,
             resp |-> ResponseTo(<<>>)]
  BY <1>1, <1>2, <1>3 DEF Sort!Init
<1>5. tb = <<>> \o (<<>> \o (<<>> \o (<<>> \o <<>>)))
  BY DEF Sort!Init
<1>6. <<>> \in AQuery
  BY DEF AQuery, AtMostOne
<1>7. SortState(<<>>, <<>>, <<>>, <<>>, <<>>)
  BY <1>4, <1>5, Zenon DEF SortState
<1>8. QED
  BY <1>6, <1>7 DEF SortInv

\* An edge moves every query on to the next stage.
LEMMA SortEdge ==
  ASSUME NEW q2 \in AQuery, NEW s0 \in AQuery, NEW s1 \in AQuery, NEW s2 \in AQuery,
         NEW resp \in AQuery, SortState(q2, s0, s1, s2, resp), NEW q \in AQuery,
         Sort!Edge(q), Sort!Score(q)
  PROVE  SortState(q, q2, s0, s1, s2)'
<1>1. /\ reg.qry2 = q2 /\ reg.s0 = ListIn0(s0) /\ reg.s1 = ListIn1(s1) /\ reg.s2 = ListIn2(s2)
      /\ reg.delay[1] = LevelIn(s0) /\ reg.delay[2] = LevelIn(s1) /\ reg.delay[3] = LevelIn(s2)
      /\ reg.resp = ResponseTo(resp)
  BY DEF SortState
<1>2. tb = resp \o (s2 \o (s1 \o (s0 \o q2)))
  BY DEF SortState
<1>3. /\ reg'.qry2 = q /\ reg'.s0 = ListIn0(q2) /\ reg'.s1 = ListIn1(s0)
      /\ reg'.s2 = ListIn2(s1)
  BY <1>1 DEF Sort!Edge, ListIn0, ListIn1, ListIn2
<1>4. LevelIn(q2) = IF reg.qry2 # <<>> THEN <<reg.qry2[1].level>> ELSE <<>>
  BY <1>1, Zenon DEF LevelIn
<1>5. ResponseTo(s2) =
        IF reg.delay[3] # <<>> THEN <<Sort!Selected(reg.s2, reg.delay[3][1])>> ELSE <<>>
  <2>1. CASE s2 = <<>>
    BY <1>1, <2>1 DEF ResponseTo, LevelIn
  <2>2. CASE s2 # <<>>
    <3>1. LevelIn(s2) = <<s2[1].level>>
      BY <2>2 DEF LevelIn
    <3>2. LevelIn(s2) # <<>> /\ LevelIn(s2)[1] = s2[1].level
      BY <3>1
    <3>3. QED
      BY <1>1, <2>2, <3>2, Zenon DEF ResponseTo
  <2>3. QED
    BY <2>1, <2>2
<1>6. reg' = [qry2 |-> q, s0 |-> ListIn0(q2), s1 |-> ListIn1(s0), s2 |-> ListIn2(s1),
              delay |-> <<LevelIn(q2), LevelIn(s0), LevelIn(s1)>>, resp |-> ResponseTo(s2)]
  BY <1>1, <1>3, <1>4, <1>5 DEF Sort!Edge
<1>7. reg.resp # <<>> <=> resp # <<>>
  BY <1>1 DEF ResponseTo
<1>8. Staged(Sort!Query, resp, s2, s1, s0, q2, tb)
  BY <1>2, FiveStages, Zenon DEF AQuery
<1>9. tb' = s2 \o (s1 \o (s0 \o (q2 \o q)))
  BY <1>7, <1>8, Zenon DEF Staged, AQuery, Sort!Score
<1>10. QED
  BY <1>6, <1>9 DEF SortState

LEMMA SortNextInv ==
  ASSUME SortInv, [Sort!Next]_(Sort!vars)
  PROVE  SortInv'
<1>1. PICK q2 \in AQuery, s0 \in AQuery, s1 \in AQuery, s2 \in AQuery, resp \in AQuery :
        SortState(q2, s0, s1, s2, resp)
  BY DEF SortInv
<1>2. CASE UNCHANGED <<reg, tb>>
  <2>1. SortState(q2, s0, s1, s2, resp)'
    BY <1>1, <1>2 DEF SortState
  <2>2. QED
    BY <1>1, <2>1 DEF SortInv
<1>3. CASE Sort!Next
  <2>1. PICK q \in AQuery : Sort!Edge(q) /\ Sort!Score(q)
    <3>1. CASE Sort!Ask
      <4>1. PICK q \in Sort!Query : Sort!Edge(<<q>>) /\ Sort!Score(<<q>>)
        BY <3>1, LookupsAssumption DEF Sort!Ask
      <4>2. <<q>> \in AQuery
        BY <4>1 DEF AQuery, AtMostOne
      <4>3. QED
        BY <4>1, <4>2
    <3>2. CASE Sort!Idle
      <4>1. <<>> \in AQuery
        BY DEF AQuery, AtMostOne
      <4>2. QED
        BY <3>2, <4>1 DEF Sort!Idle
    <3>3. QED
      BY <1>3, <3>1, <3>2 DEF Sort!Next
  <2>2. SortState(q, q2, s0, s1, s2)'
    BY <1>1, <2>1, SortEdge
  <2>3. QED
    BY <1>1, <2>1, <2>2 DEF SortInv
<1>4. QED
  BY <1>2, <1>3 DEF Sort!vars

\* The lists in the stages are those looked up, in another order.
LEMMA StageLists ==
  ASSUME NEW o \in AQuery, o # <<>>
  PROVE  /\ o[1] \in Sort!Query /\ Proper(o[1].t)
         /\ Sort!Pairs(ListIn0(o)) = Sort!Pairs(o[1].t)
         /\ Sort!Pairs(ListIn1(o)) = Sort!Pairs(o[1].t)
         /\ Sort!Pairs(ListIn2(o)) = Sort!Pairs(o[1].t)
         /\ Proper(ListIn2(o)) /\ Descending(ListIn2(o))
<1>1. o[1] \in Sort!Query
  BY OneOrNone DEF AQuery
<1>2. Proper(o[1].t)
  BY <1>1, LookupsAssumption DEF Sort!Query
<1>3. ListIn0(o) = Sort!s0_w(o[1].t)
  BY DEF ListIn0
<1>4. Proper(ListIn0(o)) /\ Sort!Pairs(ListIn0(o)) = Sort!Pairs(o[1].t)
  BY <1>2, <1>3, NetworkStage
<1>5. Proper(ListIn1(o)) /\ Sort!Pairs(ListIn1(o)) = Sort!Pairs(o[1].t)
  BY <1>4, NetworkStage DEF ListIn1
<1>6. Proper(ListIn2(o)) /\ Sort!Pairs(ListIn2(o)) = Sort!Pairs(o[1].t)
  BY <1>5, NetworkStage DEF ListIn2
<1>7. Descending(ListIn2(o))
  BY <1>2, <1>3, NetworkSorts, Zenon DEF ListIn1, ListIn2
<1>8. QED
  BY <1>1, <1>2, <1>4, <1>5, <1>6, <1>7

LEMMA SortKeeps == SortInv => Sort!NetworkKeepsEntries
<1> SUFFICES ASSUME SortInv
             PROVE  Sort!NetworkKeepsEntries
  OBVIOUS
<1>1. PICK q2 \in AQuery, s0 \in AQuery, s1 \in AQuery, s2 \in AQuery, resp \in AQuery :
        SortState(q2, s0, s1, s2, resp)
  BY DEF SortInv
<1>2. /\ reg.s0 = ListIn0(s0) /\ reg.s1 = ListIn1(s1) /\ reg.s2 = ListIn2(s2)
      /\ tb = resp \o (s2 \o (s1 \o (s0 \o q2)))
  BY <1>1 DEF SortState
<1>3. /\ s2 # <<>> => Among(s2[1], tb)
      /\ s1 # <<>> => Among(s1[1], tb)
      /\ s0 # <<>> => Among(s0[1], tb)
  <2>1. Staged(Sort!Query, resp, s2, s1, s0, q2, tb)
    BY <1>1, <1>2, FiveStages, Zenon DEF AQuery
  <2>2. QED
    BY <2>1 DEF Staged
<1>4. ListIn0(<<>>) = Sort!Cleared
  BY DEF ListIn0
<1>5. ListIn1(<<>>) = Sort!Cleared
  BY <1>4, ClearedSorted, Zenon DEF ListIn1
<1>6. ListIn2(<<>>) = Sort!Cleared
  BY <1>5, ClearedSorted, Zenon DEF ListIn2
<1>7. reg.s0 = Sort!Cleared \/ \E i \in DOMAIN tb : Sort!Pairs(reg.s0) = Sort!Pairs(tb[i].t)
  BY <1>1, <1>2, <1>3, <1>4, StageLists DEF Among
<1>8. reg.s1 = Sort!Cleared \/ \E i \in DOMAIN tb : Sort!Pairs(reg.s1) = Sort!Pairs(tb[i].t)
  BY <1>1, <1>2, <1>3, <1>5, StageLists DEF Among
<1>9. reg.s2 = Sort!Cleared \/ \E i \in DOMAIN tb : Sort!Pairs(reg.s2) = Sort!Pairs(tb[i].t)
  BY <1>1, <1>2, <1>3, <1>6, StageLists DEF Among
<1>10. QED
  BY <1>7, <1>8, <1>9 DEF Sort!NetworkKeepsEntries

\* A list that is sorted has the valid entries and keys of the one looked up.
LEMMA AmbiguousSorted ==
  ASSUME NEW q \in Sort!Query, NEW s, Proper(q.t), Proper(s), Sort!Pairs(s) = Sort!Pairs(q.t)
  PROVE  Sort!AmongFree(q) <=> Ambiguous(s, q.level)
<1>1. /\ IsFiniteSet(Sort!Vld(s)) /\ IsFiniteSet(Sort!Vld(q.t))
      /\ Cardinality(Sort!Vld(s)) = Cardinality(Sort!Vld(q.t))
  BY ProperPairs
<1>2. Sort!Cardinality(Sort!Vld(q.t)) = Cardinality(Sort!Vld(q.t))
  BY DEF Sort!Cardinality, Cardinality
<1>3. ASSUME NEW t
      PROVE  Sort!Hit(t, 0) # {} <=> \E p \in Sort!Pairs(t) : p.key = 0
  <2>1. ASSUME NEW e \in Sort!Hit(t, 0)
        PROVE  \E p \in Sort!Pairs(t) : p.key = 0
    <3>1. [key |-> t[e].key, size |-> t[e].size] \in Sort!Pairs(t) /\ t[e].key = 0
      BY <2>1 DEF Sort!Hit, Sort!Pairs, Sort!Vld
    <3>2. QED
      BY <3>1
  <2>2. ASSUME NEW p \in Sort!Pairs(t), p.key = 0
        PROVE  Sort!Hit(t, 0) # {}
    <3>1. PICK e \in Sort!Vld(t) : p = [key |-> t[e].key, size |-> t[e].size]
      BY <2>2 DEF Sort!Pairs
    <3>2. e \in Sort!Hit(t, 0)
      BY <2>2, <3>1 DEF Sort!Hit, Sort!Vld
    <3>3. QED
      BY <3>2
  <2>3. QED
    BY <2>1, <2>2
<1>4. Sort!Hit(s, 0) # {} <=> Sort!Hit(q.t, 0) # {}
  BY <1>3
<1>5. ASSUME NEW t, Proper(t)
      PROVE  Sort!Vld(t) = Sort!Slot <=> Cardinality(Sort!Vld(t)) = 4
  <2>1. Sort!Vld(t) \in SUBSET Sort!Slot
    BY DEF Sort!Vld
  <2>2. Cardinality(Sort!Slot) = Cardinality(Sort!Vld(t)) => Sort!Slot = Sort!Vld(t)
    BY <2>1, FourSlots, FS_Subset, Zenon
  <2>3. QED
    BY <2>2, FourSlots
<1>6. Sort!Vld(s) # Sort!Slot <=> Sort!Vld(q.t) # Sort!Slot
  BY <1>1, <1>5
<1>7. QED
  BY <1>1, <1>2, <1>4, <1>6 DEF Sort!AmongFree, Ambiguous

LEMMA SortAnswers == SortInv => Sort!AnswersAsExpected
<1> SUFFICES ASSUME SortInv
             PROVE  Sort!AnswersAsExpected
  OBVIOUS
<1>1. PICK q2 \in AQuery, s0 \in AQuery, s1 \in AQuery, s2 \in AQuery, o \in AQuery :
        SortState(q2, s0, s1, s2, o)
  BY DEF SortInv
<1>2. /\ reg.qry2 = q2 /\ reg.resp = ResponseTo(o)
      /\ reg.delay[1] = LevelIn(s0) /\ reg.delay[2] = LevelIn(s1) /\ reg.delay[3] = LevelIn(s2)
      /\ tb = o \o (s2 \o (s1 \o (s0 \o q2)))
  BY <1>1 DEF SortState
<1>3. /\ Len(tb) = Len(o) + Len(s2) + Len(s1) + Len(s0) + Len(q2)
      /\ o # <<>> => tb # <<>> /\ Head(tb) = o[1]
  <2>1. Staged(Sort!Query, o, s2, s1, s0, q2, tb)
    BY <1>1, <1>2, FiveStages, Zenon DEF AQuery
  <2>2. QED
    BY <2>1 DEF Staged
<1>4. ASSUME o # <<>>
      PROVE  LET resp == ResponseTo(o)[1]
             IN  IF Sort!AmongFree(o[1]) THEN resp.error \/ resp.key = 0
                 ELSE Sort!Same(resp, Sort!Expected(o[1]))
  <2> DEFINE s == ListIn2(o)
             q == o[1]
  <2>1. /\ q \in Sort!Query /\ Proper(q.t) /\ Proper(s) /\ Descending(s)
        /\ Sort!Pairs(s) = Sort!Pairs(q.t)
    BY <1>1, <1>4, StageLists
  <2>2. ResponseTo(o)[1] = Sort!Selected(s, q.level)
    BY <1>4 DEF ResponseTo
  <2>3. q.level \in Sort!Slot
    BY <2>1 DEF Sort!Query
  <2> HIDE DEF s, q
  <2>4. Sort!AmongFree(q) <=> Ambiguous(s, q.level)
    BY <2>1, AmbiguousSorted
  <2>5. CASE Ambiguous(s, q.level)
    <3>1. Sort!Selected(s, q.level).error \/ Sort!Selected(s, q.level).key = 0
      BY <2>1, <2>3, <2>5, SelectedAmong
    <3>2. QED
      BY <2>2, <2>4, <2>5, <3>1, Zenon DEF q
  <2>6. CASE ~Ambiguous(s, q.level)
    <3>1. Sort!Same(Sort!Selected(s, q.level), Sort!Expected(q))
      BY <2>1, <2>6, SelectedExpected
    <3>2. QED
      BY <2>2, <2>4, <2>6, <3>1, Zenon DEF q
  <2>7. QED
    BY <2>5, <2>6
<1>5. reg.resp # <<>> <=> o # <<>>
  BY <1>2 DEF ResponseTo
<1>6. Len(reg.qry2 \o reg.delay[1] \o reg.delay[2] \o reg.delay[3] \o reg.resp)
        = Len(q2) + Len(s0) + Len(s1) + Len(s2) + Len(o)
  <2> DEFINE S == Sort!Query \cup {s0[1].level, s1[1].level, s2[1].level, ResponseTo(o)[1]}
  <2>1. ASSUME NEW p \in AQuery, p # <<>> => p[1].level \in S
        PROVE  LevelIn(p) \in AtMostOne(S) /\ Len(LevelIn(p)) = Len(p)
    <3>1. CASE p = <<>>
      BY <3>1 DEF LevelIn, AtMostOne
    <3>2. CASE p # <<>>
      <4>1. LevelIn(p) = <<p[1].level>> /\ Len(p) = 1
        BY <3>2, OneOrNone DEF LevelIn, AQuery
      <4>2. QED
        BY <2>1, <3>2, <4>1 DEF AtMostOne
    <3>3. QED
      BY <3>1, <3>2
  <2>2. /\ LevelIn(s0) \in AtMostOne(S) /\ Len(LevelIn(s0)) = Len(s0)
        /\ LevelIn(s1) \in AtMostOne(S) /\ Len(LevelIn(s1)) = Len(s1)
        /\ LevelIn(s2) \in AtMostOne(S) /\ Len(LevelIn(s2)) = Len(s2)
    BY <1>1, <2>1
  <2>3. ResponseTo(o) \in AtMostOne(S) /\ Len(ResponseTo(o)) = Len(o)
    <3>1. CASE o = <<>>
      BY <3>1 DEF ResponseTo, AtMostOne
    <3>2. CASE o # <<>>
      <4>1. PICK r : ResponseTo(o) = <<r>>
        BY <3>2 DEF ResponseTo
      <4>2. Len(o) = 1 /\ ResponseTo(o)[1] = r /\ Len(ResponseTo(o)) = 1
        BY <1>1, <3>2, <4>1, OneOrNone DEF AQuery
      <4>3. QED
        BY <4>1, <4>2 DEF AtMostOne
    <3>3. QED
      BY <3>1, <3>2
  <2>4. q2 \in AtMostOne(S)
    BY <1>1 DEF AQuery, AtMostOne
  <2> HIDE DEF S
  <2>5. Len(q2 \o LevelIn(s0) \o LevelIn(s1) \o LevelIn(s2) \o ResponseTo(o))
          = Len(q2) + Len(LevelIn(s0)) + Len(LevelIn(s1)) + Len(LevelIn(s2)) + Len(ResponseTo(o))
    BY <2>2, <2>3, <2>4, FiveLengths
  <2>6. Len(reg.qry2 \o reg.delay[1] \o reg.delay[2] \o reg.delay[3] \o reg.resp)
          = Len(q2 \o LevelIn(s0) \o LevelIn(s1) \o LevelIn(s2) \o ResponseTo(o))
    BY <1>2
  <2>7. QED
    BY <2>2, <2>3, <2>5, <2>6
<1>7. /\ Len(q2) \in Nat /\ Len(s0) \in Nat /\ Len(s1) \in Nat /\ Len(s2) \in Nat
      /\ Len(o) \in Nat
  BY <1>1, OneOrNone DEF AQuery
<1>8. Len(tb) = Len(reg.qry2 \o reg.delay[1] \o reg.delay[2] \o reg.delay[3] \o reg.resp)
  BY <1>3, <1>6, <1>7
<1>9. reg.resp # <<>> =>
        /\ tb # <<>>
        /\ IF Sort!AmongFree(Head(tb)) THEN reg.resp[1].error \/ reg.resp[1].key = 0
           ELSE Sort!Same(reg.resp[1], Sort!Expected(Head(tb)))
  BY <1>2, <1>3, <1>4, <1>5, Zenon
<1>10. QED
  BY <1>8, <1>9, Zenon DEF Sort!AnswersAsExpected

-----------------------------------------------------------------------------
(* div_by_3.                                                               *)

\* What the operand has been multiplied by as a state begins, and in the end.
Factor == [s \in 0 .. 8 |->
  CASE s = 0 -> 0 [] s = 1 -> 1 [] s = 2 -> 3 [] s = 3 -> 11 [] s = 4 -> 43
    [] s = 5 -> 171 [] s = 6 -> 683 [] s = 7 -> 2731 [] s = 8 -> 10923]

\* The operands, of 15 bits.
Word15 == 0 .. 2 ^ 15 - 1

Product(x, s) == x * Factor[s]
Third(x) == x \div 3

\* Nothing is on its way; an operand is being multiplied; it has been.
DivIdle(acc) == [state |-> 0, busy |-> FALSE, accumulator |-> acc, valid |-> FALSE]
DivBusy(s, acc) == [state |-> s, busy |-> TRUE, accumulator |-> acc, valid |-> FALSE]
DivDone(x) == [state |-> 0, busy |-> FALSE, accumulator |-> Product(x, 8), valid |-> TRUE]

\* The accumulator has the product so far, and after the last state all of it.
DivInv ==
  \E x \in Word15 :
    \/ (\E acc \in Int : reg = DivIdle(acc)) /\ tb = [x |-> x, expected |-> <<>>]
    \/ /\ \E s \in 0 .. 7, acc \in Int : reg = DivBusy(s, acc) /\ (s > 0 => acc = Product(x, s))
       /\ tb = [x |-> x, expected |-> <<Third(x)>>]
    \/ reg = DivDone(x) /\ tb = [x |-> x, expected |-> <<Third(x)>>]

LEMMA Factors ==
  /\ Factor[1] = 1 /\ Factor[2] = 3 /\ Factor[3] = 11 /\ Factor[4] = 43 /\ Factor[5] = 171
  /\ Factor[6] = 683 /\ Factor[7] = 2731 /\ Factor[8] = 10923
  BY DEF Factor

\* Each state multiplies by one more bit.
LEMMA FactorStep ==
  ASSUME NEW s \in 0 .. 7, NEW x \in Int
  PROVE  /\ Product(x, s + 1) \in Int
         /\ (IF s = 0 THEN 0 ELSE Product(x, s)) + x * 2 ^ Div!Shift[s] = Product(x, s + 1)
<1>1. CASE s = 0
  <2>1. Div!Shift[s] = 0 /\ 2 ^ 0 = 1
    BY <1>1 DEF Div!Shift
  <2>2. QED
    BY <1>1, <2>1, Factors DEF Product
<1>2. CASE s = 1
  <2>1. Div!Shift[s] = 1 /\ 2 ^ 1 = 2
    BY <1>2 DEF Div!Shift
  <2>2. QED
    BY <1>2, <2>1, Factors DEF Product
<1>3. CASE s = 2
  <2>1. Div!Shift[s] = 3 /\ 2 ^ 3 = 8
    BY <1>3 DEF Div!Shift
  <2>2. QED
    BY <1>3, <2>1, Factors DEF Product
<1>4. CASE s = 3
  <2>1. Div!Shift[s] = 5 /\ 2 ^ 5 = 32
    BY <1>4 DEF Div!Shift
  <2>2. QED
    BY <1>4, <2>1, Factors DEF Product
<1>5. CASE s = 4
  <2>1. Div!Shift[s] = 7 /\ 2 ^ 7 = 128
    BY <1>5 DEF Div!Shift
  <2>2. QED
    BY <1>5, <2>1, Factors DEF Product
<1>6. CASE s = 5
  <2>1. Div!Shift[s] = 9 /\ 2 ^ 9 = 512
    BY <1>6 DEF Div!Shift
  <2>2. QED
    BY <1>6, <2>1, Factors DEF Product
<1>7. CASE s = 6
  <2>1. Div!Shift[s] = 11 /\ 2 ^ 11 = 2048
    BY <1>7 DEF Div!Shift
  <2>2. QED
    BY <1>7, <2>1, Factors DEF Product
<1>8. CASE s = 7
  <2>1. Div!Shift[s] = 13 /\ 2 ^ 13 = 8192
    BY <1>8 DEF Div!Shift
  <2>2. QED
    BY <1>8, <2>1, Factors DEF Product
<1>9. QED
  BY <1>1, <1>2, <1>3, <1>4, <1>5, <1>6, <1>7, <1>8

LEMMA ShiftedType ==
  ASSUME NEW s \in 0 .. 7, NEW x \in Int
  PROVE  x * 2 ^ Div!Shift[s] \in Int
<1>1. Div!Shift[s] \in {0, 1, 3, 5, 7, 9, 11, 13}
  BY DEF Div!Shift
<1>2. \A n \in {0, 1, 3, 5, 7, 9, 11, 13} : 2 ^ n \in Int
  OBVIOUS
<1>3. QED
  BY <1>1, <1>2

LEMMA DivInitInv == Div!Init => DivInv
<1> SUFFICES ASSUME Div!Init
             PROVE  DivInv
  OBVIOUS
<1>1. reg = DivIdle(0) /\ tb = [x |-> 0, expected |-> <<>>]
  BY DEF Div!Init, DivIdle
<1>2. 0 \in Word15 /\ 0 \in Int
  <2>1. 2 ^ 15 = 32768
    OBVIOUS
  <2>2. QED
    BY <2>1 DEF Word15
<1>3. QED
  BY <1>1, <1>2, Zenon DEF DivInv

\* An edge with nothing under way, and what was answered leaves the testbench.
LEMMA DivRestEdge ==
  ASSUME NEW acc \in Int, NEW valid \in BOOLEAN, NEW x, NEW e, NEW pass \in BOOLEAN,
         reg = [state |-> 0, busy |-> FALSE, accumulator |-> acc, valid |-> valid],
         tb = [x |-> x, expected |-> IF valid THEN <<e>> ELSE <<>>], Div!Edge(pass)
  PROVE  /\ Div!Left = <<>>
         /\ reg' = IF pass THEN DivBusy(0, acc) ELSE DivIdle(acc)
<1>1. reg.state = 0 /\ reg.busy = FALSE /\ reg.accumulator = acc /\ reg.valid = valid
  OBVIOUS
<1>2. tb.expected = IF valid THEN <<e>> ELSE <<>>
  OBVIOUS
<1>3. Div!Left = <<>>
  <2>1. CASE valid
    BY <1>1, <1>2, <2>1 DEF Div!Left
  <2>2. CASE ~valid
    BY <1>1, <1>2, <2>2 DEF Div!Left
  <2>3. QED
    BY <2>1, <2>2
<1>4. CASE pass = TRUE
  <2>1. Div!state_w(TRUE) = 0
    BY DEF Div!state_w
  <2>2. (TRUE \/ (reg.busy /\ Div!state_w(TRUE) # 0)) = TRUE
    OBVIOUS
  <2>3. (~reg.valid /\ reg.state # 0 /\ Div!state_w(TRUE) = 0) = FALSE
    BY <1>1
  <2>4. (IF reg.busy THEN Div!accumulator_w(tb.x) ELSE reg.accumulator) = acc
    BY <1>1
  <2>5. reg' = [state |-> 0, busy |-> TRUE, accumulator |-> acc, valid |-> FALSE]
    BY <1>4, <2>1, <2>2, <2>3, <2>4, Zenon DEF Div!Edge
  <2>6. QED
    BY <1>3, <1>4, <2>5 DEF DivBusy
<1>5. CASE pass = FALSE
  <2>1. Div!state_w(FALSE) = 0
    BY <1>1 DEF Div!state_w
  <2>2. (FALSE \/ (reg.busy /\ Div!state_w(FALSE) # 0)) = FALSE
    BY <1>1
  <2>3. (~reg.valid /\ reg.state # 0 /\ Div!state_w(FALSE) = 0) = FALSE
    BY <1>1
  <2>4. (IF reg.busy THEN Div!accumulator_w(tb.x) ELSE reg.accumulator) = acc
    BY <1>1
  <2>5. reg' = [state |-> 0, busy |-> FALSE, accumulator |-> acc, valid |-> FALSE]
    BY <1>5, <2>1, <2>2, <2>3, <2>4, Zenon DEF Div!Edge
  <2>6. QED
    BY <1>3, <1>5, <2>5 DEF DivIdle
<1>6. QED
  BY <1>4, <1>5

LEMMA DivRestStep ==
  ASSUME NEW acc \in Int, NEW valid \in BOOLEAN, NEW x \in Word15, NEW e,
         reg = [state |-> 0, busy |-> FALSE, accumulator |-> acc, valid |-> valid],
         tb = [x |-> x, expected |-> IF valid THEN <<e>> ELSE <<>>], Div!Next
  PROVE  DivInv'
<1>1. CASE Div!Pass
  <2>1. PICK y \in Operands :
          Div!Edge(TRUE) /\ tb' = [x |-> y, expected |-> Append(Div!Left, Third(y))]
    BY <1>1, Zenon DEF Div!Pass, Third
  <2>2. Div!Left = <<>> /\ reg' = DivBusy(0, acc)
    <3>1. TRUE \in BOOLEAN
      OBVIOUS
    <3>2. QED
      BY <2>1, <3>1, DivRestEdge
  <2>3. tb' = [x |-> y, expected |-> <<Third(y)>>]
    BY <2>1, <2>2
  <2>4. y \in Word15 /\ 0 \in 0 .. 7 /\ ~(0 > 0)
    <3>1. Operands \subseteq Word15
      BY OperandsAssumption, Zenon DEF Word15
    <3>2. 0 \in 0 .. 7 /\ ~(0 > 0)
      OBVIOUS
    <3>3. QED
      BY <2>1, <3>1, <3>2
  <2>5. QED
    BY <2>2, <2>3, <2>4 DEF DivInv
<1>2. CASE Div!Wait
  <2>1. Div!Left = <<>> /\ reg' = DivIdle(acc)
    <3>1. FALSE \in BOOLEAN
      OBVIOUS
    <3>2. QED
      BY <1>2, <3>1, DivRestEdge DEF Div!Wait
  <2>2. tb' = [x |-> x, expected |-> <<>>]
    BY <1>2, <2>1 DEF Div!Wait
  <2>3. QED
    BY <2>1, <2>2 DEF DivInv
<1>3. QED
  BY <1>1, <1>2 DEF Div!Next

LEMMA DivBusyStep ==
  ASSUME NEW s \in 0 .. 7, NEW acc \in Int, NEW x \in Word15,
         s > 0 => acc = Product(x, s),
         reg = DivBusy(s, acc), tb = [x |-> x, expected |-> <<Third(x)>>], Div!Next
  PROVE  DivInv'
<1>1. reg.state = s /\ reg.busy = TRUE /\ reg.accumulator = acc /\ reg.valid = FALSE
  BY DEF DivBusy
<1>2. tb.x = x /\ tb.expected = <<Third(x)>>
  OBVIOUS
<1>3. Div!Wait
  BY <1>1, Zenon DEF Div!Next, Div!Pass
<1>4. Div!Left = <<Third(x)>>
  BY <1>1, <1>2, Zenon DEF Div!Left
<1>5. tb' = [x |-> x, expected |-> <<Third(x)>>]
  BY <1>2, <1>3, <1>4 DEF Div!Wait
<1>6. Div!accumulator_w(x) = Product(x, s + 1) /\ Product(x, s + 1) \in Int
  <2>0. x \in Int
    <3>1. 2 ^ 15 = 32768
      OBVIOUS
    <3>2. QED
      BY <3>1 DEF Word15
  <2>1. PICK inc : inc = x * 2 ^ Div!Shift[s]
    OBVIOUS
  <2>2. Div!accumulator_w(x) = IF s = 0 THEN inc ELSE acc + inc
    BY <1>1, <2>1, Zenon DEF Div!accumulator_w
  <2>3. Product(x, s + 1) \in Int /\ (IF s = 0 THEN 0 ELSE Product(x, s)) + inc = Product(x, s + 1)
    BY <2>0, <2>1, FactorStep
  <2>4. inc \in Int
    BY <2>0, <2>1, ShiftedType
  <2>5. QED
    BY <2>2, <2>3, <2>4
<1>7. Div!state_w(FALSE) = IF s = 7 THEN 0 ELSE s + 1
  BY <1>1 DEF Div!state_w
<1>8. CASE s = 7
  <2>1. Div!state_w(FALSE) = 0
    BY <1>7, <1>8
  <2>2. (FALSE \/ (reg.busy /\ Div!state_w(FALSE) # 0)) = FALSE
    BY <2>1
  <2>3. (~reg.valid /\ reg.state # 0 /\ Div!state_w(FALSE) = 0) = TRUE
    <3>1. 7 # 0
      OBVIOUS
    <3>2. ~reg.valid /\ reg.state # 0 /\ Div!state_w(FALSE) = 0
      BY <1>1, <1>8, <2>1, <3>1, Zenon
    <3>3. QED
      BY <3>2, Zenon
  <2>4. (IF reg.busy THEN Div!accumulator_w(tb.x) ELSE reg.accumulator) = Product(x, 8)
    BY <1>1, <1>2, <1>6, <1>8
  <2>5. reg' = DivDone(x)
    BY <1>3, <2>1, <2>2, <2>3, <2>4, Zenon DEF Div!Wait, Div!Edge, DivDone
  <2>6. QED
    BY <1>5, <2>5 DEF DivInv
<1>9. CASE s # 7
  <2>1. Div!state_w(FALSE) = s + 1 /\ s + 1 # 0
    <3>1. Div!state_w(FALSE) = s + 1
      BY <1>7, <1>9, Zenon
    <3>2. s + 1 # 0
      OBVIOUS
    <3>3. QED
      BY <3>1, <3>2
  <2>2. (FALSE \/ (reg.busy /\ Div!state_w(FALSE) # 0)) = TRUE
    BY <1>1, <2>1
  <2>3. (~reg.valid /\ reg.state # 0 /\ Div!state_w(FALSE) = 0) = FALSE
    BY <2>1
  <2>4. (IF reg.busy THEN Div!accumulator_w(tb.x) ELSE reg.accumulator) = Product(x, s + 1)
    BY <1>1, <1>2, <1>6
  <2>5. reg' = DivBusy(s + 1, Product(x, s + 1))
    BY <1>3, <2>1, <2>2, <2>3, <2>4, Zenon DEF Div!Wait, Div!Edge, DivBusy
  <2>6. s + 1 \in 0 .. 7
    BY <1>9
  <2>7. QED
    BY <1>5, <1>6, <2>5, <2>6 DEF DivInv
<1>10. QED
  BY <1>8, <1>9

LEMMA DivNextInv ==
  ASSUME DivInv, [Div!Next]_(Div!vars)
  PROVE  DivInv'
<1>1. CASE UNCHANGED <<reg, tb>>
  BY <1>1 DEF DivInv
<1>2. CASE Div!Next
  <2>1. PICK x \in Word15 :
          \/ (\E acc \in Int : reg = DivIdle(acc)) /\ tb = [x |-> x, expected |-> <<>>]
          \/ /\ \E s \in 0 .. 7, acc \in Int : reg = DivBusy(s, acc) /\ (s > 0 => acc = Product(x, s))
             /\ tb = [x |-> x, expected |-> <<Third(x)>>]
          \/ reg = DivDone(x) /\ tb = [x |-> x, expected |-> <<Third(x)>>]
    BY DEF DivInv
  <2>2. CASE (\E acc \in Int : reg = DivIdle(acc)) /\ tb = [x |-> x, expected |-> <<>>]
    <3>1. PICK acc \in Int : reg = DivIdle(acc)
      BY <2>2
    <3>2. FALSE \in BOOLEAN /\ tb = [x |-> x, expected |-> IF FALSE THEN <<0>> ELSE <<>>]
      BY <2>2
    <3>3. reg = [state |-> 0, busy |-> FALSE, accumulator |-> acc, valid |-> FALSE]
      BY <3>1 DEF DivIdle
    <3>4. QED
      BY <1>2, <3>2, <3>3, DivRestStep
  <2>3. CASE reg = DivDone(x) /\ tb = [x |-> x, expected |-> <<Third(x)>>]
    <3>1. TRUE \in BOOLEAN /\ tb = [x |-> x, expected |-> IF TRUE THEN <<Third(x)>> ELSE <<>>]
      BY <2>3
    <3>2. reg = [state |-> 0, busy |-> FALSE, accumulator |-> Product(x, 8), valid |-> TRUE]
      BY <2>3, Zenon DEF DivDone
    <3>3. Product(x, 8) \in Int
      <4>1. 2 ^ 15 = 32768
        OBVIOUS
      <4>2. QED
        BY <4>1, Factors DEF Product, Word15
    <3>4. QED
      BY <1>2, <3>1, <3>2, <3>3, DivRestStep
  <2>4. CASE /\ \E s \in 0 .. 7, acc \in Int : reg = DivBusy(s, acc) /\ (s > 0 => acc = Product(x, s))
             /\ tb = [x |-> x, expected |-> <<Third(x)>>]
    BY <1>2, <2>4, DivBusyStep
  <2>5. QED
    BY <2>1, <2>2, <2>3, <2>4
<1>3. QED
  BY <1>1, <1>2 DEF Div!vars

\* 0x2AAB is (2^15 + 1) / 3: the product is the quotient and too little to
\* be seen for an operand of 15 bits.
LEMMA Quotient ==
  ASSUME NEW x \in Word15
  PROVE  Product(x, 8) \div 2 ^ 15 = x \div 3
<1>1. 2 ^ 15 = 32768
  OBVIOUS
<1>2. (x * 10923) \div 32768 = x \div 3
  BY <1>1 DEF Word15
<1>3. Product(x, 8) = x * 10923
  BY Factors DEF Product
<1>4. QED
  BY <1>1, <1>2, <1>3

LEMMA DivAnswers == DivInv => Div!AnswersAsExpected
<1> SUFFICES ASSUME DivInv
             PROVE  Div!AnswersAsExpected
  OBVIOUS
<1>1. PICK x \in Word15 :
        \/ (\E acc \in Int : reg = DivIdle(acc)) /\ tb = [x |-> x, expected |-> <<>>]
        \/ /\ \E s \in 0 .. 7, acc \in Int : reg = DivBusy(s, acc) /\ (s > 0 => acc = Product(x, s))
           /\ tb = [x |-> x, expected |-> <<Third(x)>>]
        \/ reg = DivDone(x) /\ tb = [x |-> x, expected |-> <<Third(x)>>]
  BY DEF DivInv
<1>2. CASE (\E acc \in Int : reg = DivIdle(acc)) /\ tb = [x |-> x, expected |-> <<>>]
  <2>1. reg.valid = FALSE /\ reg.busy = FALSE /\ Len(tb.expected) = 0
    BY <1>2 DEF DivIdle
  <2>2. QED
    BY <2>1, Zenon DEF Div!AnswersAsExpected
<1>3. CASE /\ \E s \in 0 .. 7, acc \in Int : reg = DivBusy(s, acc)
           /\ tb = [x |-> x, expected |-> <<Third(x)>>]
  <2>1. reg.valid = FALSE /\ reg.busy = TRUE /\ Len(tb.expected) = 1
    BY <1>3 DEF DivBusy
  <2>2. QED
    BY <2>1, Zenon DEF Div!AnswersAsExpected
<1>4. CASE reg = DivDone(x) /\ tb = [x |-> x, expected |-> <<Third(x)>>]
  <2>1. reg.accumulator = Product(x, 8) /\ reg.valid = TRUE /\ reg.busy = FALSE
    BY <1>4, Zenon DEF DivDone
  <2>2. Len(tb.expected) = 1 /\ tb.expected # <<>> /\ Head(tb.expected) = Third(x)
    BY <1>4
  <2>3. Div!y_r = Third(x)
    BY <2>1, Quotient, Zenon DEF Div!y_r, Third
  <2>4. QED
    BY <2>1, <2>2, <2>3, Zenon DEF Div!AnswersAsExpected
<1>5. QED
  BY <1>1, <1>2, <1>3, <1>4

-----------------------------------------------------------------------------
(* The numbers of a set, from the least upwards.                           *)

\* How many of the set are below a number.
Under(S, x) == {y \in S : y < x}
Rank(S, x) == Cardinality(Under(S, x))

LEMMA RankType ==
  ASSUME NEW S \in SUBSET Nat, IsFiniteSet(S), NEW x
  PROVE  IsFiniteSet(Under(S, x)) /\ Rank(S, x) \in Nat
<1>1. IsFiniteSet(Under(S, x))
  BY FS_Subset DEF Under
<1>2. QED
  BY <1>1, FS_CardinalityType DEF Rank

LEMMA RankGrows ==
  ASSUME NEW S \in SUBSET Nat, IsFiniteSet(S), NEW x \in S, NEW z \in S, x < z
  PROVE  Rank(S, x) < Rank(S, z)
<1>1. /\ IsFiniteSet(Under(S, x)) /\ IsFiniteSet(Under(S, z))
      /\ Rank(S, x) \in Nat /\ Rank(S, z) \in Nat
  BY RankType
<1>2. Under(S, x) \cup {x} \subseteq Under(S, z) /\ x \notin Under(S, x)
  <2>1. /\ x \in Nat /\ z \in Nat /\ ~(x < x)
        /\ \A y \in S : y \in Nat /\ (y < x => y < z)
    OBVIOUS
  <2>2. QED
    BY <2>1, Zenon DEF Under
<1>3. IsFiniteSet(Under(S, x) \cup {x}) /\ Cardinality(Under(S, x) \cup {x}) = Rank(S, x) + 1
  BY <1>1, <1>2, FS_AddElement DEF Rank
<1>4. Cardinality(Under(S, x) \cup {x}) <= Rank(S, z)
  BY <1>1, <1>2, FS_Subset DEF Rank
<1>5. QED
  BY <1>1, <1>3, <1>4

LEMMA RankOnce ==
  ASSUME NEW S \in SUBSET Nat, IsFiniteSet(S), NEW x \in S, NEW z \in S, Rank(S, x) = Rank(S, z)
  PROVE  x = z
<1>1. Rank(S, x) \in Nat /\ x \in Nat /\ z \in Nat
  BY RankType
<1>2. ~(x < z) /\ ~(z < x)
  BY <1>1, RankGrows
<1>3. QED
  BY <1>1, <1>2

LEMMA RankOfLeast ==
  ASSUME NEW S \in SUBSET Nat, NEW m \in S, \A y \in S : m <= y
  PROVE  Rank(S, m) = 0
<1>1. \A y \in S : ~(y < m)
  <2> SUFFICES ASSUME NEW y \in S
               PROVE  ~(y < m)
    OBVIOUS
  <2>1. y \in Nat /\ m \in Nat /\ m <= y
    OBVIOUS
  <2>2. QED
    BY <2>1
<1>2. Under(S, m) = {}
  BY <1>1, Zenon DEF Under
<1>3. QED
  BY <1>2, FS_EmptySet DEF Rank

\* There is one of every rank: the next one after that of the rank before.
LEMMA RankExists ==
  ASSUME NEW S \in SUBSET Nat, IsFiniteSet(S), NEW k \in Nat, k < Cardinality(S)
  PROVE  \E x \in S : Rank(S, x) = k
<1> DEFINE T == {n \in Nat : n < Cardinality(S) /\ ~\E x \in S : Rank(S, x) = n}
<1>1. SUFFICES ASSUME T # {}
               PROVE  FALSE
  OBVIOUS
<1>2. PICK n \in T : \A m \in T : n <= m
  BY <1>1, Least
<1>3. n \in Nat /\ n < Cardinality(S) /\ ~\E x \in S : Rank(S, x) = n
  BY <1>2
<1>4. Cardinality(S) \in Nat
  BY FS_CardinalityType
<1>5. CASE n = 0
  <2>1. S # {}
    BY <1>3, <1>4, <1>5, FS_EmptySet
  <2>2. PICK m \in S : \A y \in S : m <= y
    BY <2>1, Least
  <2>3. Rank(S, m) = 0
    BY <2>2, RankOfLeast
  <2>4. QED
    BY <1>3, <1>5, <2>3
<1>6. CASE n # 0
  <2>1. n - 1 \in Nat /\ n - 1 < Cardinality(S) /\ ~(n <= n - 1) /\ n - 1 + 1 = n
    BY <1>3, <1>4, <1>6
  <2>2. PICK x \in S : Rank(S, x) = n - 1
    BY <1>2, <2>1
  <2>3. IsFiniteSet(Under(S, x)) /\ x \notin Under(S, x)
    BY RankType DEF Under
  <2>4. Cardinality(Under(S, x) \cup {x}) = n
    BY <2>1, <2>2, <2>3, FS_AddElement DEF Rank
  <2>5. CASE \A y \in S : ~(x < y)
    <3>1. S = Under(S, x) \cup {x}
      <4>1. ASSUME NEW y \in S
            PROVE  y < x \/ y = x
        <5>1. y \in Nat /\ x \in Nat /\ ~(x < y)
          BY <2>5
        <5>2. QED
          BY <5>1
      <4>2. QED
        BY <4>1, Zenon DEF Under
    <3>2. QED
      BY <1>3, <1>4, <2>4, <3>1
  <2>6. CASE \E y \in S : x < y
    <3>1. {y \in S : x < y} # {} /\ {y \in S : x < y} \in SUBSET Nat
      BY <2>6
    <3>2. PICK m \in {y \in S : x < y} : \A y \in {y \in S : x < y} : m <= y
      BY <3>1, Least
    <3>3. Under(S, m) = Under(S, x) \cup {x}
      <4>1. ASSUME NEW y \in S
            PROVE  y < m <=> (y < x \/ y = x)
        <5>1. y \in Nat /\ x \in Nat /\ m \in Nat /\ x < m /\ (x < y => m <= y)
          BY <3>2
        <5>2. QED
          BY <5>1
      <4>2. QED
        BY <4>1, Zenon DEF Under
    <3>4. QED
      BY <1>3, <2>4, <3>2, <3>3 DEF Rank
  <2>7. QED
    BY <2>5, <2>6
<1>7. QED
  BY <1>5, <1>6

\* The numbers of a set, in their order.
InOrder(S) == [n \in 1 .. Cardinality(S) |-> CHOOSE x \in S : Rank(S, x) = n - 1]

LEMMA InOrderIs ==
  ASSUME NEW S \in SUBSET Nat, IsFiniteSet(S)
  PROVE  /\ InOrder(S) \in Seq(Nat) /\ Len(InOrder(S)) = Cardinality(S)
         /\ \A n \in 1 .. Cardinality(S) : InOrder(S)[n] \in S /\ Rank(S, InOrder(S)[n]) = n - 1
<1>1. Cardinality(S) \in Nat
  BY FS_CardinalityType
<1>2. ASSUME NEW n \in 1 .. Cardinality(S)
      PROVE  InOrder(S)[n] \in S /\ Rank(S, InOrder(S)[n]) = n - 1
  <2>1. n - 1 \in Nat /\ n - 1 < Cardinality(S)
    BY <1>1
  <2>2. \E x \in S : Rank(S, x) = n - 1
    BY <2>1, RankExists
  <2>3. InOrder(S)[n] = CHOOSE x \in S : Rank(S, x) = n - 1
    BY DEF InOrder
  <2>4. QED
    BY <2>2, <2>3, Zenon
<1>3. InOrder(S) \in [1 .. Cardinality(S) -> Nat]
  BY <1>2 DEF InOrder
<1>4. QED
  BY <1>1, <1>2, <1>3

\* The least comes first, and then the others.
LEMMA InOrderFrom ==
  ASSUME NEW S \in SUBSET Nat, IsFiniteSet(S), NEW m \in S, \A y \in S : m <= y
  PROVE  InOrder(S) = <<m>> \o InOrder(S \ {m})
<1>1. PICK T : T = S \ {m}
  OBVIOUS
<1>2. /\ T \in SUBSET Nat /\ IsFiniteSet(T) /\ Cardinality(T) = Cardinality(S) - 1
      /\ Cardinality(S) \in Nat /\ Cardinality(T) \in Nat
  <2>1. IsFiniteSet(T) /\ Cardinality(T) = Cardinality(S) - 1
    BY <1>1, FS_RemoveElement
  <2>2. QED
    BY <1>1, <2>1, FS_CardinalityType
<1>3. /\ InOrder(S) \in Seq(Nat) /\ Len(InOrder(S)) = Cardinality(S)
      /\ \A n \in 1 .. Cardinality(S) : InOrder(S)[n] \in S /\ Rank(S, InOrder(S)[n]) = n - 1
  BY InOrderIs
<1>4. /\ InOrder(T) \in Seq(Nat) /\ Len(InOrder(T)) = Cardinality(T)
      /\ \A n \in 1 .. Cardinality(T) : InOrder(T)[n] \in T /\ Rank(T, InOrder(T)[n]) = n - 1
  BY <1>2, InOrderIs
<1>5. Rank(S, m) = 0
  BY RankOfLeast
<1>6. ASSUME NEW x \in T
      PROVE  Rank(S, x) = Rank(T, x) + 1
  <2>1. m < x /\ ~(m < m)
    <3>1. m \in Nat /\ x \in Nat /\ m <= x /\ x # m
      BY <1>1
    <3>2. QED
      BY <3>1
  <2>2. Under(S, x) = Under(T, x) \cup {m} /\ m \notin Under(T, x)
    BY <1>1, <2>1, Zenon DEF Under
  <2>3. IsFiniteSet(Under(T, x))
    BY <1>2, RankType
  <2>4. QED
    BY <2>2, <2>3, FS_AddElement DEF Rank
<1>7. InOrder(S)[1] = m
  <2>1. 1 \in 1 .. Cardinality(S) /\ 1 - 1 = 0
    BY <1>2
  <2>2. InOrder(S)[1] \in S /\ Rank(S, InOrder(S)[1]) = 0
    BY <1>3, <2>1
  <2>3. QED
    BY <1>5, <2>2, RankOnce
<1>8. ASSUME NEW n \in 1 .. Cardinality(T)
      PROVE  InOrder(S)[n + 1] = InOrder(T)[n]
  <2>1. n + 1 \in 1 .. Cardinality(S) /\ n \in Nat /\ n + 1 - 1 = n /\ n - 1 + 1 = n
    BY <1>2
  <2>2. InOrder(S)[n + 1] \in S /\ Rank(S, InOrder(S)[n + 1]) = n
    BY <1>3, <2>1
  <2>3. InOrder(T)[n] \in T /\ Rank(T, InOrder(T)[n]) = n - 1
    BY <1>4
  <2>4. PICK a \in S, b \in T : a = InOrder(S)[n + 1] /\ b = InOrder(T)[n]
    BY <2>2, <2>3
  <2>5. Rank(S, b) = Rank(S, a) /\ b \in S
    BY <1>1, <1>6, <2>1, <2>2, <2>3, <2>4
  <2>6. a = b
    BY <2>4, <2>5, RankOnce
  <2>7. QED
    BY <2>4, <2>6
<1>9. InOrder(S) = <<m>> \o InOrder(T)
  <2>1. PICK s \in Seq(Nat), t \in Seq(Nat) : s = InOrder(S) /\ t = InOrder(T)
    BY <1>2, <1>3, <1>4
  <2>2. Len(s) = Len(t) + 1 /\ Len(t) \in Nat /\ s[1] = m /\ \A n \in 1 .. Len(t) : s[n + 1] = t[n]
    BY <1>2, <1>3, <1>4, <1>7, <1>8, <2>1
  <2>3. m \in Nat
    OBVIOUS
  <2>4. s = <<m>> \o t
    <3>1. <<m>> \o t \in Seq(Nat) /\ Len(<<m>> \o t) = Len(s)
      BY <2>2, <2>3
    <3>2. ASSUME NEW n \in 1 .. Len(s)
          PROVE  s[n] = (<<m>> \o t)[n]
      <4>1. CASE n = 1
        BY <2>2, <2>3, <4>1
      <4>2. CASE n # 1
        <5>1. PICK k \in 1 .. Len(t) : n = k + 1
          <6>1. n - 1 \in 1 .. Len(t) /\ n = n - 1 + 1
            BY <2>2, <3>2, <4>2
          <6>2. QED
            BY <6>1
        <5>2. s[n] = t[k]
          BY <2>2, <5>1
        <5>3. (<<m>> \o t)[k + 1] = t[k]
          BY <2>2, <2>3
        <5>4. QED
          BY <5>1, <5>2, <5>3
      <4>3. QED
        BY <4>1, <4>2
    <3>3. QED
      BY <3>1, <3>2, SeqEqual
  <2>5. QED
    BY <2>1, <2>4
<1>10. QED
  BY <1>1, <1>9

LEMMA InOrderOfNone == InOrder({}) = <<>>
<1>1. Cardinality({}) = 0 /\ IsFiniteSet({}) /\ {} \in SUBSET Nat
  BY FS_EmptySet
<1>2. InOrder({}) \in Seq(Nat) /\ Len(InOrder({})) = 0
  BY <1>1, InOrderIs
<1>3. QED
  BY <1>2

-----------------------------------------------------------------------------
(* zero_indices_slow.                                                      *)

SlowBits == 0 .. SlowW - 1

LEMMA SlowBitsAre ==
  ASSUME NEW S \in SUBSET SlowBits
  PROVE  S \in SUBSET Nat /\ IsFiniteSet(S)
<1>1. IsFiniteSet(SlowBits) /\ SlowBits \subseteq Nat
  BY ScansAssumption, FirstNumbers DEF SlowBits
<1>2. QED
  BY <1>1, FS_Subset

LEMMA SlowMin ==
  ASSUME NEW S \in SUBSET Nat, S # {}
  PROVE  Slow!Min(S) \in S /\ \A y \in S : Slow!Min(S) <= y
<1>1. \E m \in S : \A y \in S : m <= y
  BY Least
<1>2. Slow!Min(S) = CHOOSE m \in S : \A y \in S : m <= y
  BY DEF Slow!Min
<1>3. QED
  BY <1>1, <1>2, Zenon

LEMMA SlowStimulus ==
  ASSUME NEW S
  PROVE  Slow!construct_stimulus(S) = InOrder(S)
  BY DEF Slow!construct_stimulus, InOrder, Rank, Under, Slow!Cardinality, Cardinality

\* What is reported: a position or none.
Report == {<<>>} \cup {<<z>> : z \in Nat}

SlowState(r, busy, o, v, p) ==
  /\ reg = [vector_r |-> r, in_busy_r |-> busy, resp |-> o]
  /\ tb = [v |-> v, p |-> p]

\* What is waited for is what is reported and what is left of the vector; of a
\* vector without zeros nothing is, whatever is reported.
SlowInv ==
  \E r \in SUBSET SlowBits, busy \in BOOLEAN, o \in Report, v \in SUBSET SlowBits, p \in Seq(Nat) :
    /\ SlowState(r, busy, o, v, p)
    /\ v = {} => r = {} /\ p = <<>> /\ (o = <<>> \/ (o = <<0>> /\ ~busy))
    /\ v # {} => p = o \o InOrder(r) /\ (busy <=> r # {})

LEMMA SlowInitInv == Slow!Init => SlowInv
<1> SUFFICES ASSUME Slow!Init
             PROVE  SlowInv
  OBVIOUS
<1>1. SlowState({}, FALSE, <<>>, {}, <<>>)
  BY DEF Slow!Init, SlowState
<1>2. {} \in SUBSET SlowBits /\ FALSE \in BOOLEAN /\ <<>> \in Report /\ <<>> \in Seq(Nat)
  BY DEF Report
<1>3. QED
  BY <1>1, <1>2, Zenon DEF SlowInv

LEMMA InOrderType ==
  ASSUME NEW S \in SUBSET Nat, IsFiniteSet(S)
  PROVE  InOrder(S) \in Seq(Nat)
  BY InOrderIs

\* What was reported is no longer waited for.
LEMMA Reported ==
  ASSUME NEW o \in Report, NEW s \in Seq(Nat), NEW p, p = o \o s
  PROVE  /\ p \in Seq(Nat)
         /\ (IF o # <<>> /\ p # <<>> THEN Tail(p) ELSE p) = s
         /\ o # <<>> => p # <<>> /\ Head(p) = o[1]
<1>1. CASE o = <<>>
  BY <1>1
<1>2. CASE o # <<>>
  <2>1. PICK z \in Nat : o = <<z>>
    BY <1>2 DEF Report
  <2>2. p \in Seq(Nat) /\ p # <<>> /\ Tail(p) = s /\ Head(p) = z /\ o[1] = z
    BY <2>1
  <2>3. QED
    BY <1>2, <2>2
<1>3. QED
  BY <1>1, <1>2

LEMMA SlowIssue ==
  ASSUME NEW v \in SUBSET SlowBits, reg' = [vector_r |-> v, in_busy_r |-> TRUE, resp |-> <<>>],
         tb' = [v |-> v, p |-> InOrder(v)]
  PROVE  SlowInv'
<1>1. InOrder(v) \in Seq(Nat)
  BY SlowBitsAre, InOrderType
<1>2. SlowState(v, TRUE, <<>>, v, InOrder(v))'
  BY DEF SlowState
<1>3. v = {} => v = {} /\ InOrder(v) = <<>>
  BY InOrderOfNone
<1>4. v # {} => InOrder(v) = <<>> \o InOrder(v) /\ (TRUE <=> v # {})
  BY <1>1
<1>5. <<>> \in Report /\ TRUE \in BOOLEAN
  BY DEF Report
<1>6. QED
  BY <1>1, <1>2, <1>3, <1>4, <1>5, Zenon DEF SlowInv

LEMMA SlowNextInv ==
  ASSUME SlowInv, [Slow!Next]_(Slow!vars)
  PROVE  SlowInv'
<1>1. CASE UNCHANGED <<reg, tb>>
  <2>1. PICK r \in SUBSET SlowBits, busy \in BOOLEAN, o \in Report, v \in SUBSET SlowBits,
             p \in Seq(Nat) :
          /\ SlowState(r, busy, o, v, p)
          /\ v = {} => r = {} /\ p = <<>> /\ (o = <<>> \/ (o = <<0>> /\ ~busy))
          /\ v # {} => p = o \o InOrder(r) /\ (busy <=> r # {})
    BY DEF SlowInv
  <2>2. SlowState(r, busy, o, v, p)'
    BY <1>1, <2>1 DEF SlowState
  <2>3. QED
    BY <2>1, <2>2, Zenon DEF SlowInv
<1>2. CASE Slow!Next
  <2>1. PICK r \in SUBSET SlowBits, busy \in BOOLEAN, o \in Report, v \in SUBSET SlowBits,
             p \in Seq(Nat) :
          /\ SlowState(r, busy, o, v, p)
          /\ v = {} => r = {} /\ p = <<>> /\ (o = <<>> \/ (o = <<0>> /\ ~busy))
          /\ v # {} => p = o \o InOrder(r) /\ (busy <=> r # {})
    BY DEF SlowInv
  <2>2. /\ reg.vector_r = r /\ reg.in_busy_r = busy /\ reg.resp = o
        /\ tb = [v |-> v, p |-> p] /\ tb.p = p
    BY <2>1 DEF SlowState
  <2>3. r \in SUBSET Nat /\ IsFiniteSet(r) /\ InOrder(r) \in Seq(Nat)
    BY <2>1, SlowBitsAre, InOrderType
  <2>4. Slow!m_checker = IF v = {} THEN <<>> ELSE InOrder(r)
    <3>1. Slow!m_checker = IF o # <<>> /\ p # <<>> THEN Tail(p) ELSE p
      BY <2>2 DEF Slow!m_checker
    <3>2. CASE v = {}
      BY <2>1, <3>1, <3>2
    <3>3. CASE v # {}
      <4>1. p = o \o InOrder(r)
        BY <2>1, <3>3
      <4>2. QED
        BY <2>3, <3>1, <3>3, <4>1, Reported
    <3>4. QED
      BY <3>2, <3>3
  <2>5. CASE ~busy
    <3>1. r = {} /\ Slow!m_checker = <<>>
      BY <2>1, <2>4, <2>5, InOrderOfNone
    <3>2. CASE Slow!b_issue_in
      <4>1. PICK u \in SUBSET SlowBits :
              Slow!Edge(<<u>>) /\ tb' = [v |-> u, p |-> <<>> \o InOrder(u)]
        BY <3>1, <3>2, SlowStimulus, Zenon DEF Slow!b_issue_in, SlowBits
      <4>2. Slow!vector_w(<<u>>) = u
        BY DEF Slow!vector_w
      <4>3. reg' = [vector_r |-> u, in_busy_r |-> TRUE, resp |-> <<>>]
        BY <2>2, <2>5, <4>1, <4>2 DEF Slow!Edge
      <4>4. <<>> \o InOrder(u) = InOrder(u)
        BY SlowBitsAre, InOrderType
      <4>5. QED
        BY <4>1, <4>3, <4>4, SlowIssue
    <3>3. CASE Slow!Wait
      <4>1. Slow!vector_w(<<>>) = {}
        BY <2>2, <2>5, <3>1 DEF Slow!vector_w
      <4>2. reg' = [vector_r |-> {}, in_busy_r |-> FALSE, resp |-> <<>>]
        BY <2>2, <2>5, <3>3, <4>1 DEF Slow!Wait, Slow!Edge
      <4>3. tb' = [v |-> v, p |-> <<>>]
        BY <2>2, <3>1, <3>3 DEF Slow!Wait
      <4>4. SlowState({}, FALSE, <<>>, v, <<>>)'
        BY <4>2, <4>3 DEF SlowState
      <4>5. <<>> = <<>> \o InOrder({})
        BY InOrderOfNone
      <4>6. {} \in SUBSET SlowBits /\ FALSE \in BOOLEAN /\ <<>> \in Report /\ <<>> \in Seq(Nat)
        BY DEF Report
      <4>7. QED
        BY <4>4, <4>5, <4>6, Zenon DEF SlowInv
    <3>4. QED
      BY <1>2, <3>2, <3>3 DEF Slow!Next
  <2>6. CASE busy
    <3>1. Slow!Wait
      BY <1>2, <2>2, <2>6 DEF Slow!Next, Slow!b_issue_in
    <3>2. CASE r = {}
      <4>1. v = {} /\ Slow!m_checker = <<>>
        BY <2>1, <2>4, <2>6, <3>2
      <4>2. Slow!first_zero = {} /\ Slow!encode(Slow!first_zero) = 0
        BY <2>2, <3>2 DEF Slow!first_zero, Slow!ffs, Slow!encode
      <4>3. Slow!vector_w(<<>>) = {}
        BY <2>2, <2>6, <3>2 DEF Slow!vector_w
      <4>4. reg' = [vector_r |-> {}, in_busy_r |-> FALSE, resp |-> <<0>>]
        BY <2>2, <2>6, <3>1, <4>2, <4>3 DEF Slow!Wait, Slow!Edge
      <4>5. tb' = [v |-> {}, p |-> <<>>]
        BY <2>2, <3>1, <4>1 DEF Slow!Wait
      <4>6. SlowState({}, FALSE, <<0>>, {}, <<>>)'
        BY <4>4, <4>5 DEF SlowState
      <4>7. {} \in SUBSET SlowBits /\ FALSE \in BOOLEAN /\ <<0>> \in Report /\ <<>> \in Seq(Nat)
        BY DEF Report
      <4>8. QED
        BY <4>6, <4>7, Zenon DEF SlowInv
    <3>3. CASE r # {}
      <4>1. v # {} /\ Slow!m_checker = InOrder(r)
        BY <2>1, <2>4, <3>3
      <4>2. PICK m \in r : m = Slow!Min(r) /\ \A y \in r : m <= y
        BY <2>3, <3>3, SlowMin
      <4>3. Slow!first_zero = {m} /\ Slow!encode(Slow!first_zero) = m
        <5>1. Slow!first_zero = {m}
          BY <2>2, <3>3, <4>2, Zenon DEF Slow!first_zero, Slow!ffs
        <5>2. Slow!Min({m}) = m
          <6>1. {m} \in SUBSET Nat /\ {m} # {}
            BY <2>3
          <6>2. QED
            BY <6>1, SlowMin
        <5>3. QED
          BY <5>1, <5>2 DEF Slow!encode
      <4>4. PICK rest \in SUBSET SlowBits : rest = r \ {m}
        OBVIOUS
      <4>5. Slow!vector_w(<<>>) = rest
        BY <2>2, <2>6, <4>3, <4>4 DEF Slow!vector_w
      <4>6. PICK still \in BOOLEAN : still <=> rest # {}
        BY Zenon
      <4>7. reg' = [vector_r |-> rest, in_busy_r |-> still, resp |-> <<m>>]
        <5>1. (<<>> # <<>> \/ (reg.in_busy_r /\ Slow!vector_w(<<>>) # {})) = still
          BY <2>2, <2>6, <4>5, <4>6
        <5>2. (IF reg.in_busy_r THEN <<Slow!encode(Slow!first_zero)>> ELSE <<>>) = <<m>>
          BY <2>2, <2>6, <4>3
        <5>3. QED
          BY <3>1, <4>5, <5>1, <5>2, Zenon DEF Slow!Wait, Slow!Edge
      <4>8. tb' = [v |-> v, p |-> InOrder(r)]
        BY <2>2, <3>1, <4>1 DEF Slow!Wait
      <4>9. SlowState(rest, still, <<m>>, v, InOrder(r))'
        BY <4>7, <4>8 DEF SlowState
      <4>10. InOrder(r) = <<m>> \o InOrder(rest)
        BY <2>3, <4>2, <4>4, InOrderFrom
      <4>11. <<m>> \in Report
        BY <2>3 DEF Report
      <4>12. QED
        BY <2>3, <4>1, <4>6, <4>9, <4>10, <4>11, Zenon DEF SlowInv
    <3>4. QED
      BY <3>2, <3>3
  <2>7. QED
    BY <2>5, <2>6
<1>3. QED
  BY <1>1, <1>2 DEF Slow!vars

LEMMA SlowAnswers == SlowInv => Slow!AnswersAsExpected
<1> SUFFICES ASSUME SlowInv
             PROVE  Slow!AnswersAsExpected
  OBVIOUS
<1>1. PICK r \in SUBSET SlowBits, busy \in BOOLEAN, o \in Report, v \in SUBSET SlowBits,
           p \in Seq(Nat) :
        /\ SlowState(r, busy, o, v, p)
        /\ v = {} => r = {} /\ p = <<>> /\ (o = <<>> \/ (o = <<0>> /\ ~busy))
        /\ v # {} => p = o \o InOrder(r) /\ (busy <=> r # {})
  BY DEF SlowInv
<1>2. reg.in_busy_r = busy /\ reg.resp = o /\ tb.v = v /\ tb.p = p
  BY <1>1 DEF SlowState
<1>3. InOrder(r) \in Seq(Nat)
  BY SlowBitsAre, InOrderType
<1>4. CASE v = {}
  BY <1>2, <1>4 DEF Slow!AnswersAsExpected
<1>5. CASE v # {}
  <2>1. o # <<>> => p # <<>> /\ o[1] = Head(p)
    <3>1. p = o \o InOrder(r)
      BY <1>1, <1>5
    <3>2. QED
      BY <1>3, <3>1, Reported
  <2>2. ~busy => p = o
    <3>1. o \in Seq(Nat)
      <4>1. <<>> \in Seq(Nat) /\ \A z \in Nat : <<z>> \in Seq(Nat)
        OBVIOUS
      <4>2. QED
        BY <4>1, Zenon DEF Report
    <3>2. ~busy => p = o \o <<>>
      BY <1>1, <1>5, InOrderOfNone
    <3>3. QED
      BY <3>1, <3>2
  <2>3. QED
    BY <1>2, <1>5, <2>1, <2>2, Zenon DEF Slow!AnswersAsExpected, Slow!Validated
<1>6. QED
  BY <1>4, <1>5

-----------------------------------------------------------------------------
(* zero_indices_fast.                                                      *)

\* The position of a bit of a slice.
At(i, b) == i * ZerosV + b
Positions == 0 .. ZerosX * ZerosV - 1

LEMMA AtOrder ==
  ASSUME NEW i \in Zeros!Slice, NEW j \in Zeros!Slice, NEW b \in Zeros!Bit, NEW c \in Zeros!Bit
  PROVE  /\ At(i, b) \in Nat /\ (At(i, b) < At(j, c) <=> i < j \/ (i = j /\ b < c))
         /\ At(i, b) = At(j, c) => i = j /\ b = c
<1>1. /\ i \in Nat /\ j \in Nat /\ b \in 0 .. ZerosV - 1 /\ c \in 0 .. ZerosV - 1
      /\ ZerosV \in Nat \ {0}
  BY ScansAssumption DEF Zeros!Slice, Zeros!Bit
<1>2. PICK x \in Nat, y \in Nat : x = ZerosV * i /\ y = ZerosV * j
  BY <1>1, Rounds
<1>3. At(i, b) = x + b /\ At(j, c) = y + c
  BY <1>1, <1>2, SMT DEF At
<1>4. /\ i < j => x + ZerosV <= y
      /\ j < i => y + ZerosV <= x
      /\ i = j => x = y
  BY <1>1, <1>2, Rounds
<1>5. i < j \/ j < i \/ i = j
  BY <1>1
<1>6. QED
  BY <1>1, <1>2, <1>3, <1>4, <1>5

LEMMA AtExists ==
  ASSUME NEW u \in Positions
  PROVE  \E i \in Zeros!Slice, b \in Zeros!Bit : u = At(i, b)
<1>1. ZerosV \in Nat \ {0} /\ ZerosX \in Nat \ {0} /\ u \in Nat
  BY ScansAssumption DEF Positions
<1>2. PICK b \in 0 .. ZerosV - 1, i \in Nat : u = b + ZerosV * i
  BY <1>1, PlaceExists
<1>3. i < ZerosX
  <2>1. PICK x \in Nat, y \in Nat : x = ZerosV * i /\ y = ZerosV * ZerosX
    BY <1>1, Rounds
  <2>2. ZerosX * ZerosV = y
    BY <1>1, <2>1, SMT
  <2>3. u < y /\ u = b + x
    BY <1>1, <1>2, <2>1, <2>2 DEF Positions
  <2>4. ZerosX <= i => y <= x
    BY <1>1, <2>1, Rounds
  <2>5. QED
    BY <1>1, <2>3, <2>4
<1>4. i \in Zeros!Slice /\ b \in Zeros!Bit
  BY <1>1, <1>3 DEF Zeros!Slice, Zeros!Bit
<1>5. u = At(i, b)
  BY <1>1, <1>2, SMT DEF At
<1>6. QED
  BY <1>4, <1>5

LEMMA PositionsAre ==
  ASSUME NEW U \in SUBSET Positions
  PROVE  U \in SUBSET Nat /\ IsFiniteSet(U) /\ InOrder(U) \in Seq(Nat)
<1>1. ZerosX * ZerosV \in Nat
  BY ScansAssumption, SMT
<1>2. IsFiniteSet(Positions) /\ Positions \subseteq Nat
  BY <1>1, FirstNumbers DEF Positions
<1>3. U \in SUBSET Nat /\ IsFiniteSet(U)
  BY <1>2, FS_Subset
<1>4. QED
  BY <1>3, InOrderType

LEMMA SliceType ==
  ASSUME NEW U, NEW i
  PROVE  /\ Zeros!SliceOf(U, i) \in SUBSET Nat /\ IsFiniteSet(Zeros!SliceOf(U, i))
         /\ Zeros!SlicesOf(U) \in SUBSET Nat
<1>1. /\ IsFiniteSet(0 .. ZerosV - 1) /\ Zeros!Bit = 0 .. ZerosV - 1
      /\ Zeros!Bit \subseteq Nat /\ Zeros!Slice \subseteq Nat
  BY ScansAssumption, FirstNumbers DEF Zeros!Bit, Zeros!Slice
<1>2. Zeros!SliceOf(U, i) \subseteq Zeros!Bit /\ Zeros!SlicesOf(U) \subseteq Zeros!Slice
  BY DEF Zeros!SliceOf, Zeros!SlicesOf
<1>3. QED
  BY <1>1, <1>2, FS_Subset

LEMMA InSlice ==
  ASSUME NEW U, NEW i, NEW b
  PROVE  b \in Zeros!SliceOf(U, i) <=> b \in Zeros!Bit /\ At(i, b) \in U
  BY DEF Zeros!SliceOf, At

LEMMA ZerosMin ==
  ASSUME NEW S \in SUBSET Nat, S # {}
  PROVE  Zeros!Min(S) \in S /\ \A y \in S : Zeros!Min(S) <= y
<1>1. \E m \in S : \A y \in S : m <= y
  BY Least
<1>2. Zeros!Min(S) = CHOOSE m \in S : \A y \in S : m <= y
  BY DEF Zeros!Min
<1>3. QED
  BY <1>1, <1>2, Zenon

\* The first zero of the first slice that has one is the first zero.
LEMMA FirstZero ==
  ASSUME NEW U \in SUBSET Positions, U # {}
  PROVE  \E i \in Zeros!SlicesOf(U), b \in Zeros!Bit :
           /\ i \in Zeros!Slice /\ i = Zeros!Min(Zeros!SlicesOf(U))
           /\ b \in Zeros!SliceOf(U, i) /\ b = Zeros!Min(Zeros!SliceOf(U, i))
           /\ At(i, b) \in U /\ \A u \in U : At(i, b) <= u
<1>1. \A u \in U : \E j \in Zeros!Slice, c \in Zeros!Bit :
        u = At(j, c) /\ j \in Zeros!SlicesOf(U) /\ c \in Zeros!SliceOf(U, j)
  <2> SUFFICES ASSUME NEW u \in U
               PROVE  \E j \in Zeros!Slice, c \in Zeros!Bit :
                        u = At(j, c) /\ j \in Zeros!SlicesOf(U) /\ c \in Zeros!SliceOf(U, j)
    OBVIOUS
  <2>1. PICK j \in Zeros!Slice, c \in Zeros!Bit : u = At(j, c)
    BY AtExists
  <2>2. c \in Zeros!SliceOf(U, j)
    BY <2>1, InSlice
  <2>3. j \in Zeros!SlicesOf(U)
    BY <2>2 DEF Zeros!SlicesOf
  <2>4. QED
    BY <2>1, <2>2, <2>3
<1>2. PICK i \in Zeros!SlicesOf(U) :
        i = Zeros!Min(Zeros!SlicesOf(U)) /\ \A j \in Zeros!SlicesOf(U) : i <= j
  <2>1. Zeros!SlicesOf(U) # {} /\ Zeros!SlicesOf(U) \in SUBSET Nat
    BY <1>1, SliceType
  <2>2. QED
    BY <2>1, ZerosMin
<1>3. i \in Zeros!Slice /\ Zeros!SliceOf(U, i) # {}
  BY <1>2 DEF Zeros!SlicesOf
<1>4. PICK b \in Zeros!SliceOf(U, i) :
        b = Zeros!Min(Zeros!SliceOf(U, i)) /\ \A c \in Zeros!SliceOf(U, i) : b <= c
  BY <1>3, SliceType, ZerosMin
<1>5. b \in Zeros!Bit /\ At(i, b) \in U
  BY <1>4, InSlice
<1>6. ASSUME NEW u \in U
      PROVE  At(i, b) <= u
  <2>1. PICK j \in Zeros!Slice, c \in Zeros!Bit :
          u = At(j, c) /\ j \in Zeros!SlicesOf(U) /\ c \in Zeros!SliceOf(U, j)
    BY <1>1
  <2>2. i <= j /\ (i = j => b <= c)
    BY <1>2, <1>4, <2>1
  <2>3. i \in Nat /\ j \in Nat /\ b \in Nat /\ c \in Nat
    BY <1>3, <1>5, <2>1, ScansAssumption DEF Zeros!Slice, Zeros!Bit
  <2>4. ~(j < i \/ (j = i /\ c < b))
    BY <2>2, <2>3
  <2>5. At(i, b) \in Nat /\ At(j, c) \in Nat /\ ~(At(j, c) < At(i, b))
    BY <1>3, <1>5, <2>1, <2>4, AtOrder
  <2>6. QED
    BY <2>1, <2>5
<1>7. QED
  BY <1>2, <1>3, <1>4, <1>5, <1>6

\* What a zero that is given away leaves in the slices.
LEMMA SlicesLeft ==
  ASSUME NEW U \in SUBSET Positions, NEW i \in Zeros!Slice, NEW b \in Zeros!Bit, NEW R,
         R = U \ {At(i, b)}, At(i, b) \in U
  PROVE  /\ Zeros!SliceOf(R, i) = Zeros!SliceOf(U, i) \ {b}
         /\ \A j \in Zeros!Slice \ {i} : Zeros!SliceOf(R, j) = Zeros!SliceOf(U, j)
         /\ Zeros!is_final(Zeros!SliceOf(U, i)) => Zeros!SlicesOf(R) = Zeros!SlicesOf(U) \ {i}
         /\ ~Zeros!is_final(Zeros!SliceOf(U, i)) => Zeros!SlicesOf(R) = Zeros!SlicesOf(U)
<1>1. \A j \in Zeros!Slice, c \in Zeros!Bit : At(j, c) = At(i, b) <=> j = i /\ c = b
  BY AtOrder
<1>2. Zeros!SliceOf(R, i) = Zeros!SliceOf(U, i) \ {b}
  <2>1. \A c : c \in Zeros!SliceOf(R, i) <=> c \in Zeros!SliceOf(U, i) \ {b}
    BY <1>1, InSlice
  <2>2. QED
    BY <2>1
<1>3. ASSUME NEW j \in Zeros!Slice \ {i}
      PROVE  Zeros!SliceOf(R, j) = Zeros!SliceOf(U, j)
  <2>1. \A c : c \in Zeros!SliceOf(R, j) <=> c \in Zeros!SliceOf(U, j)
    BY <1>1, InSlice
  <2>2. QED
    BY <2>1
<1>4. b \in Zeros!SliceOf(U, i) /\ i \in Zeros!SlicesOf(U)
  <2>1. b \in Zeros!SliceOf(U, i)
    BY InSlice
  <2>2. QED
    BY <2>1 DEF Zeros!SlicesOf
<1>5. Zeros!is_final(Zeros!SliceOf(U, i)) <=> Zeros!SliceOf(R, i) = {}
  <2>1. PICK n : n = Cardinality(Zeros!SliceOf(U, i))
    OBVIOUS
  <2>2. Zeros!Cardinality(Zeros!SliceOf(U, i)) = n
    BY <2>1 DEF Zeros!Cardinality, Cardinality
  <2>3. IsFiniteSet(Zeros!SliceOf(U, i)) /\ n \in Nat
    BY <2>1, SliceType, FS_CardinalityType
  <2>4. IsFiniteSet(Zeros!SliceOf(R, i)) /\ Cardinality(Zeros!SliceOf(R, i)) = n - 1
    <3>1. PICK A : A = Zeros!SliceOf(U, i)
      OBVIOUS
    <3>2. IsFiniteSet(A \ {b}) /\ Cardinality(A \ {b}) = Cardinality(A) - 1
      BY <1>4, <2>3, <3>1, FS_RemoveElement
    <3>3. QED
      BY <1>2, <2>1, <3>1, <3>2
  <2>5. Zeros!SliceOf(R, i) = {} <=> n - 1 = 0
    BY <2>4, FS_EmptySet
  <2>6. n - 1 \in Nat
    BY <2>4, FS_CardinalityType
  <2>7. QED
    BY <2>2, <2>3, <2>5, <2>6 DEF Zeros!is_final
<1>6. \A j : j \in Zeros!SlicesOf(R) <=>
        j \in Zeros!SlicesOf(U) /\ (j = i => ~Zeros!is_final(Zeros!SliceOf(U, i)))
  BY <1>3, <1>4, <1>5, Zenon DEF Zeros!SlicesOf
<1>7. QED
  <2>1. CASE Zeros!is_final(Zeros!SliceOf(U, i))
    <3>1. Zeros!SlicesOf(R) = Zeros!SlicesOf(U) \ {i}
      BY <1>6, <2>1
    <3>2. QED
      BY <1>2, <1>3, <2>1, <3>1
  <2>2. CASE ~Zeros!is_final(Zeros!SliceOf(U, i))
    <3>1. Zeros!SlicesOf(R) = Zeros!SlicesOf(U)
      BY <1>6, <2>2
    <3>2. QED
      BY <1>2, <1>3, <2>2, <3>1
  <2>3. QED
    BY <2>1, <2>2

LEMMA NoSlices ==
  ASSUME NEW U \in SUBSET Positions
  PROVE  Zeros!SlicesOf(U) = {} <=> U = {}
<1>1. U # {} => Zeros!SlicesOf(U) # {}
  BY FirstZero
<1>2. U = {} => Zeros!SlicesOf(U) = {}
  BY InSlice DEF Zeros!SlicesOf
<1>3. QED
  BY <1>1, <1>2

\* What is left of a vector is in the engines of the slices and waited for, and
\* the selecting engine has the slices in which something is left.  An engine
\* that has something is busy, and knows if it is the last.
ZerosState(U, o) ==
  /\ reg.select.zeros = Zeros!SlicesOf(U)
  /\ \A i \in Zeros!Slice : reg.slow[i].zeros = Zeros!SliceOf(U, i)
  /\ \A i \in Zeros!SlicesOf(U) :
       reg.slow[i].busy /\ (reg.slow[i].final <=> Zeros!is_final(Zeros!SliceOf(U, i)))
  /\ U # {} => reg.select.busy /\ reg.in_busy_r
  /\ reg.select.done => U = {}
  /\ reg.resp = o /\ tb = o \o InOrder(U)

ZerosInv == \E U \in SUBSET Positions, o \in Report : ZerosState(U, o)

LEMMA ZerosInitInv == Zeros!Init => ZerosInv
<1> SUFFICES ASSUME Zeros!Init
             PROVE  ZerosInv
  OBVIOUS
<1>1. PICK off : off = [zeros |-> {}, busy |-> FALSE, done |-> FALSE, final |-> FALSE]
  OBVIOUS
<1>2. /\ reg = [select |-> off, slow |-> [i \in Zeros!Slice |-> off],
                in_busy_r |-> FALSE, resp |-> <<>>]
      /\ tb = <<>>
  BY <1>1 DEF Zeros!Init
<1>3. Zeros!SlicesOf({}) = {} /\ \A i : Zeros!SliceOf({}, i) = {}
  BY DEF Zeros!SlicesOf, Zeros!SliceOf
<1>4. /\ reg.select.zeros = {} /\ \A i \in Zeros!Slice : reg.slow[i].zeros = {}
      /\ reg.select.done = FALSE /\ reg.resp = <<>>
  BY <1>1, <1>2
<1>5. tb = <<>> \o InOrder({})
  BY <1>2, InOrderOfNone
<1>6. ZerosState({}, <<>>)
  BY <1>3, <1>4, <1>5, Zenon DEF ZerosState
<1>7. {} \in SUBSET Positions /\ <<>> \in Report
  BY DEF Report
<1>8. QED
  BY <1>6, <1>7, Zenon DEF ZerosInv

\* What an engine does.
LEMMA EngineLoaded ==
  ASSUME NEW e, NEW S, NEW en, NEW f, f = Zeros!EngineNext(e, <<S>>, en)
  PROVE  /\ f.zeros = S /\ f.busy /\ (f.final <=> Zeros!is_final(S))
         /\ f.done => S = {}
<1>1. Zeros!vector_w(e, <<S>>, en) = S
  BY DEF Zeros!vector_w
<1>2. <<S>> # <<>>
  OBVIOUS
<1>3. QED
  BY <1>1, <1>2 DEF Zeros!EngineNext

LEMMA EngineKeeps ==
  ASSUME NEW e, NEW f, f = Zeros!EngineNext(e, <<>>, FALSE)
  PROVE  /\ f.zeros = e.zeros /\ f.busy = e.busy
         /\ e.busy /\ e.zeros # {} => (f.final <=> Zeros!is_final(e.zeros))
         /\ f.done => e.zeros = {}
<1>1. Zeros!vector_w(e, <<>>, FALSE) = e.zeros
  BY DEF Zeros!vector_w
<1>2. QED
  BY <1>1 DEF Zeros!EngineNext

LEMMA EngineGives ==
  ASSUME NEW e, NEW b, NEW f, f = Zeros!EngineNext(e, <<>>, TRUE), e.busy,
         e.zeros # {}, b = Zeros!Min(e.zeros)
  PROVE  /\ f.zeros = e.zeros \ {b} /\ (f.zeros # {} => f.busy)
         /\ f.zeros # {} => (f.final <=> Zeros!is_final(f.zeros))
         /\ f.done => f.zeros = {}
<1>1. Zeros!vector_w(e, <<>>, TRUE) = e.zeros \ {b}
  BY DEF Zeros!vector_w, Zeros!resp_index
<1>2. QED
  BY <1>1 DEF Zeros!EngineNext

LEMMA ZerosStart ==
  ASSUME NEW U \in SUBSET Positions, Zeros!Edge(<<U>>), reg'.resp = <<>>, tb' = InOrder(U)
  PROVE  ZerosInv'
<1>1. PICK en1 : reg'.select = Zeros!EngineNext(reg.select, <<Zeros!SlicesOf(U)>>, en1)
  <2>1. reg'.select = Zeros!EngineNext(reg.select, <<Zeros!SlicesOf(U)>>, <<U>> # <<>> \/ Zeros!select_en)
    BY DEF Zeros!Edge, Zeros!select
  <2>2. QED
    BY <2>1
<1>2. \A i \in Zeros!Slice :
        reg'.slow[i] = Zeros!EngineNext(reg.slow[i], <<Zeros!SliceOf(U, i)>>, Zeros!slow_en(i))
  BY DEF Zeros!Edge
<1>3. reg'.in_busy_r = TRUE
  BY DEF Zeros!Edge
<1>4. /\ reg'.select.zeros = Zeros!SlicesOf(U) /\ reg'.select.busy
      /\ reg'.select.done => Zeros!SlicesOf(U) = {}
  BY <1>1, EngineLoaded
<1>5. \A i \in Zeros!Slice :
        /\ reg'.slow[i].zeros = Zeros!SliceOf(U, i) /\ reg'.slow[i].busy
        /\ reg'.slow[i].final <=> Zeros!is_final(Zeros!SliceOf(U, i))
  <2>1. SUFFICES ASSUME NEW i \in Zeros!Slice
                 PROVE  /\ reg'.slow[i].zeros = Zeros!SliceOf(U, i) /\ reg'.slow[i].busy
                        /\ reg'.slow[i].final <=> Zeros!is_final(Zeros!SliceOf(U, i))
    OBVIOUS
  <2>2. PICK e, f, en, S : /\ e = reg.slow[i] /\ f = reg'.slow[i] /\ en = Zeros!slow_en(i)
                           /\ S = Zeros!SliceOf(U, i)
    OBVIOUS
  <2>3. f = Zeros!EngineNext(e, <<S>>, en)
    BY <1>2, <2>2
  <2>4. f.zeros = S /\ f.busy /\ (f.final <=> Zeros!is_final(S))
    BY ONLY <2>3, EngineLoaded
  <2>5. QED
    BY <2>2, <2>4
<1>6. Zeros!SlicesOf(U) = {} => U = {}
  BY NoSlices
<1>7. \A i \in Zeros!SlicesOf(U) : i \in Zeros!Slice
  BY DEF Zeros!SlicesOf
<1>8. tb' = <<>> \o InOrder(U) /\ <<>> \in Report
  BY PositionsAre DEF Report
<1>9. ZerosState(U, <<>>)'
  BY <1>3, <1>4, <1>5, <1>6, <1>7, <1>8, Zenon DEF ZerosState
<1>10. QED
  BY <1>8, <1>9, Zenon DEF ZerosInv

\* A cycle in which nothing is started, first with nothing left.
LEMMA ZerosRest ==
  ASSUME NEW o, ZerosState({}, o), Zeros!Edge(<<>>), tb' = <<>>
  PROVE  ZerosInv'
<1>1. {} \in SUBSET Positions /\ <<>> \in Report
  BY DEF Report
<1>2. Zeros!SlicesOf({}) = {} /\ \A i : Zeros!SliceOf({}, i) = {}
  BY DEF Zeros!SlicesOf, Zeros!SliceOf
<1>3. reg.select.zeros = {} /\ \A i \in Zeros!Slice : reg.slow[i].zeros = {}
  BY <1>2, Zenon DEF ZerosState
<1>4. ~Zeros!resp_valid(reg.select)
  BY <1>3 DEF Zeros!resp_valid
<1>5. ~Zeros!select_en /\ \A i : ~Zeros!slow_en(i)
  BY <1>4, Zenon DEF Zeros!select_en, Zeros!slow_en, Zeros!select
<1>6. reg'.select = Zeros!EngineNext(reg.select, <<>>, FALSE)
  <2>1. reg'.select = Zeros!EngineNext(reg.select, <<>>, <<>> # <<>> \/ Zeros!select_en)
    BY DEF Zeros!Edge, Zeros!select
  <2>2. (<<>> # <<>> \/ Zeros!select_en) = FALSE
    BY <1>5, Zenon
  <2>3. QED
    BY <2>1, <2>2, Zenon
<1>7. \A i \in Zeros!Slice : reg'.slow[i] = Zeros!EngineNext(reg.slow[i], <<>>, FALSE)
  <2>1. \A i \in Zeros!Slice :
          reg'.slow[i] = Zeros!EngineNext(reg.slow[i], <<>>, Zeros!slow_en(i))
    BY DEF Zeros!Edge
  <2>2. \A i : Zeros!slow_en(i) = FALSE
    BY <1>5, Zenon DEF Zeros!slow_en
  <2>3. QED
    BY <2>1, <2>2, Zenon
<1>8. reg'.resp = <<>>
  <2>1. reg'.resp = IF Zeros!resp_valid(reg.select) /\ Zeros!resp_valid(reg.slow[Zeros!selected])
                    THEN <<Zeros!selected * ZerosV + Zeros!resp_index(reg.slow[Zeros!selected])>>
                    ELSE <<>>
    BY Zenon DEF Zeros!Edge, Zeros!select
  <2>2. QED
    BY <1>4, <2>1, Zenon
<1>9. reg'.select.zeros = {} /\ \A i \in Zeros!Slice : reg'.slow[i].zeros = {}
  <2>1. \A e : Zeros!EngineNext(e, <<>>, FALSE).zeros = e.zeros
    BY EngineKeeps
  <2>2. QED
    BY <1>3, <1>6, <1>7, <2>1
<1>10. tb' = <<>> \o InOrder({})
  BY InOrderOfNone
<1>11. ZerosState({}, <<>>)'
  BY <1>2, <1>8, <1>9, <1>10, Zenon DEF ZerosState
<1>12. QED
  BY <1>1, <1>11, Zenon DEF ZerosInv

\* Then with something left, of which the first is given away.
LEMMA ZerosGive ==
  ASSUME NEW U \in SUBSET Positions, U # {}, NEW o, ZerosState(U, o), Zeros!Edge(<<>>),
         tb' = InOrder(U)
  PROVE  ZerosInv'
<1>1. PICK i \in Zeros!SlicesOf(U), b \in Zeros!Bit :
        /\ i \in Zeros!Slice /\ i = Zeros!Min(Zeros!SlicesOf(U))
        /\ b \in Zeros!SliceOf(U, i) /\ b = Zeros!Min(Zeros!SliceOf(U, i))
        /\ At(i, b) \in U /\ \A u \in U : At(i, b) <= u
  BY FirstZero
<1>2. PICK R \in SUBSET Positions : R = U \ {At(i, b)}
  OBVIOUS
<1>3. /\ Zeros!SliceOf(R, i) = Zeros!SliceOf(U, i) \ {b}
      /\ \A j \in Zeros!Slice \ {i} : Zeros!SliceOf(R, j) = Zeros!SliceOf(U, j)
      /\ Zeros!is_final(Zeros!SliceOf(U, i)) => Zeros!SlicesOf(R) = Zeros!SlicesOf(U) \ {i}
      /\ ~Zeros!is_final(Zeros!SliceOf(U, i)) => Zeros!SlicesOf(R) = Zeros!SlicesOf(U)
  <2>1. i \in Zeros!Slice /\ At(i, b) \in U
    BY <1>1
  <2>2. QED
    BY ONLY <1>2, <2>1, b \in Zeros!Bit, U \in SUBSET Positions, SlicesLeft
<1>4. /\ reg.select.zeros = Zeros!SlicesOf(U) /\ reg.select.zeros # {} /\ reg.select.busy
      /\ \A j \in Zeros!Slice : reg.slow[j].zeros = Zeros!SliceOf(U, j)
      /\ \A j \in Zeros!SlicesOf(U) :
           reg.slow[j].busy /\ (reg.slow[j].final <=> Zeros!is_final(Zeros!SliceOf(U, j)))
      /\ reg.in_busy_r /\ ~reg.select.done
  BY <1>1, Zenon DEF ZerosState
<1>5. Zeros!resp_valid(reg.select) /\ Zeros!selected = i
  BY <1>1, <1>4, Zenon DEF Zeros!resp_valid, Zeros!selected, Zeros!resp_index, Zeros!select
<1>6. Zeros!select_en <=> Zeros!is_final(Zeros!SliceOf(U, i))
  BY <1>1, <1>4, <1>5, Zenon DEF Zeros!select_en, Zeros!select
<1>7. \A j : Zeros!slow_en(j) <=> j = i
  BY <1>5, Zenon DEF Zeros!slow_en, Zeros!select
<1>8. /\ reg'.select.zeros = Zeros!SlicesOf(R)
      /\ Zeros!SlicesOf(R) # {} => reg'.select.busy
      /\ reg'.select.done => Zeros!SlicesOf(R) = {}
  <2>1. reg'.select = Zeros!EngineNext(reg.select, <<>>, <<>> # <<>> \/ Zeros!select_en)
    BY DEF Zeros!Edge, Zeros!select
  <2>2. CASE Zeros!is_final(Zeros!SliceOf(U, i))
    <3>1. (<<>> # <<>> \/ Zeros!select_en) = TRUE
      BY <1>6, <2>2, Zenon
    <3>2. reg'.select = Zeros!EngineNext(reg.select, <<>>, TRUE)
      BY <2>1, <3>1, Zenon
    <3>3. i = Zeros!Min(reg.select.zeros)
      BY <1>1, <1>4, Zenon
    <3>4. /\ reg'.select.zeros = reg.select.zeros \ {i}
          /\ reg'.select.zeros # {} => reg'.select.busy
          /\ reg'.select.done => reg'.select.zeros = {}
      <4>1. PICK e, f : e = reg.select /\ f = reg'.select
        OBVIOUS
      <4>2. f = Zeros!EngineNext(e, <<>>, TRUE) /\ e.busy /\ e.zeros # {} /\ i = Zeros!Min(e.zeros)
        BY <1>4, <3>2, <3>3, <4>1
      <4>3. f.zeros = e.zeros \ {i} /\ (f.zeros # {} => f.busy) /\ (f.done => f.zeros = {})
        BY <4>2, EngineGives
      <4>4. QED
        BY <4>1, <4>3
    <3>5. QED
      BY <1>3, <1>4, <2>2, <3>4
  <2>3. CASE ~Zeros!is_final(Zeros!SliceOf(U, i))
    <3>1. (<<>> # <<>> \/ Zeros!select_en) = FALSE
      BY <1>6, <2>3, Zenon
    <3>2. reg'.select = Zeros!EngineNext(reg.select, <<>>, FALSE)
      BY <2>1, <3>1, Zenon
    <3>3. /\ reg'.select.zeros = reg.select.zeros
          /\ reg'.select.busy = reg.select.busy
          /\ reg'.select.done => reg.select.zeros = {}
      BY <3>2, EngineKeeps, Zenon
    <3>4. QED
      BY <1>3, <1>4, <2>3, <3>3
  <2>4. QED
    BY <2>2, <2>3
<1>9. ASSUME NEW j \in Zeros!Slice
      PROVE  /\ reg'.slow[j].zeros = Zeros!SliceOf(R, j)
             /\ j \in Zeros!SlicesOf(R) =>
                  /\ reg'.slow[j].busy
                  /\ reg'.slow[j].final <=> Zeros!is_final(Zeros!SliceOf(R, j))
  <2>1. reg'.slow[j] = Zeros!EngineNext(reg.slow[j], <<>>, Zeros!slow_en(j))
    BY DEF Zeros!Edge
  <2>2. j \in Zeros!SlicesOf(R) => j \in Zeros!SlicesOf(U) /\ Zeros!SliceOf(R, j) # {}
    BY <1>3 DEF Zeros!SlicesOf
  <2>3. CASE j = i
    <3>1. Zeros!slow_en(j) = TRUE
      BY <1>7, <2>3, Zenon DEF Zeros!slow_en
    <3>2. reg'.slow[j] = Zeros!EngineNext(reg.slow[j], <<>>, TRUE)
      BY <2>1, <3>1, Zenon
    <3>3. reg.slow[j].busy /\ reg.slow[j].zeros = Zeros!SliceOf(U, i)
      BY <1>1, <1>4, <2>3
    <3>4. reg.slow[j].zeros # {} /\ b = Zeros!Min(reg.slow[j].zeros)
      BY <1>1, <3>3
    <3>5. /\ reg'.slow[j].zeros = reg.slow[j].zeros \ {b}
          /\ reg'.slow[j].zeros # {} => reg'.slow[j].busy
          /\ reg'.slow[j].zeros # {} => (reg'.slow[j].final <=> Zeros!is_final(reg'.slow[j].zeros))
      <4>1. PICK e, f : e = reg.slow[j] /\ f = reg'.slow[j]
        OBVIOUS
      <4>2. f = Zeros!EngineNext(e, <<>>, TRUE) /\ e.busy /\ e.zeros # {} /\ b = Zeros!Min(e.zeros)
        BY <3>2, <3>3, <3>4, <4>1
      <4>3. /\ f.zeros = e.zeros \ {b} /\ (f.zeros # {} => f.busy)
            /\ f.zeros # {} => (f.final <=> Zeros!is_final(f.zeros))
        BY <4>2, EngineGives
      <4>4. QED
        BY <4>1, <4>3
    <3>6. reg'.slow[j].zeros = Zeros!SliceOf(R, j)
      BY <1>3, <2>3, <3>3, <3>5
    <3>7. QED
      BY <2>2, <3>5, <3>6, Zenon
  <2>4. CASE j # i
    <3>1. Zeros!slow_en(j) = FALSE
      BY <1>7, <2>4, Zenon DEF Zeros!slow_en
    <3>2. reg'.slow[j] = Zeros!EngineNext(reg.slow[j], <<>>, FALSE)
      BY <2>1, <3>1, Zenon
    <3>3. /\ reg'.slow[j].zeros = reg.slow[j].zeros
          /\ reg'.slow[j].busy = reg.slow[j].busy
          /\ reg.slow[j].busy /\ reg.slow[j].zeros # {} =>
               (reg'.slow[j].final <=> Zeros!is_final(reg.slow[j].zeros))
      BY <3>2, EngineKeeps, Zenon
    <3>4. reg.slow[j].zeros = Zeros!SliceOf(R, j)
      BY <1>3, <1>4, <2>4
    <3>5. j \in Zeros!SlicesOf(R) => reg.slow[j].busy /\ reg.slow[j].zeros # {}
      BY <1>4, <2>2, <3>4
    <3>6. QED
      BY <3>3, <3>4, <3>5, Zenon
  <2>5. QED
    BY <2>3, <2>4
<1>10. reg'.in_busy_r
  <2>1. reg'.in_busy_r = (<<>> # <<>> \/ (reg.in_busy_r /\ ~reg.select.done))
    BY Zenon DEF Zeros!Edge, Zeros!select
  <2>2. QED
    BY <1>4, <2>1, Zenon
<1>11. reg'.resp = <<At(i, b)>>
  <2>1. reg'.resp = IF Zeros!resp_valid(reg.select) /\ Zeros!resp_valid(reg.slow[Zeros!selected])
                    THEN <<Zeros!selected * ZerosV + Zeros!resp_index(reg.slow[Zeros!selected])>>
                    ELSE <<>>
    BY Zenon DEF Zeros!Edge, Zeros!select
  <2>2. reg.slow[i].busy /\ reg.slow[i].zeros = Zeros!SliceOf(U, i) /\ Zeros!SliceOf(U, i) # {}
    BY <1>1, <1>4
  <2>3. Zeros!resp_valid(reg.slow[i]) /\ Zeros!resp_index(reg.slow[i]) = b
    BY <1>1, <2>2, Zenon DEF Zeros!resp_valid, Zeros!resp_index
  <2>4. QED
    BY <1>5, <2>1, <2>3, Zenon DEF At
<1>12. tb' = <<At(i, b)>> \o InOrder(R)
  <2>1. U \in SUBSET Nat /\ IsFiniteSet(U)
    BY PositionsAre
  <2>2. QED
    BY <1>1, <1>2, <2>1, InOrderFrom
<1>13. <<At(i, b)>> \in Report
  BY <1>1, PositionsAre DEF Report
<1>14. Zeros!SlicesOf(R) = {} <=> R = {}
  BY NoSlices
<1>15. \A j \in Zeros!SlicesOf(R) : j \in Zeros!Slice
  BY DEF Zeros!SlicesOf
<1>16. ZerosState(R, <<At(i, b)>>)'
  BY <1>8, <1>9, <1>10, <1>11, <1>12, <1>14, <1>15, Zenon DEF ZerosState
<1>17. QED
  BY <1>13, <1>16, Zenon DEF ZerosInv

LEMMA ZerosStepInv ==
  ASSUME ZerosInv, Zeros!Next
  PROVE  ZerosInv'
<1>1. PICK U \in SUBSET Positions, o \in Report : ZerosState(U, o)
  BY DEF ZerosInv
<1>2. reg.resp = o /\ tb = o \o InOrder(U)
  BY <1>1 DEF ZerosState
<1>3. (IF reg.resp # <<>> /\ tb # <<>> THEN Tail(tb) ELSE tb) = InOrder(U)
  <2>1. InOrder(U) \in Seq(Nat)
    BY PositionsAre
  <2>2. QED
    BY <1>2, <2>1, Reported
<1>4. PICK start \in {<<>>} \cup
        (IF reg.in_busy_r THEN {} ELSE {<<z>> : z \in SUBSET Positions}) :
          Zeros!Edge(start) /\ Zeros!Score(start)
  BY Zenon DEF Zeros!Next, Zeros!Clock, Positions
<1>5. CASE start = <<>>
  <2>1. tb' = InOrder(U)
    <3>1. tb' = InOrder(U) \o <<>>
      BY <1>3, <1>4, <1>5, Zenon DEF Zeros!Score
    <3>2. QED
      BY <3>1, PositionsAre
  <2>2. CASE U = {}
    BY <1>1, <1>4, <1>5, <2>1, <2>2, ZerosRest, InOrderOfNone
  <2>3. CASE U # {}
    BY <1>1, <1>4, <1>5, <2>1, <2>3, ZerosGive
  <2>4. QED
    BY <2>2, <2>3
<1>6. CASE start # <<>>
  <2>1. PICK z \in SUBSET Positions : start = <<z>>
    BY <1>4, <1>6
  <2>2. ~reg.in_busy_r
    BY <1>4, <1>6
  <2>3. U = {}
    BY <1>1, <2>2 DEF ZerosState
  <2>4. tb' = InOrder(z)
    <3>1. Zeros!InOrder(z) = InOrder(z)
      BY DEF Zeros!InOrder, InOrder, Rank, Under, Zeros!Cardinality, Cardinality
    <3>2. tb' = InOrder(U) \o Zeros!InOrder(z)
      <4>1. start # <<>> /\ start[1] = z
        BY <2>1
      <4>2. QED
        BY <1>3, <1>4, <4>1, Zenon DEF Zeros!Score
    <3>3. InOrder(z) \in Seq(Nat)
      BY PositionsAre
    <3>4. QED
      BY <2>3, <3>1, <3>2, <3>3, InOrderOfNone
  <2>5. reg'.resp = <<>>
    <3>1. reg'.resp = IF Zeros!resp_valid(reg.select) /\ Zeros!resp_valid(reg.slow[Zeros!selected])
                      THEN <<Zeros!selected * ZerosV + Zeros!resp_index(reg.slow[Zeros!selected])>>
                      ELSE <<>>
      BY <1>4, Zenon DEF Zeros!Edge, Zeros!select
    <3>2. reg.select.zeros = {}
      BY <1>1, <2>3, NoSlices DEF ZerosState
    <3>3. QED
      BY <3>1, <3>2, Zenon DEF Zeros!resp_valid
  <2>6. QED
    BY <1>4, <2>1, <2>4, <2>5, ZerosStart
<1>7. QED
  BY <1>5, <1>6

LEMMA ZerosNextInv ==
  ASSUME ZerosInv, [Zeros!Next]_(Zeros!vars)
  PROVE  ZerosInv'
<1>1. CASE UNCHANGED <<reg, tb>>
  <2>1. PICK U \in SUBSET Positions, o \in Report : ZerosState(U, o)
    BY DEF ZerosInv
  <2>2. reg' = reg /\ tb' = tb
    BY <1>1
  <2>3. ZerosState(U, o)'
    BY <2>1, <2>2 DEF ZerosState
  <2>4. QED
    BY <2>3, Zenon DEF ZerosInv
<1>2. CASE Zeros!Next
  BY <1>2, ZerosStepInv
<1>3. QED
  BY <1>1, <1>2 DEF Zeros!vars

LEMMA ZerosAnswers == ZerosInv => Zeros!AnswersAsExpected
<1> SUFFICES ASSUME ZerosInv
             PROVE  Zeros!AnswersAsExpected
  OBVIOUS
<1>1. PICK U \in SUBSET Positions, o \in Report : ZerosState(U, o)
  BY DEF ZerosInv
<1>2. reg.resp = o /\ tb = o \o InOrder(U) /\ (~reg.in_busy_r => U = {})
  BY <1>1 DEF ZerosState
<1>3. InOrder(U) \in Seq(Nat) /\ o \in Seq(Nat)
  <2>1. o \in Seq(Nat)
    <3>1. <<>> \in Seq(Nat) /\ \A z \in Nat : <<z>> \in Seq(Nat)
      OBVIOUS
    <3>2. QED
      BY <3>1, Zenon DEF Report
  <2>2. QED
    BY <2>1, PositionsAre
<1>4. o # <<>> => tb # <<>> /\ o[1] = Head(tb)
  BY <1>2, <1>3, Reported
<1>5. ~reg.in_busy_r => tb = o
  <2>1. ~reg.in_busy_r => tb = o \o <<>>
    BY <1>2, InOrderOfNone
  <2>2. o \o <<>> = o
    BY <1>3
  <2>3. QED
    BY <2>1, <2>2, Zenon
<1>6. QED
  BY <1>2, <1>4, <1>5, Zenon DEF Zeros!AnswersAsExpected

-----------------------------------------------------------------------------
(* missing_duplicated_word.                                                *)

\* Of the first n words of a table, those that are w; whether they are in pairs
\* but for one; and the words of which that is so, if the vector has a bit for
\* them.
Copies(d, w, n) == {i \in 0 .. n - 1 : d[i] = w}
Odd(d, w, n) == Cardinality(Copies(d, w, n)) % 2 = 1
Lonely(d, n) == {w \in Nat : ~(w >= WordW ^ 2) /\ Odd(d, w, n)}

\* A table as b_configure_state makes it up.
OneLonely(d, non_duplicated) ==
  /\ Word!Count(d, non_duplicated) = 1
  /\ \A w \in TableWords \ {non_duplicated} : Word!Count(d, w) % 2 = 0

LEMMA TwoParities ==
  ASSUME NEW n \in Nat
  PROVE  (n + 1) % 2 = 1 <=> ~(n % 2 = 1)
  OBVIOUS

LEMMA OddStep ==
  ASSUME NEW d, NEW w, NEW n \in Nat
  PROVE  Odd(d, w, n + 1) <=> IF d[n] = w THEN ~Odd(d, w, n) ELSE Odd(d, w, n)
<1>1. n \notin 0 .. n - 1 /\ \A i : i \in 0 .. n + 1 - 1 <=> i \in 0 .. n - 1 \/ i = n
  OBVIOUS
<1>2. IsFiniteSet(Copies(d, w, n)) /\ Cardinality(Copies(d, w, n)) \in Nat
  <2>1. IsFiniteSet(0 .. n - 1)
    BY FirstNumbers
  <2>2. IsFiniteSet(Copies(d, w, n))
    BY <2>1, FS_Subset DEF Copies
  <2>3. QED
    BY <2>2, FS_CardinalityType
<1>3. CASE d[n] = w
  <2>1. Copies(d, w, n + 1) = Copies(d, w, n) \cup {n} /\ n \notin Copies(d, w, n)
    <3>1. \A i : i \in Copies(d, w, n + 1) <=> i \in Copies(d, w, n) \/ i = n
      BY <1>1, <1>3 DEF Copies
    <3>2. n \notin Copies(d, w, n)
      BY <1>1 DEF Copies
    <3>3. QED
      BY <3>1, <3>2
  <2>2. Cardinality(Copies(d, w, n + 1)) = Cardinality(Copies(d, w, n)) + 1
    BY <1>2, <2>1, FS_AddElement
  <2>3. QED
    BY <1>2, <1>3, <2>2, TwoParities DEF Odd
<1>4. CASE d[n] # w
  <2>1. Copies(d, w, n + 1) = Copies(d, w, n)
    <3>1. \A i : i \in Copies(d, w, n + 1) <=> i \in Copies(d, w, n)
      BY <1>1, <1>4 DEF Copies
    <3>2. QED
      BY <3>1
  <2>2. QED
    BY <1>4, <2>1 DEF Odd
<1>5. QED
  BY <1>3, <1>4

\* A word that is read turns its bit.
LEMMA FlipStep ==
  ASSUME NEW d, NEW n \in Nat, d[n] \in Nat
  PROVE  Word!Flip(Lonely(d, n), d[n]) = Lonely(d, n + 1)
<1>1. \A w \in Nat : Odd(d, w, n + 1) <=> IF d[n] = w THEN ~Odd(d, w, n) ELSE Odd(d, w, n)
  BY OddStep
<1>2. CASE d[n] >= WordW ^ 2
  <2>1. Word!Flip(Lonely(d, n), d[n]) = Lonely(d, n)
    BY <1>2, Zenon DEF Word!Flip
  <2>2. \A w \in Nat : ~(w >= WordW ^ 2) => (Odd(d, w, n + 1) <=> Odd(d, w, n))
    BY <1>1, <1>2, Zenon
  <2>3. QED
    BY <2>1, <2>2, Zenon DEF Lonely
<1>3. CASE ~(d[n] >= WordW ^ 2) /\ d[n] \in Lonely(d, n)
  <2>1. Word!Flip(Lonely(d, n), d[n]) = Lonely(d, n) \ {d[n]}
    BY <1>3, Zenon DEF Word!Flip
  <2>2. \A w : w \in Lonely(d, n + 1) <=> w \in Lonely(d, n) /\ w # d[n]
    BY <1>1, <1>3, Zenon DEF Lonely
  <2>3. QED
    BY <2>1, <2>2, Zenon
<1>4. CASE ~(d[n] >= WordW ^ 2) /\ d[n] \notin Lonely(d, n)
  <2>1. Word!Flip(Lonely(d, n), d[n]) = Lonely(d, n) \cup {d[n]}
    BY <1>4, Zenon DEF Word!Flip
  <2>2. \A w : w \in Lonely(d, n + 1) <=> w \in Lonely(d, n) \/ w = d[n]
    BY <1>1, <1>4, Zenon DEF Lonely
  <2>3. QED
    BY <2>1, <2>2, Zenon
<1>5. QED
  BY <1>2, <1>3, <1>4

LEMMA LonelyAtFirst ==
  ASSUME NEW d
  PROVE  Lonely(d, 0) = {}
<1>1. ASSUME NEW w
      PROVE  ~Odd(d, w, 0)
  <2>1. Copies(d, w, 0) = {}
    BY DEF Copies
  <2>2. Cardinality(Copies(d, w, 0)) = 0 /\ 0 % 2 = 0
    BY <2>1, FS_EmptySet
  <2>3. QED
    BY <2>2 DEF Odd
<1>2. QED
  BY <1>1, Zenon DEF Lonely

\* In the whole table, only one word is.
LEMMA LonelyAtLast ==
  ASSUME NEW d \in [Word!Id -> TableWords], NEW x \in TableWords, OneLonely(d, x)
  PROVE  Lonely(d, WordN) = IF x >= WordW ^ 2 THEN {} ELSE {x}
<1>1. Word!Id = 0 .. WordN - 1
  BY DEF Word!Id
<1>2. ASSUME NEW w
      PROVE  Word!Count(d, w) = Cardinality(Copies(d, w, WordN))
  BY <1>1, Zenon DEF Word!Count, Copies, Word!Cardinality, Cardinality
<1>3. Odd(d, x, WordN)
  <2>1. 1 % 2 = 1
    OBVIOUS
  <2>2. Cardinality(Copies(d, x, WordN)) = 1
    BY <1>2 DEF OneLonely
  <2>3. QED
    BY <2>1, <2>2, Zenon DEF Odd
<1>4. ASSUME NEW w \in TableWords, w # x
      PROVE  ~Odd(d, w, WordN)
  <2>1. Cardinality(Copies(d, w, WordN)) % 2 = 0
    BY <1>2, <1>4, Zenon DEF OneLonely
  <2>2. QED
    BY <2>1 DEF Odd
<1>5. ASSUME NEW w, w \notin TableWords
      PROVE  ~Odd(d, w, WordN)
  <2>1. Copies(d, w, WordN) = {}
    BY <1>1, <1>5, Zenon DEF Copies
  <2>2. Cardinality(Copies(d, w, WordN)) = 0 /\ 0 % 2 = 0
    BY <2>1, FS_EmptySet
  <2>3. QED
    BY <2>2 DEF Odd
<1>6. x \in Nat
  BY ScansAssumption
<1>7. QED
  BY <1>3, <1>4, <1>5, <1>6, Zenon DEF Lonely

\* What is left is the answer.
LEMMA WordMin ==
  ASSUME NEW x \in Nat
  PROVE  Word!Min({x}) = x
<1>1. Word!Min({x}) = CHOOSE m \in {x} : \A y \in {x} : m <= y
  BY DEF Word!Min
<1>2. x <= x
  OBVIOUS
<1>3. QED
  BY <1>1, <1>2, Zenon

\* What a scan answers: 0 if the vector has no bit for the lonely word.
WordAnswered ==
  tb.i = WordN + 1 /\ ~reg.cntrl_busy_r =>
    reg.cntrl_dat_r = IF tb.non_duplicated >= WordW ^ 2 THEN 0 ELSE tb.non_duplicated

\* The table is in the SRAM as far as it was written.  During a scan the vector
\* has the words that are lonely among those read, and after it the answer is
\* that of the whole table.
WordInv ==
  /\ reg.state_r \in [Word!Id -> Nat]
  /\ tb \in [d : [Word!Id -> TableWords], non_duplicated : TableWords, i : 0 .. WordN + 1]
  /\ OneLonely(tb.d, tb.non_duplicated)
  /\ \A j \in Word!Id : j < tb.i => reg.state_r[j] = tb.d[j]
  /\ reg.cntrl_busy_r \in BOOLEAN
  /\ reg.cntrl_busy_r =>
       /\ tb.i = WordN + 1 /\ reg.rd_ptr_r \in Word!Id
       /\ reg.set_vector_r = Lonely(tb.d, reg.rd_ptr_r)
  /\ WordAnswered

LEMMA WordInitInv == Word!Init => WordInv
<1> SUFFICES ASSUME Word!Init
             PROVE  WordInv
  OBVIOUS
<1>1. PICK d \in [Word!Id -> TableWords], x \in TableWords :
        /\ OneLonely(d, x)
        /\ reg = [state_r |-> [i \in Word!Id |-> 0], set_vector_r |-> {}, rd_ptr_r |-> 0,
                  cntrl_busy_r |-> FALSE, cntrl_dat_r |-> 0]
        /\ tb = [d |-> d, non_duplicated |-> x, i |-> 0]
  BY Zenon DEF Word!Init, OneLonely
<1>2. reg.cntrl_busy_r = FALSE /\ reg.state_r \in [Word!Id -> Nat]
  BY <1>1
<1>3. tb.d = d /\ tb.non_duplicated = x /\ tb.i = 0
  BY <1>1
<1>4. WordN \in Nat \ {0}
  BY ScansAssumption
<1>5. tb \in [d : [Word!Id -> TableWords], non_duplicated : TableWords, i : 0 .. WordN + 1]
  BY <1>1, <1>4
<1>6. \A j \in Word!Id : ~(j < tb.i)
  BY <1>3 DEF Word!Id
<1>7. WordAnswered
  BY <1>3, <1>4 DEF WordAnswered
<1>8. QED
  BY <1>1, <1>2, <1>3, <1>5, <1>6, <1>7, Zenon DEF WordInv

LEMMA WordNextInv ==
  ASSUME WordInv, [Word!Next]_(Word!vars)
  PROVE  WordInv'
<1>1. CASE UNCHANGED <<reg, tb>>
  BY <1>1 DEF WordInv, WordAnswered
<1>2. CASE Word!Next
  <2>1. PICK d \in [Word!Id -> TableWords], x \in TableWords, i \in 0 .. WordN + 1 :
          tb = [d |-> d, non_duplicated |-> x, i |-> i]
    BY DEF WordInv
  <2>2. tb.d = d /\ tb.non_duplicated = x /\ tb.i = i
    BY <2>1
  <2>3. /\ reg.state_r \in [Word!Id -> Nat] /\ OneLonely(d, x)
        /\ \A j \in Word!Id : j < i => reg.state_r[j] = d[j]
        /\ reg.cntrl_busy_r \in BOOLEAN
        /\ reg.cntrl_busy_r =>
             /\ i = WordN + 1 /\ reg.rd_ptr_r \in Word!Id
             /\ reg.set_vector_r = Lonely(d, reg.rd_ptr_r)
        /\ i = WordN + 1 /\ ~reg.cntrl_busy_r =>
             reg.cntrl_dat_r = IF x >= WordW ^ 2 THEN 0 ELSE x
    BY <2>2, Zenon DEF WordInv, WordAnswered
  <2>4. Word!Id = 0 .. WordN - 1 /\ WordN \in Nat \ {0}
    BY ScansAssumption DEF Word!Id
  <2>5. \A j \in Word!Id : d[j] \in Nat
    BY ScansAssumption
  <2>6. CASE Word!b_configure_state
    <3>1. /\ i < WordN /\ Word!Edge(FALSE, [reg.state_r EXCEPT ![i] = d[i]])
          /\ tb' = [d |-> d, non_duplicated |-> x, i |-> i + 1]
      BY <2>1, <2>2, <2>6 DEF Word!b_configure_state
    <3>2. i \in Word!Id /\ i + 1 \in 0 .. WordN + 1 /\ i + 1 # WordN + 1 /\ i # WordN + 1
      BY <2>4, <3>1
    <3>3. reg.cntrl_busy_r = FALSE
      BY <2>3, <3>2
    <3>4. /\ reg'.state_r = [reg.state_r EXCEPT ![i] = d[i]]
          /\ reg'.cntrl_busy_r = FALSE
      <4>1. /\ reg'.state_r = [reg.state_r EXCEPT ![i] = d[i]]
            /\ reg'.cntrl_busy_r = Word!cntrl_busy_w(FALSE)
        BY <3>1 DEF Word!Edge
      <4>2. Word!cntrl_busy_w(FALSE) = FALSE
        BY <3>3 DEF Word!cntrl_busy_w
      <4>3. QED
        BY <4>1, <4>2
    <3>5. reg'.state_r \in [Word!Id -> Nat]
      BY <2>3, <2>5, <3>2, <3>4
    <3>6. \A j \in Word!Id : j < i + 1 => reg'.state_r[j] = d[j]
      <4>1. ASSUME NEW j \in Word!Id, j < i + 1
            PROVE  j = i \/ j < i
        BY <2>4, <4>1
      <4>2. \A j \in Word!Id : reg'.state_r[j] = IF j = i THEN d[i] ELSE reg.state_r[j]
        BY <2>3, <3>4
      <4>3. QED
        BY <2>3, <4>1, <4>2
    <3>7. /\ tb'.d = d /\ tb'.non_duplicated = x /\ tb'.i = i + 1
          /\ tb' \in [d : [Word!Id -> TableWords], non_duplicated : TableWords, i : 0 .. WordN + 1]
      BY <3>1, <3>2
    <3>8. reg'.cntrl_busy_r \in BOOLEAN
      BY <3>4
    <3>9. QED
      BY <2>3, <3>2, <3>4, <3>5, <3>6, <3>7, <3>8, Zenon DEF WordInv, WordAnswered
  <2>7. CASE Word!Start
    <3>1. /\ i >= WordN /\ ~reg.cntrl_busy_r /\ Word!Edge(TRUE, reg.state_r)
          /\ tb' = [d |-> d, non_duplicated |-> x, i |-> WordN + 1]
      BY <2>1, <2>2, <2>7 DEF Word!Start
    <3>2. /\ reg'.state_r = reg.state_r /\ reg'.cntrl_busy_r = TRUE /\ reg'.rd_ptr_r = 0
          /\ reg'.set_vector_r = {}
      <4>1. /\ reg'.state_r = reg.state_r /\ reg'.cntrl_busy_r = Word!cntrl_busy_w(TRUE)
            /\ reg'.rd_ptr_r = Word!rd_ptr_w(TRUE) /\ reg'.set_vector_r = Word!set_vector_w(TRUE)
        BY <3>1 DEF Word!Edge
      <4>2. /\ Word!cntrl_busy_w(TRUE) = TRUE /\ Word!rd_ptr_w(TRUE) = 0
            /\ Word!set_vector_w(TRUE) = {}
        BY DEF Word!cntrl_busy_w, Word!rd_ptr_w, Word!set_vector_w
      <4>3. QED
        BY <4>1, <4>2
    <3>3. Lonely(d, 0) = {} /\ 0 \in Word!Id
      BY <2>4, LonelyAtFirst
    <3>4. \A j \in Word!Id : reg'.state_r[j] = d[j]
      <4>1. \A j \in Word!Id : j < i
        BY <2>4, <3>1
      <4>2. QED
        BY <2>3, <3>2, <4>1
    <3>5. /\ tb'.d = d /\ tb'.non_duplicated = x /\ tb'.i = WordN + 1
          /\ tb' \in [d : [Word!Id -> TableWords], non_duplicated : TableWords, i : 0 .. WordN + 1]
      BY <2>4, <3>1
    <3>6. reg'.cntrl_busy_r \in BOOLEAN
      BY <3>2
    <3>7. QED
      BY <2>3, <3>2, <3>3, <3>4, <3>5, <3>6, Zenon DEF WordInv, WordAnswered
  <2>8. CASE Word!Wait
    <3>1. reg.cntrl_busy_r = TRUE /\ Word!Edge(FALSE, reg.state_r) /\ tb' = tb
      BY <2>3, <2>8 DEF Word!Wait
    <3>2. PICK n \in Word!Id : n = reg.rd_ptr_r /\ i = WordN + 1 /\ reg.set_vector_r = Lonely(d, n)
      BY <2>3, <3>1
    <3>3. reg.state_r[n] = d[n] /\ d[n] \in Nat /\ n \in Nat
      <4>1. n < i /\ n \in Nat
        BY <2>4, <3>2
      <4>2. QED
        BY <2>3, <2>5, <4>1
    <3>4. /\ Word!rd_ptr_w(FALSE) = n + 1
          /\ Word!set_vector_w(FALSE) = Lonely(d, n + 1)
          /\ Word!cntrl_busy_w(FALSE) <=> n + 1 # WordN
      <4>1. Word!rd_ptr_w(FALSE) = n + 1
        BY <3>1, <3>2 DEF Word!rd_ptr_w
      <4>2. Word!set_vector_w(FALSE) = Word!Flip(Lonely(d, n), d[n])
        BY <3>1, <3>2, <3>3 DEF Word!set_vector_w
      <4>3. Word!cntrl_busy_w(FALSE) <=> n + 1 # WordN
        BY <3>1, <4>1 DEF Word!cntrl_busy_w
      <4>4. QED
        BY <3>3, <4>1, <4>2, <4>3, FlipStep
    <3>5. /\ reg'.state_r = reg.state_r /\ (reg'.cntrl_busy_r <=> n + 1 # WordN)
          /\ reg'.cntrl_busy_r \in BOOLEAN
          /\ reg'.rd_ptr_r = n + 1 /\ reg'.set_vector_r = Lonely(d, n + 1)
          /\ n + 1 = WordN => reg'.cntrl_dat_r = Word!cntrl_dat_w(FALSE)
      <4>1. /\ reg'.state_r = reg.state_r /\ reg'.cntrl_busy_r = Word!cntrl_busy_w(FALSE)
            /\ reg'.rd_ptr_r = Word!rd_ptr_w(FALSE) /\ reg'.set_vector_r = Word!set_vector_w(FALSE)
            /\ reg'.cntrl_dat_r = IF reg.cntrl_busy_r /\ ~Word!cntrl_busy_w(FALSE)
                                  THEN Word!cntrl_dat_w(FALSE) ELSE reg.cntrl_dat_r
        BY <3>1 DEF Word!Edge
      <4>2. Word!cntrl_busy_w(FALSE) \in BOOLEAN
        BY DEF Word!cntrl_busy_w
      <4>3. QED
        BY <3>1, <3>4, <4>1, <4>2
    <3>6. n + 1 # WordN => n + 1 \in Word!Id
      BY <2>4
    <3>7. n + 1 = WordN => reg'.cntrl_dat_r = IF x >= WordW ^ 2 THEN 0 ELSE x
      <4>1. SUFFICES ASSUME n + 1 = WordN
                     PROVE  reg'.cntrl_dat_r = IF x >= WordW ^ 2 THEN 0 ELSE x
        OBVIOUS
      <4>2. Word!set_vector_w(FALSE) = IF x >= WordW ^ 2 THEN {} ELSE {x}
        BY <2>3, <3>4, <4>1, LonelyAtLast
      <4>3. Word!Min({x}) = x
        BY ScansAssumption, WordMin
      <4>4. Word!cntrl_dat_w(FALSE) = IF x >= WordW ^ 2 THEN 0 ELSE x
        BY <4>2, <4>3, Zenon DEF Word!cntrl_dat_w
      <4>5. QED
        BY <3>5, <4>1, <4>4
    <3>8. QED
      <4>1. /\ reg'.state_r \in [Word!Id -> Nat]
            /\ tb' \in [d : [Word!Id -> TableWords], non_duplicated : TableWords, i : 0 .. WordN + 1]
            /\ tb'.d = d /\ tb'.non_duplicated = x /\ tb'.i = WordN + 1
            /\ \A j \in Word!Id : j < tb'.i => reg'.state_r[j] = d[j]
        <5>1. tb \in [d : [Word!Id -> TableWords], non_duplicated : TableWords, i : 0 .. WordN + 1]
          BY <2>1
        <5>2. QED
          BY <2>2, <2>3, <3>1, <3>2, <3>5, <5>1
      <4>2. QED
        BY <2>3, <3>5, <3>6, <3>7, <4>1, Zenon DEF WordInv, WordAnswered
  <2>9. QED
    BY <1>2, <2>6, <2>7, <2>8 DEF Word!Next
<1>3. QED
  BY <1>1, <1>2 DEF Word!vars

LEMMA WordAnswers == WordInv => Word!AnswersAsExpected
  BY Zenon DEF WordInv, WordAnswered, Word!AnswersAsExpected, Word!LonelyWordFound

-----------------------------------------------------------------------------
(* Words as sets of bits, and what they are worth.                         *)

Weight(x, i) == IF i \in x THEN 2 ^ i ELSE 0

\* The value of the bits of x below n.
Below(x, n) ==
  LET below[k \in Nat] ==
        IF k = 0 THEN 0 ELSE below[k - 1] + (IF k - 1 \in x THEN 2 ^ (k - 1) ELSE 0)
  IN  below[n]

\* The same up to a number, as a function.
Upto(x, n, f) ==
  f = [k \in 0 .. n |-> IF k = 0 THEN 0 ELSE f[k - 1] + Weight(x, k - 1)]

\* There is such a function, which is what a recursive definition rests on, and
\* there is only one.
LEMMA UptoExists ==
  ASSUME NEW x, NEW n \in Nat
  PROVE  \E f : Upto(x, n, f)
<1> DEFINE S == {k \in Nat : \E f : Upto(x, k, f)}
<1>1. 0 \in S
  <2>1. Upto(x, 0, [k \in 0 .. 0 |-> 0])
    BY DEF Upto
  <2>2. QED
    BY <2>1
<1>2. ASSUME NEW i \in Nat, i \in S
      PROVE  i + 1 \in S
  <2>1. PICK f : Upto(x, i, f)
    BY <1>2
  <2>2. PICK g : g = [k \in 0 .. i + 1 |-> IF k = i + 1 THEN f[i] + Weight(x, i) ELSE f[k]]
    OBVIOUS
  <2>3. \A k \in 0 .. i : f[k] = IF k = 0 THEN 0 ELSE f[k - 1] + Weight(x, k - 1)
    BY <2>1 DEF Upto
  <2>4. ASSUME NEW k \in 0 .. i + 1
        PROVE  g[k] = IF k = 0 THEN 0 ELSE g[k - 1] + Weight(x, k - 1)
    <3>1. CASE k = i + 1
      BY <2>2, <3>1
    <3>2. CASE k # i + 1
      <4>1. k \in 0 .. i /\ (k = 0 \/ k - 1 \in 0 .. i)
        BY <3>2
      <4>2. g[k] = f[k] /\ (k # 0 => g[k - 1] = f[k - 1])
        BY <2>2, <4>1
      <4>3. QED
        BY <2>3, <4>1, <4>2
    <3>3. QED
      BY <3>1, <3>2
  <2>5. g = [k \in 0 .. i + 1 |-> g[k]]
    BY <2>2
  <2>6. Upto(x, i + 1, g)
    BY <2>4, <2>5 DEF Upto
  <2>7. QED
    BY <2>6
<1> HIDE DEF S
<1>3. n \in S
  BY <1>1, <1>2, Onwards
<1>4. QED
  BY <1>3 DEF S

LEMMA UptoAgree ==
  ASSUME NEW x, NEW n \in Nat, NEW f, NEW g, Upto(x, n, f), Upto(x, n + 1, g)
  PROVE  f[n] = g[n]
<1> DEFINE S == {k \in Nat : k <= n => f[k] = g[k]}
<1>1. \A k \in 0 .. n : f[k] = IF k = 0 THEN 0 ELSE f[k - 1] + Weight(x, k - 1)
  BY DEF Upto
<1>2. \A k \in 0 .. n + 1 : g[k] = IF k = 0 THEN 0 ELSE g[k - 1] + Weight(x, k - 1)
  BY DEF Upto
<1>3. 0 \in S
  BY <1>1, <1>2
<1>4. ASSUME NEW i \in Nat, i \in S
      PROVE  i + 1 \in S
  <2>1. CASE i + 1 <= n
    <3>1. f[i] = g[i]
      BY <1>4, <2>1
    <3>2. i + 1 \in 0 .. n /\ i + 1 \in 0 .. n + 1 /\ i + 1 # 0 /\ (i + 1) - 1 = i
      BY <2>1
    <3>3. QED
      BY <1>1, <1>2, <3>1, <3>2
  <2>2. QED
    BY <2>1
<1> HIDE DEF S
<1>5. n \in S
  BY <1>3, <1>4, Onwards
<1>6. QED
  BY <1>5 DEF S

\* Bit by bit.
LEMMA BelowIs ==
  ASSUME NEW x
  PROVE  /\ Below(x, 0) = 0
         /\ \A n \in Nat : Below(x, n + 1) = Below(x, n) + Weight(x, n)
<1> DEFINE Rec(f) == f = [k \in Nat |-> IF k = 0 THEN 0
                            ELSE f[k - 1] + (IF k - 1 \in x THEN 2 ^ (k - 1) ELSE 0)]
           F(n) == CHOOSE f : Upto(x, n, f)
<1>1. PICK h : h = [n \in Nat |-> F(n)[n]]
  OBVIOUS
<1>2. \A n \in Nat : Upto(x, n, F(n))
  BY UptoExists
<1>3. h[0] = 0
  <2>1. PICK f : f = F(0)
    OBVIOUS
  <2>2. Upto(x, 0, f)
    BY <1>2, <2>1
  <2>3. f[0] = 0
    BY <2>2 DEF Upto
  <2>4. QED
    BY <1>1, <2>1, <2>3
<1>4. ASSUME NEW n \in Nat
      PROVE  h[n + 1] = h[n] + Weight(x, n)
  <2>1. PICK f, g : f = F(n) /\ g = F(n + 1)
    OBVIOUS
  <2>2. Upto(x, n, f) /\ Upto(x, n + 1, g)
    BY <1>2, <2>1
  <2>3. f[n] = g[n]
    BY <2>2, UptoAgree
  <2>4. g[n + 1] = g[n] + Weight(x, n)
    BY <2>2 DEF Upto
  <2>5. h[n] = f[n] /\ h[n + 1] = g[n + 1]
    BY <1>1, <2>1
  <2>6. QED
    BY <2>3, <2>4, <2>5
<1>5. Rec(h)
  <2>1. ASSUME NEW k \in Nat
        PROVE  h[k] = IF k = 0 THEN 0 ELSE h[k - 1] + (IF k - 1 \in x THEN 2 ^ (k - 1) ELSE 0)
    <3>1. CASE k = 0
      BY <1>3, <3>1
    <3>2. CASE k # 0
      <4>1. PICK n \in Nat : k = n + 1
        <5>1. k - 1 \in Nat /\ k = (k - 1) + 1
          BY <3>2
        <5>2. QED
          BY <5>1
      <4>2. k - 1 = n
        BY <4>1
      <4>3. h[k] = h[n] + Weight(x, n)
        BY <1>4, <4>1
      <4>4. QED
        BY <3>2, <4>2, <4>3 DEF Weight
    <3>3. QED
      BY <3>1, <3>2
  <2>2. h = [k \in Nat |-> h[k]]
    BY <1>1
  <2>3. QED
    BY <2>1, <2>2
<1>6. PICK b : Rec(b) /\ \A n : Below(x, n) = b[n]
  <2>1. Rec(CHOOSE f : Rec(f))
    BY <1>5, Zenon
  <2>2. \A n : Below(x, n) = (CHOOSE f : Rec(f))[n]
    BY Zenon DEF Below
  <2>3. QED
    BY <2>1, <2>2, Zenon
<1>7. b[0] = 0
  BY <1>6
<1>8. \A n \in Nat : b[n + 1] = b[n] + Weight(x, n)
  <2>1. SUFFICES ASSUME NEW n \in Nat
                 PROVE  b[n + 1] = b[n] + Weight(x, n)
    OBVIOUS
  <2>2. n + 1 \in Nat /\ n + 1 # 0 /\ (n + 1) - 1 = n
    OBVIOUS
  <2>3. QED
    BY <1>6, <2>2 DEF Weight
<1>9. QED
  BY <1>6, <1>7, <1>8

\* The words of the three designs.
LEMMA Values ==
  ASSUME NEW x
  PROVE  /\ Fma!Value(x) = Below(x, FmaW)
         /\ Count!Value(x) = Below(x, 6)
         /\ Comb!Value(x) = Below(x, 8)
<1>1. Fma!Value(x) = Below(x, FmaW)
  BY Zenon DEF Fma!Value, Below
<1>2. Count!Value(x) = Below(x, 6)
  BY Zenon DEF Count!Value, Below
<1>3. Comb!Value(x) = Below(x, 8)
  BY Zenon DEF Comb!Value, Below
<1>4. QED
  BY <1>1, <1>2, <1>3

LEMMA WeightType ==
  ASSUME NEW x, NEW i \in Nat
  PROVE  Weight(x, i) \in Nat
  BY PowerPositive DEF Weight

LEMMA BelowType ==
  ASSUME NEW x, NEW n \in Nat
  PROVE  Below(x, n) \in Nat
<1> DEFINE S == {k \in Nat : Below(x, k) \in Nat}
<1>1. 0 \in S
  BY BelowIs
<1>2. ASSUME NEW i \in Nat, i \in S
      PROVE  i + 1 \in S
  <2>1. Below(x, i) \in Nat /\ Weight(x, i) \in Nat /\ Below(x, i + 1) = Below(x, i) + Weight(x, i)
    BY <1>2, BelowIs, WeightType
  <2>2. QED
    BY <2>1
<1> HIDE DEF S
<1>3. n \in S
  BY <1>1, <1>2, Onwards
<1>4. QED
  BY <1>3 DEF S

\* Only the bits below n count.
LEMMA BelowSame ==
  ASSUME NEW x, NEW y, NEW n \in Nat, \A i \in 0 .. n - 1 : i \in x <=> i \in y
  PROVE  Below(x, n) = Below(y, n)
<1> DEFINE S == {k \in Nat : k <= n => Below(x, k) = Below(y, k)}
<1>1. 0 \in S
  BY BelowIs
<1>2. ASSUME NEW i \in Nat, i \in S
      PROVE  i + 1 \in S
  <2>1. CASE i + 1 <= n
    <3>1. Below(x, i) = Below(y, i) /\ i \in 0 .. n - 1
      BY <1>2, <2>1
    <3>2. Weight(x, i) = Weight(y, i)
      BY <3>1 DEF Weight
    <3>3. QED
      BY <3>1, <3>2, BelowIs
  <2>2. QED
    BY <2>1
<1> HIDE DEF S
<1>3. n \in S
  BY <1>1, <1>2, Onwards
<1>4. QED
  BY <1>3 DEF S

\* A row of full adders.
Sum3(t, u, v) == (t \ ((u \ v) \cup (v \ u))) \cup (((u \ v) \cup (v \ u)) \ t)
Carry3(t, u, v) == (u \cap v) \cup (t \cap (u \cup v))

\* A full adder loses nothing.
LEMMA AddBits ==
  ASSUME NEW t, NEW u, NEW v, NEW i \in Nat
  PROVE  Weight(t, i) + Weight(u, i) + Weight(v, i)
           = Weight(Sum3(t, u, v), i) + 2 * Weight(Carry3(t, u, v), i)
<1>1. PICK P \in Nat : P = 2 ^ i
  BY PowerPositive
<1>2. /\ i \in Carry3(t, u, v) <=> (i \in u /\ i \in v) \/ (i \in t /\ (i \in u \/ i \in v))
      /\ i \in Sum3(t, u, v) <=> (i \in t /\ (i \in u <=> i \in v)) \/ (i \notin t /\ ~(i \in u <=> i \in v))
  BY DEF Carry3, Sum3
<1>3. QED
  BY <1>1, <1>2 DEF Weight

\* Nor does a row of them.
LEMMA AddWords ==
  ASSUME NEW t, NEW u, NEW v, NEW n \in Nat
  PROVE  Below(t, n) + Below(u, n) + Below(v, n)
           = Below(Sum3(t, u, v), n) + 2 * Below(Carry3(t, u, v), n)
<1>1. PICK s, c : s = Sum3(t, u, v) /\ c = Carry3(t, u, v)
  OBVIOUS
<1> DEFINE S == {k \in Nat : Below(t, k) + Below(u, k) + Below(v, k) = Below(s, k) + 2 * Below(c, k)}
<1>2. 0 \in S
  BY BelowIs
<1>3. ASSUME NEW i \in Nat, i \in S
      PROVE  i + 1 \in S
  <2>1. /\ Below(t, i + 1) = Below(t, i) + Weight(t, i) /\ Below(u, i + 1) = Below(u, i) + Weight(u, i)
        /\ Below(v, i + 1) = Below(v, i) + Weight(v, i) /\ Below(s, i + 1) = Below(s, i) + Weight(s, i)
        /\ Below(c, i + 1) = Below(c, i) + Weight(c, i)
    BY BelowIs
  <2>2. /\ Below(t, i) \in Nat /\ Below(u, i) \in Nat /\ Below(v, i) \in Nat /\ Below(s, i) \in Nat
        /\ Below(c, i) \in Nat
        /\ Weight(t, i) \in Nat /\ Weight(u, i) \in Nat /\ Weight(v, i) \in Nat /\ Weight(s, i) \in Nat
        /\ Weight(c, i) \in Nat
    BY BelowType, WeightType
  <2>3. Weight(t, i) + Weight(u, i) + Weight(v, i) = Weight(s, i) + 2 * Weight(c, i)
    BY <1>1, AddBits
  <2>4. Below(t, i) + Below(u, i) + Below(v, i) = Below(s, i) + 2 * Below(c, i)
    BY <1>3
  <2>5. QED
    BY <2>1, <2>2, <2>3, <2>4
<1> HIDE DEF S
<1>4. n \in S
  BY <1>2, <1>3, Onwards
<1>5. QED
  BY <1>1, <1>4 DEF S

\* A word moved k places to the left, and cut to n bits.
MovedUp(x, k, n) == {i + k : i \in x} \cap 0 .. n - 1

\* A place to the left is twice as much, as long as no bit is cut off.
LEMMA MovedUpBelow ==
  ASSUME NEW x \in SUBSET Nat, NEW n \in Nat, NEW k \in Nat, k + 1 <= n
  PROVE  Below(MovedUp(x, 1, n), k + 1) = 2 * Below(x, k)
<1>1. PICK y : y = MovedUp(x, 1, n)
  OBVIOUS
<1>2. 0 \notin y /\ \A i \in Nat : i + 1 < n => (i + 1 \in y <=> i \in x)
  BY <1>1 DEF MovedUp
<1> DEFINE S == {i \in Nat : i + 1 <= n => Below(y, i + 1) = 2 * Below(x, i)}
<1>3. 0 \in S
  <2>1. Below(y, 0 + 1) = Below(y, 0) + Weight(y, 0) /\ Below(y, 0) = 0 /\ Below(x, 0) = 0
    BY BelowIs
  <2>2. Weight(y, 0) = 0
    BY <1>2 DEF Weight
  <2>3. QED
    BY <2>1, <2>2
<1>4. ASSUME NEW i \in Nat, i \in S
      PROVE  i + 1 \in S
  <2>1. SUFFICES ASSUME (i + 1) + 1 <= n
                 PROVE  Below(y, (i + 1) + 1) = 2 * Below(x, i + 1)
    OBVIOUS
  <2>2. Below(y, i + 1) = 2 * Below(x, i)
    BY <1>4, <2>1
  <2>3. /\ Below(y, (i + 1) + 1) = Below(y, i + 1) + Weight(y, i + 1)
        /\ Below(x, i + 1) = Below(x, i) + Weight(x, i)
    <3>1. PICK j \in Nat : j = i + 1
      OBVIOUS
    <3>2. Below(y, j + 1) = Below(y, j) + Weight(y, j) /\ Below(x, i + 1) = Below(x, i) + Weight(x, i)
      BY BelowIs
    <3>3. QED
      BY <3>1, <3>2, Zenon
  <2>4. Weight(y, i + 1) = 2 * Weight(x, i)
    <3>1. i + 1 \in y <=> i \in x
      BY <1>2, <2>1
    <3>2. QED
      BY <3>1, PowerNext DEF Weight
  <2>5. Below(x, i) \in Nat /\ Weight(x, i) \in Nat
    BY BelowType, WeightType
  <2>6. QED
    BY <2>2, <2>3, <2>4, <2>5
<1> HIDE DEF S
<1>5. k \in S
  BY <1>3, <1>4, Onwards
<1>6. QED
  BY <1>1, <1>5 DEF S

\* The bits of a number.
BitsOf(a, n) == {i \in 0 .. n - 1 : (a \div 2 ^ i) % 2 = 1}

\* A remainder by the next power of two.
LEMMA NextBit ==
  ASSUME NEW P \in Nat \ {0}, NEW a \in Nat
  PROVE  a % (2 * P) = (a % P) + (IF (a \div P) % 2 = 1 THEN P ELSE 0)
<1>1. PICK r \in 0 .. P - 1, q \in Nat : a = r + P * q /\ r = a % P /\ q = a \div P
  BY PlaceExists
<1>2. PICK h \in Nat, b \in 0 .. 1 : q = b + 2 * h /\ b = q % 2
  <2>1. q \div 2 \in Nat /\ q % 2 \in 0 .. 1 /\ q = (q % 2) + 2 * (q \div 2)
    OBVIOUS
  <2>2. QED
    BY <2>1
<1>3. PICK D \in Nat \ {0} : D = 2 * P
  OBVIOUS
<1>4. PICK d \in 0 .. D - 1 : d = IF b = 1 THEN r + P ELSE r
  BY <1>3
<1>5. P * q = (IF b = 1 THEN P ELSE 0) + D * h
  <2>1. PICK g \in Nat : g = P * h
    OBVIOUS
  <2>2. D * h = 2 * g
    BY <1>3, <2>1
  <2>3. P * (2 * h) = 2 * g /\ P * (1 + 2 * h) = P + 2 * g
    BY <2>1
  <2>4. QED
    BY <1>2, <2>2, <2>3
<1>6. a = d + D * h
  <2>1. PICK g \in Nat, e \in Nat : g = P * q /\ e = D * h
    OBVIOUS
  <2>2. a = r + g /\ g = (IF b = 1 THEN P ELSE 0) + e
    BY <1>1, <1>5, <2>1, Zenon
  <2>3. a = d + e
    BY <1>4, <2>2
  <2>4. QED
    BY <2>1, <2>3, Zenon
<1>7. a % D = d
  BY <1>6, PlaceIs
<1>8. a % (2 * P) = d /\ r = a % P /\ (a \div P) % 2 = b
  BY <1>1, <1>2, <1>3, <1>7, Zenon
<1>9. d = r + (IF b = 1 THEN P ELSE 0)
  BY <1>4
<1>10. QED
  BY <1>8, <1>9, Zenon

\* The bits of a number are worth the number, but for what n bits cannot hold.
LEMMA BitsBelow ==
  ASSUME NEW a \in Nat, NEW n \in Nat
  PROVE  Below(BitsOf(a, n), n) = a % 2 ^ n
<1>1. PICK y : y = BitsOf(a, n)
  OBVIOUS
<1> DEFINE S == {k \in Nat : k <= n => Below(y, k) = a % 2 ^ k}
<1>2. 0 \in S
  <2>1. 2 ^ 0 = 1 /\ a % 1 = 0
    OBVIOUS
  <2>2. QED
    BY <2>1, BelowIs
<1>3. ASSUME NEW i \in Nat, i \in S
      PROVE  i + 1 \in S
  <2>1. SUFFICES ASSUME i + 1 <= n
                 PROVE  Below(y, i + 1) = a % 2 ^ (i + 1)
    OBVIOUS
  <2>2. PICK P \in Nat \ {0} : P = 2 ^ i /\ 2 ^ (i + 1) = 2 * P
    BY PowerPositive, PowerNext
  <2>3. Below(y, i) = a % P
    BY <1>3, <2>1, <2>2
  <2>4. i \in y <=> (a \div P) % 2 = 1
    BY <1>1, <2>1, <2>2 DEF BitsOf
  <2>5. Below(y, i + 1) = Below(y, i) + Weight(y, i)
    BY BelowIs
  <2>6. Weight(y, i) = IF (a \div P) % 2 = 1 THEN P ELSE 0
    BY <2>2, <2>4 DEF Weight
  <2>7. a % (2 * P) = (a % P) + (IF (a \div P) % 2 = 1 THEN P ELSE 0)
    BY NextBit
  <2>8. QED
    BY <2>2, <2>3, <2>5, <2>6, <2>7, Zenon
<1> HIDE DEF S
<1>4. n \in S
  BY <1>2, <1>3, Onwards
<1>5. QED
  BY <1>1, <1>4 DEF S

-----------------------------------------------------------------------------
(* Sums of words, but for whole multiples of what a word can hold.         *)

Whole(P) == {q * P : q \in Int}

LEMMA WholeSums ==
  ASSUME NEW P \in Nat \ {0}, NEW a \in Whole(P), NEW b \in Whole(P)
  PROVE  a \in Int /\ a + b \in Whole(P) /\ a - b \in Whole(P)
<1>1. PICK q \in Int, r \in Int : a = q * P /\ b = r * P
  BY DEF Whole
<1>2. a + b = (q + r) * P /\ a - b = (q - r) * P /\ a \in Int
  BY <1>1
<1>3. q + r \in Int /\ q - r \in Int
  OBVIOUS
<1>4. QED
  BY <1>2, <1>3 DEF Whole

LEMMA WholeNone ==
  ASSUME NEW P \in Nat \ {0}
  PROVE  0 \in Whole(P) /\ P \in Whole(P)
<1>1. 0 = 0 * P /\ P = 1 * P
  OBVIOUS
<1>2. QED
  BY <1>1 DEF Whole

LEMMA WholeTimes ==
  ASSUME NEW P \in Nat \ {0}, NEW a \in Whole(P), NEW k \in Int
  PROVE  k * a \in Whole(P)
<1>1. PICK q \in Int : a = q * P
  BY DEF Whole
<1>2. k * a = (k * q) * P
  BY <1>1
<1>3. k * q \in Int
  OBVIOUS
<1>4. QED
  BY <1>2, <1>3 DEF Whole

LEMMA WholeRest ==
  ASSUME NEW P \in Nat \ {0}, NEW a \in Int
  PROVE  a % P \in 0 .. P - 1 /\ a - (a % P) \in Whole(P)
<1>1. a % P \in 0 .. P - 1 /\ a = (a % P) + P * (a \div P) /\ a \div P \in Int
  BY SMT
<1>2. PICK r \in Int, q \in Int : r = a % P /\ q = a \div P
  BY <1>1
<1>3. a - r = q * P
  BY <1>1, <1>2
<1>4. QED
  BY <1>1, <1>2, <1>3 DEF Whole

\* Words that differ by a whole multiple are the same.
LEMMA WholeSmall ==
  ASSUME NEW P \in Nat \ {0}, NEW a \in 0 .. P - 1, NEW b \in 0 .. P - 1, a - b \in Whole(P)
  PROVE  a = b
<1>1. PICK q \in Int : a - b = q * P
  BY DEF Whole
<1>2. ASSUME q >= 1
      PROVE  FALSE
  <2>1. q * P >= P
    BY <1>2
  <2>2. QED
    BY <1>1, <2>1
<1>3. ASSUME q <= -1
      PROVE  FALSE
  <2>1. q * P <= -P
    BY <1>3
  <2>2. QED
    BY <1>1, <2>1
<1>4. q = 0
  BY <1>2, <1>3
<1>5. QED
  BY <1>1, <1>4

LEMMA WholeSame ==
  ASSUME NEW P \in Nat \ {0}, NEW a \in Int, NEW b \in Int, a - b \in Whole(P)
  PROVE  a % P = b % P
<1>1. PICK r \in 0 .. P - 1, s \in 0 .. P - 1 :
        r = a % P /\ s = b % P /\ a - r \in Whole(P) /\ b - s \in Whole(P)
  BY WholeRest
<1>2. PICK d \in Whole(P), e \in Whole(P), f \in Whole(P) : d = a - b /\ e = a - r /\ f = b - s
  BY <1>1
<1>3. d - e \in Whole(P)
  BY WholeSums
<1>4. (d - e) + f \in Whole(P)
  BY <1>3, WholeSums
<1>5. (d - e) + f = r - s
  BY <1>2
<1>6. r = s
  BY <1>4, <1>5, WholeSmall
<1>7. QED
  BY <1>1, <1>6

\* A bit that is cut off is a whole multiple.
LEMMA MovedUpValue ==
  ASSUME NEW x \in SUBSET Nat, NEW n \in Nat
  PROVE  \E e \in Whole(2 ^ n) : Below(MovedUp(x, 1, n), n) = 2 * Below(x, n) + e
<1>1. PICK y : y = MovedUp(x, 1, n)
  OBVIOUS
<1>2. PICK P \in Nat \ {0} : P = 2 ^ n
  BY PowerPositive
<1>3. CASE n = 0
  <2>1. Below(y, n) = 0 /\ Below(x, n) = 0
    BY <1>3, BelowIs
  <2>2. QED
    BY <1>1, <1>2, <2>1, WholeNone
<1>4. CASE n # 0
  <2>1. PICK k \in Nat : n = k + 1
    <3>1. n - 1 \in Nat /\ n = (n - 1) + 1
      BY <1>4
    <3>2. QED
      BY <3>1
  <2>2. Below(y, n) = 2 * Below(x, k)
    BY <1>1, <2>1, MovedUpBelow
  <2>3. Below(x, n) = Below(x, k) + Weight(x, k)
    BY <2>1, BelowIs
  <2>4. Below(x, k) \in Nat /\ Weight(x, k) \in Nat
    BY BelowType, WeightType
  <2>5. P = 2 * 2 ^ k /\ 2 ^ k \in Nat
    BY <1>2, <2>1, PowerNext
  <2>6. 2 * Weight(x, k) = 0 \/ 2 * Weight(x, k) = P
    BY <2>5 DEF Weight
  <2>7. PICK e \in Int : e = -(2 * Weight(x, k))
    BY <2>4
  <2>8. Below(y, n) = 2 * Below(x, n) + e
    BY <2>2, <2>3, <2>4, <2>7
  <2>9. e \in Whole(P)
    <3>1. e = 0 - 0 \/ e = 0 - P
      BY <2>4, <2>6, <2>7
    <3>2. 0 - 0 \in Whole(P) /\ 0 - P \in Whole(P)
      BY WholeNone, WholeSums
    <3>3. QED
      BY <3>1, <3>2
  <2>10. QED
    BY <1>1, <1>2, <2>8, <2>9
<1>5. QED
  BY <1>3, <1>4

\* Likewise for any number of places.
LEMMA MovedUpBy ==
  ASSUME NEW x \in SUBSET Nat, NEW n \in Nat, NEW k \in Nat
  PROVE  \E e \in Whole(2 ^ n) : Below(MovedUp(x, k, n), n) = (2 ^ k) * Below(x, n) + e
<1>1. PICK P \in Nat \ {0} : P = 2 ^ n
  BY PowerPositive
<1>2. PICK b \in Nat : b = Below(x, n)
  BY BelowType
<1> DEFINE S == {i \in Nat : \E e \in Whole(P) : Below(MovedUp(x, i, n), n) = (2 ^ i) * b + e}
<1>3. 0 \in S
  <2>1. \A i \in 0 .. n - 1 : i \in MovedUp(x, 0, n) <=> i \in x
    BY DEF MovedUp
  <2>2. Below(MovedUp(x, 0, n), n) = b
    BY <1>2, <2>1, BelowSame
  <2>3. b = (2 ^ 0) * b + 0
    OBVIOUS
  <2>4. QED
    BY <2>2, <2>3, WholeNone
<1>4. ASSUME NEW i \in Nat, i \in S
      PROVE  i + 1 \in S
  <2>1. PICK y : y = MovedUp(x, i, n)
    OBVIOUS
  <2>2. PICK e \in Whole(P) : Below(y, n) = (2 ^ i) * b + e
    BY <1>4, <2>1
  <2>3. y \in SUBSET Nat
    BY <2>1 DEF MovedUp
  <2>4. PICK f \in Whole(P) : Below(MovedUp(y, 1, n), n) = 2 * Below(y, n) + f
    BY <1>1, <2>3, MovedUpValue
  <2>5. MovedUp(y, 1, n) = MovedUp(x, i + 1, n)
    BY <2>1 DEF MovedUp
  <2>6. PICK p \in Nat : p = 2 ^ i /\ 2 ^ (i + 1) = 2 * p
    BY PowerPositive, PowerNext
  <2>7. PICK g \in Nat : g = p * b
    OBVIOUS
  <2>8. (2 * p) * b = 2 * g
    BY <2>7
  <2>9. PICK h \in Whole(P) : h = (2 * e) + f
    <3>1. 2 * e \in Whole(P)
      BY WholeTimes
    <3>2. QED
      BY <3>1, WholeSums
  <2>10. e \in Int /\ f \in Int /\ h \in Int
    BY WholeSums
  <2>11. Below(MovedUp(x, i + 1, n), n) = 2 * g + h
    <3>1. Below(y, n) = g + e
      BY <2>2, <2>6, <2>7, Zenon
    <3>2. Below(MovedUp(x, i + 1, n), n) = 2 * (g + e) + f
      BY <2>4, <2>5, <3>1, Zenon
    <3>3. 2 * (g + e) + f = 2 * g + h
      BY <2>9, <2>10
    <3>4. QED
      BY <3>2, <3>3, Zenon
  <2>12. Below(MovedUp(x, i + 1, n), n) = (2 ^ (i + 1)) * b + h
    BY <2>6, <2>8, <2>11, Zenon
  <2>13. QED
    BY <2>12
<1> HIDE DEF S
<1>5. k \in S
  BY <1>3, <1>4, Onwards
<1>6. QED
  BY <1>1, <1>2, <1>5, Zenon DEF S

\* What a row of full adders gives, the carries moved up, is worth what it takes.
LEMMA Compressed ==
  ASSUME NEW t \in SUBSET Nat, NEW u \in SUBSET Nat, NEW v \in SUBSET Nat, NEW n \in Nat
  PROVE  \E e \in Whole(2 ^ n) :
           Below(MovedUp(Carry3(t, u, v), 1, n), n) + Below(Sum3(t, u, v), n)
             = Below(t, n) + Below(u, n) + Below(v, n) + e
<1>1. PICK c \in SUBSET Nat, s \in SUBSET Nat : c = Carry3(t, u, v) /\ s = Sum3(t, u, v)
  BY DEF Carry3, Sum3
<1>2. PICK e \in Whole(2 ^ n) : Below(MovedUp(c, 1, n), n) = 2 * Below(c, n) + e
  BY MovedUpValue
<1>3. Below(t, n) + Below(u, n) + Below(v, n) = Below(s, n) + 2 * Below(c, n)
  BY <1>1, AddWords
<1>4. /\ Below(t, n) \in Nat /\ Below(u, n) \in Nat /\ Below(v, n) \in Nat
      /\ Below(s, n) \in Nat /\ Below(c, n) \in Nat
  BY BelowType
<1>5. e \in Int
  BY PowerPositive, WholeSums
<1>6. Below(MovedUp(c, 1, n), n) + Below(s, n) = Below(t, n) + Below(u, n) + Below(v, n) + e
  BY <1>2, <1>3, <1>4, <1>5
<1>7. QED
  BY <1>1, <1>6

-----------------------------------------------------------------------------
(* fibonacci.                                                              *)

\* The widths of the sums.
LEMMA Widths == PipeW \in Nat /\ FmaW \in Nat /\ FibW \in Nat
  BY SumsAssumption, Zenon

\* The two registers are the last two of the sequence, sel_r says which is first.
FibInv ==
  /\ reg.sel_r \in BOOLEAN /\ reg.x_0_r \in Int /\ reg.x_1_r \in Int
  /\ tb = IF reg.sel_r THEN <<reg.x_1_r, reg.x_0_r>> ELSE <<reg.x_0_r, reg.x_1_r>>

LEMMA FibInitInv == Fib!Init => FibInv
  BY DEF Fib!Init, FibInv

LEMMA FibNextInv ==
  ASSUME FibInv, [Fib!Next]_(Fib!vars)
  PROVE  FibInv'
<1>1. CASE UNCHANGED <<reg, tb>>
  BY <1>1 DEF FibInv
<1>2. CASE Fib!Next
  <2>1. PICK a \in Int, b \in Int, s \in Int :
          a = reg.x_0_r /\ b = reg.x_1_r /\ s = Fib!Add(a, b) /\ s = Fib!Add(b, a)
    <3>1. PICK a \in Int, b \in Int : a = reg.x_0_r /\ b = reg.x_1_r
      BY DEF FibInv
    <3>2. PICK c \in Int : c = a + b /\ c = b + a
      OBVIOUS
    <3>3. Fib!Add(a, b) = c % 2 ^ FibW /\ Fib!Add(b, a) = c % 2 ^ FibW
      BY <3>2, Zenon DEF Fib!Add
    <3>4. c % 2 ^ FibW \in Int
      <4>1. PICK P \in Nat \ {0} : P = 2 ^ FibW
        BY PowerPositive, Widths
      <4>2. c % P \in Int
        BY WholeRest
      <4>3. QED
        BY <4>1, <4>2, Zenon
    <3>5. QED
      BY <3>1, <3>3, <3>4
  <2>2. ASSUME reg.sel_r = FALSE
        PROVE  FibInv'
    <3>1. tb[1] = a /\ tb[2] = b
      BY <2>1, <2>2 DEF FibInv
    <3>2. reg'.sel_r = TRUE /\ reg'.x_0_r = s /\ reg'.x_1_r = b
      BY <1>2, <2>1, <2>2 DEF Fib!Next, Fib!Edge
    <3>3. tb' = <<b, s>>
      BY <1>2, <2>1, <3>1 DEF Fib!Next, Fib!step_fibonacci
    <3>4. QED
      BY <3>2, <3>3 DEF FibInv
  <2>3. ASSUME reg.sel_r = TRUE
        PROVE  FibInv'
    <3>1. tb[1] = b /\ tb[2] = a
      BY <2>1, <2>3 DEF FibInv
    <3>2. reg'.sel_r = FALSE /\ reg'.x_0_r = a /\ reg'.x_1_r = s
      BY <1>2, <2>1, <2>3 DEF Fib!Next, Fib!Edge
    <3>3. tb' = <<a, s>>
      BY <1>2, <2>1, <3>1 DEF Fib!Next, Fib!step_fibonacci
    <3>4. QED
      BY <3>2, <3>3 DEF FibInv
  <2>4. QED
    BY <2>2, <2>3 DEF FibInv
<1>3. QED
  BY <1>1, <1>2 DEF Fib!vars

LEMMA FibAnswers == FibInv => Fib!AnswersAsExpected
  BY DEF FibInv, Fib!AnswersAsExpected, Fib!y

-----------------------------------------------------------------------------
(* pipelined_add_constant.                                                 *)

\* In reset both accumulators are 0 and the increment of B is ahead; then A is
\* at the initial value and B ahead of 0, and from then on both add INCR, as the
\* testbench's sum does.
PipeInv ==
  /\ tb \in [held : 1 .. 2, run : 0 .. 2, ahead : Pipe!Word, sum : Pipe!Word]
  /\ tb.run = 0 =>
       /\ tb.sum = PipeInit
       /\ reg.A_r = 0 /\ reg.B_A_r = 0 /\ reg.B_I_r = tb.ahead
       /\ reg.fwd_r = FALSE /\ reg.init_r = TRUE
  /\ tb.run # 0 =>
       /\ reg.fwd_r = TRUE /\ reg.init_r = FALSE
       /\ reg.A_I_r = PipeIncr /\ reg.B_I_r = PipeIncr
       /\ reg.A_r = tb.sum /\ reg.B_y_r \in Pipe!Word
       /\ reg.B_y_r - (reg.A_r + tb.ahead - PipeInit) \in Whole(2 ^ PipeW)
  /\ tb.run = 2 => reg.A_y_r = reg.A_r

\* tb.held and tb.run count up to two.
LEMMA PipeMin ==
  ASSUME NEW n \in 0 .. 2
  PROVE  Pipe!Min({2, n + 1}) = IF n = 0 THEN 1 ELSE 2
<1>1. PICK S \in SUBSET Nat : S = {2, n + 1}
  <2>1. {2, n + 1} \in SUBSET Nat
    OBVIOUS
  <2>2. QED
    BY <2>1
<1>2. \E m \in S : \A y \in S : m <= y
  BY <1>1, Least
<1>3. Pipe!Min(S) = CHOOSE m \in S : \A y \in S : m <= y
  BY Zenon DEF Pipe!Min
<1>4. PICK m : m = Pipe!Min(S)
  OBVIOUS
<1>5. m \in S /\ \A y \in S : m <= y
  BY <1>2, <1>3, <1>4, Zenon
<1>6. QED
  BY <1>1, <1>4, <1>5

\* The sum is right but for a whole multiple.
LEMMA PipeAdd ==
  ASSUME NEW a \in Int, NEW b \in Int
  PROVE  Pipe!Add(a, b) \in Pipe!Word /\ (a + b) - Pipe!Add(a, b) \in Whole(2 ^ PipeW)
<1>1. PICK P \in Nat \ {0} : P = 2 ^ PipeW
  BY PowerPositive, Widths
<1>2. PICK c \in Int : c = a + b
  OBVIOUS
<1>3. c % P \in 0 .. P - 1 /\ c - (c % P) \in Whole(P)
  BY WholeRest
<1>4. QED
  BY <1>1, <1>2, <1>3, Zenon DEF Pipe!Add, Pipe!Word

\* Both have added INCR.
LEMMA PipeTogether ==
  ASSUME NEW a \in Int, NEW b \in Int, NEW d \in Int, NEW k \in Int, NEW x, NEW y,
         b - (a + d) \in Whole(2 ^ PipeW), x = Pipe!Add(a, k), y = Pipe!Add(b, k)
  PROVE  x \in Pipe!Word /\ y \in Pipe!Word /\ y - (x + d) \in Whole(2 ^ PipeW)
<1>1. PICK P \in Nat \ {0} : P = 2 ^ PipeW
  BY PowerPositive, Widths
<1>2. /\ x \in Pipe!Word /\ y \in Pipe!Word
      /\ (a + k) - x \in Whole(P) /\ (b + k) - y \in Whole(P)
  BY <1>1, PipeAdd
<1>3. x \in Int /\ y \in Int
  BY <1>2 DEF Pipe!Word
<1>4. PICK e \in Whole(P), f \in Whole(P), g \in Whole(P) :
        e = b - (a + d) /\ f = (a + k) - x /\ g = (b + k) - y
  BY <1>1, <1>2
<1>5. e + f \in Whole(P)
  BY WholeSums
<1>6. (e + f) - g \in Whole(P)
  BY <1>5, WholeSums
<1>7. (e + f) - g = y - (x + d)
  BY <1>3, <1>4
<1>8. QED
  BY <1>1, <1>2, <1>6, <1>7

LEMMA PipeInitInv == Pipe!Init => PipeInv
<1> SUFFICES ASSUME Pipe!Init
             PROVE  PipeInv
  OBVIOUS
<1>1. PICK i \in Pipe!Word, j \in Pipe!Word, y \in Pipe!Word :
        /\ reg = [A_r |-> 0, A_I_r |-> i, A_y_r |-> 0, B_A_r |-> 0, B_I_r |-> j, B_y_r |-> y,
                  fwd_r |-> FALSE, init_r |-> TRUE]
        /\ tb = [held |-> 1, run |-> 0, ahead |-> j, sum |-> PipeInit]
  BY DEF Pipe!Init
<1>2. PipeInit \in Pipe!Word
  BY Zenon, SumsAssumption DEF Pipe!Word
<1>3. QED
  BY <1>1, <1>2 DEF PipeInv

LEMMA PipeNextInv ==
  ASSUME PipeInv, [Pipe!Next]_(Pipe!vars)
  PROVE  PipeInv'
<1>1. CASE UNCHANGED <<reg, tb>>
  BY <1>1 DEF PipeInv
<1>2. CASE Pipe!Next
  <2>1. PICK h \in 1 .. 2, n \in 0 .. 2, d \in Pipe!Word, z \in Pipe!Word :
          tb = [held |-> h, run |-> n, ahead |-> d, sum |-> z]
    BY DEF PipeInv
  <2>2. /\ Pipe!Min({2, h + 1}) = 2 /\ Pipe!Min({2, n + 1}) = IF n = 0 THEN 1 ELSE 2
    BY PipeMin
  <2>3. Pipe!Word \subseteq Int /\ PipeIncr \in Pipe!Word /\ PipeInit \in Pipe!Word /\ 0 \in Pipe!Word
    <3>1. PICK P \in Nat \ {0} : P = 2 ^ PipeW
      BY PowerPositive, Widths
    <3>2. Pipe!Word = 0 .. P - 1
      BY <3>1, Zenon DEF Pipe!Word
    <3>3. PipeIncr \in Pipe!Word /\ PipeInit \in Pipe!Word
      BY Zenon, SumsAssumption DEF Pipe!Word
    <3>4. QED
      BY <3>2, <3>3
  <2>4. CASE Pipe!Reset
    <3>1. /\ n = 0 /\ Pipe!Edge(TRUE)
          /\ tb' = [held |-> 2, run |-> 0, ahead |-> reg'.B_I_r, sum |-> z]
      BY <2>1, <2>2, <2>4 DEF Pipe!Reset
    <3>2. reg.init_r = TRUE /\ z = PipeInit
      BY <2>1, <3>1 DEF PipeInv
    <3>3. /\ reg'.A_r = 0 /\ reg'.B_A_r = 0 /\ reg'.B_I_r = PipeIncr
          /\ reg'.fwd_r = FALSE /\ reg'.init_r = TRUE
      BY <3>1, <3>2 DEF Pipe!Edge, Pipe!A, Pipe!B
    <3>4. QED
      BY <2>3, <3>1, <3>2, <3>3 DEF PipeInv
  <2>5. CASE Pipe!Run
    <3>1. /\ Pipe!Edge(FALSE)
          /\ tb' = [held |-> h, run |-> IF n = 0 THEN 1 ELSE 2, ahead |-> d,
                    sum |-> IF n = 0 THEN PipeInit ELSE Pipe!Add(z, PipeIncr)]
      BY <2>1, <2>2, <2>5 DEF Pipe!Run
    <3>2. CASE n = 0
      <4>1. /\ reg.A_r = 0 /\ reg.B_A_r = 0 /\ reg.B_I_r = d
            /\ reg.fwd_r = FALSE /\ reg.init_r = TRUE
        BY <2>1, <3>2 DEF PipeInv
      <4>2. /\ reg'.A_r = PipeInit /\ reg'.A_I_r = PipeIncr /\ reg'.B_I_r = PipeIncr
            /\ reg'.fwd_r = TRUE /\ reg'.init_r = FALSE /\ reg'.B_y_r = Pipe!Add(0, d)
        BY <3>1, <4>1 DEF Pipe!Edge, Pipe!A, Pipe!B, Pipe!adder__a
      <4>3. PICK y \in Pipe!Word : y = reg'.B_y_r /\ (0 + d) - y \in Whole(2 ^ PipeW)
        BY <2>3, <4>2, PipeAdd
      <4>4. y - (PipeInit + d - PipeInit) \in Whole(2 ^ PipeW)
        <5>1. PICK P \in Nat \ {0} : P = 2 ^ PipeW
          BY PowerPositive, Widths
        <5>2. PICK e \in Whole(P) : e = (0 + d) - y
          BY <4>3, <5>1
        <5>3. 0 \in Whole(P)
          BY WholeNone
        <5>4. 0 - e \in Whole(P)
          BY <5>3, WholeSums
        <5>5. 0 - e = y - (PipeInit + d - PipeInit)
          BY <2>3, <5>2
        <5>6. QED
          BY <5>1, <5>4, <5>5
      <4>5. QED
        BY <2>3, <3>1, <3>2, <4>1, <4>2, <4>3, <4>4 DEF PipeInv
    <3>3. CASE n # 0
      <4>1. PICK a \in Pipe!Word, b \in Pipe!Word :
              /\ a = reg.A_r /\ a = z /\ b = reg.B_y_r /\ b - (a + d - PipeInit) \in Whole(2 ^ PipeW)
              /\ reg.fwd_r = TRUE /\ reg.init_r = FALSE
              /\ reg.A_I_r = PipeIncr /\ reg.B_I_r = PipeIncr
        BY <2>1, <3>3 DEF PipeInv
      <4>2. /\ reg'.A_r = Pipe!Add(a, PipeIncr) /\ reg'.A_y_r = Pipe!Add(a, PipeIncr)
            /\ reg'.A_I_r = PipeIncr /\ reg'.B_I_r = PipeIncr
            /\ reg'.fwd_r = TRUE /\ reg'.init_r = FALSE /\ reg'.B_y_r = Pipe!Add(b, PipeIncr)
        BY <3>1, <4>1 DEF Pipe!Edge, Pipe!A, Pipe!B, Pipe!adder__a, Pipe!A_w
      <4>3. PICK k \in Int : k = d - PipeInit
        BY <2>3
      <4>4. b - (a + k) \in Whole(2 ^ PipeW)
        <5>1. b - (a + k) = b - (a + d - PipeInit)
          BY <2>3, <4>3
        <5>2. QED
          BY <4>1, <5>1
      <4>5. PICK x \in Pipe!Word, y \in Pipe!Word :
              /\ x = Pipe!Add(a, PipeIncr) /\ y = Pipe!Add(b, PipeIncr)
              /\ y - (x + k) \in Whole(2 ^ PipeW)
        <5>1. PICK x, y : x = Pipe!Add(a, PipeIncr) /\ y = Pipe!Add(b, PipeIncr)
          OBVIOUS
        <5>2. a \in Int /\ b \in Int /\ PipeIncr \in Int
          BY <2>3
        <5>3. x \in Pipe!Word /\ y \in Pipe!Word /\ y - (x + k) \in Whole(2 ^ PipeW)
          BY <4>4, <5>1, <5>2, PipeTogether
        <5>4. QED
          BY <5>1, <5>3
      <4>6. y - (x + d - PipeInit) \in Whole(2 ^ PipeW)
        <5>1. y - (x + k) = y - (x + d - PipeInit)
          BY <2>3, <4>3
        <5>2. QED
          BY <4>5, <5>1
      <4>7. reg'.A_r = x /\ reg'.A_y_r = x /\ reg'.B_y_r = y
        BY <4>2, <4>5
      <4>8. QED
        BY <3>1, <3>3, <4>1, <4>2, <4>5, <4>6, <4>7 DEF PipeInv
    <3>4. QED
      BY <3>2, <3>3
  <2>6. QED
    BY <1>2, <2>4, <2>5 DEF Pipe!Next
<1>3. QED
  BY <1>1, <1>2 DEF Pipe!vars

LEMMA PipeAnswers == PipeInv => Pipe!AnswersAsExpected
<1> SUFFICES ASSUME PipeInv, tb.run = 2
             PROVE  reg.A_y_r = tb.sum /\ (tb.ahead = PipeInit => reg.B_y_r = tb.sum)
  BY DEF Pipe!AnswersAsExpected
<1>1. PICK P \in Nat \ {0} : P = 2 ^ PipeW
  BY PowerPositive, Widths
<1>2. Pipe!Word = 0 .. P - 1 /\ PipeInit \in 0 .. P - 1
  BY <1>1, SumsAssumption DEF Pipe!Word
<1>3. PICK a \in 0 .. P - 1, b \in 0 .. P - 1, d \in 0 .. P - 1 :
        /\ a = reg.A_y_r /\ a = tb.sum /\ b = reg.B_y_r /\ d = tb.ahead
        /\ b - (a + d - PipeInit) \in Whole(P)
  BY <1>1, <1>2 DEF PipeInv
<1>4. ASSUME d = PipeInit
      PROVE  b = a
  <2>1. b - (a + d - PipeInit) = b - a
    BY <1>2, <1>4
  <2>2. b - a \in Whole(P)
    BY <1>3, <2>1
  <2>3. QED
    BY <2>2, WholeSmall
<1>5. QED
  BY <1>3, <1>4

-----------------------------------------------------------------------------
(* count_zeros_32.                                                         *)

\* The network's 3:2 compressor.
Adder(t, u, v, n) == <<MovedUp(Carry3(t, u, v), 1, n), Sum3(t, u, v)>>

\* r is two words that are worth what t, u and v are.
Summed(t, u, v, n, r) ==
  /\ r[1] \in SUBSET Nat /\ r[2] \in SUBSET Nat
  /\ \E e \in Whole(2 ^ n) :
       Below(r[1], n) + Below(r[2], n) = Below(t, n) + Below(u, n) + Below(v, n) + e

\* It is worth what it is given.
LEMMA AdderAdds ==
  ASSUME NEW t \in SUBSET Nat, NEW u \in SUBSET Nat, NEW v \in SUBSET Nat, NEW n \in Nat
  PROVE  Summed(t, u, v, n, Adder(t, u, v, n))
<1>1. PICK r : r = Adder(t, u, v, n)
  OBVIOUS
<1>2. r[1] = MovedUp(Carry3(t, u, v), 1, n) /\ r[2] = Sum3(t, u, v)
  BY <1>1 DEF Adder
<1>3. r[1] \in SUBSET Nat /\ r[2] \in SUBSET Nat
  BY <1>2 DEF MovedUp, Sum3
<1>4. QED
  BY <1>1, <1>2, <1>3, Compressed DEF Summed

\* It is the compressor of the model.
LEMMA CountAdder ==
  ASSUME NEW t, NEW u, NEW v
  PROVE  Count!compress_3_to_2_W(t, u, v) = Adder(t, u, v, 6)
<1>1. /\ Count!compress_3_to_2(t, u, v).carry = Carry3(t, u, v)
      /\ Count!compress_3_to_2(t, u, v).sum = Sum3(t, u, v)
  BY DEF Count!compress_3_to_2, Count!Xor, Carry3, Sum3
<1>2. \A c : Count!ShiftLeft(c, 1) = MovedUp(c, 1, 6)
  BY Zenon DEF Count!ShiftLeft, Count!Bit, MovedUp
<1>3. QED
  BY <1>1, <1>2, Zenon DEF Count!compress_3_to_2_W, Adder

\* Likewise for a number and its bits.
LEMMA CountBits ==
  ASSUME NEW a \in Nat
  PROVE  /\ Count!Bits(a) \in SUBSET Nat
         /\ Below(Count!Bits(a), 6) \in Nat /\ a - Below(Count!Bits(a), 6) \in Whole(2 ^ 6)
<1>1. Count!Bits(a) = BitsOf(a, 6)
  BY DEF Count!Bits, Count!Bit, BitsOf
<1>2. Below(Count!Bits(a), 6) = a % 2 ^ 6
  BY <1>1, BitsBelow
<1>3. PICK P \in Nat \ {0} : P = 2 ^ 6
  BY PowerPositive
<1>4. a % P \in 0 .. P - 1 /\ a - (a % P) \in Whole(P)
  <2>1. PICK b \in Int : b = a
    OBVIOUS
  <2>2. b % P \in 0 .. P - 1 /\ b - (b % P) \in Whole(P)
    BY WholeRest
  <2>3. QED
    BY <2>1, <2>2, Zenon
<1>5. Below(Count!Bits(a), 6) \in Nat
  BY BelowType
<1>6. Count!Bits(a) \in SUBSET Nat
  BY <1>1 DEF BitsOf
<1>7. QED
  BY <1>2, <1>3, <1>4, <1>5, <1>6

\* The zeros of a nibble.
NibbleZero(v, j) == IF (v \div 2 ^ j) % 2 = 0 THEN 1 ELSE 0
NibbleZeros(v) == NibbleZero(v, 0) + NibbleZero(v, 1) + NibbleZero(v, 2) + NibbleZero(v, 3)

\* The table holds the zeros of each nibble.
LEMMA LookedUpZeros ==
  ASSUME NEW v \in 0 .. 15
  PROVE  Count!count_zeros[v + 1] \in Nat /\ Count!count_zeros[v + 1] = NibbleZeros(v)
<1>1. 2 ^ 0 = 1 /\ 2 ^ 1 = 2 /\ 2 ^ 2 = 4 /\ 2 ^ 3 = 8
  OBVIOUS
<1>2. /\ NibbleZero(v, 0) = IF (v \div 1) % 2 = 0 THEN 1 ELSE 0
      /\ NibbleZero(v, 1) = IF (v \div 2) % 2 = 0 THEN 1 ELSE 0
      /\ NibbleZero(v, 2) = IF (v \div 4) % 2 = 0 THEN 1 ELSE 0
      /\ NibbleZero(v, 3) = IF (v \div 8) % 2 = 0 THEN 1 ELSE 0
  BY <1>1 DEF NibbleZero
<1>3. QED
  BY <1>2 DEF NibbleZeros, Count!count_zeros

\* A word for each nibble's zeros and what nothing drives, added up by the tree.
CountTree(a, g) ==
  LET r10 == Adder(a[0], a[1], a[2], 6)
      r12 == Adder(a[3], a[4], a[5], 6)
      r20 == Adder(a[6], a[7], r10[1], 6)
      r23 == Adder(r10[2], r12[1], r12[2], 6)
      r30 == Adder(r20[1], r20[2], g, 6)
      r40 == Adder(r23[1], r23[2], r30[1], 6)
  IN  Adder(r30[2], r40[1], r40[2], 6)

\* That is the sum of the model.
LEMMA CountIsTree ==
  ASSUME NEW x
  PROVE  Count!csa(x) = CountTree(Count!rnd_0(x), Count!Bits(reg.undriven))
<1>1. \A t, u, v : Count!compress_3_to_2_W(t, u, v) = Adder(t, u, v, 6)
  BY CountAdder
<1>2. QED
  BY <1>1, Zenon DEF Count!csa, CountTree

LEMMA WholeFour ==
  ASSUME NEW P \in Nat \ {0}, NEW a \in Whole(P), NEW b \in Whole(P), NEW c \in Whole(P),
         NEW d \in Whole(P)
  PROVE  a + b + c + d \in Whole(P)
<1>1. a + b \in Whole(P)
  BY WholeSums
<1>2. (a + b) + c \in Whole(P)
  BY <1>1, WholeSums
<1>3. ((a + b) + c) + d \in Whole(P)
  BY <1>2, WholeSums
<1>4. QED
  BY <1>3

\* The tree adds up what it is given.
LEMMA TreeAdds ==
  ASSUME NEW a, NEW g \in SUBSET Nat, \A i \in 0 .. 7 : a[i] \in SUBSET Nat,
         NEW r, r = CountTree(a, g)
  PROVE  /\ r[1] \in SUBSET Nat /\ r[2] \in SUBSET Nat
         /\ \E e \in Whole(2 ^ 6) :
              Below(r[1], 6) + Below(r[2], 6)
                = Below(a[0], 6) + Below(a[1], 6) + Below(a[2], 6) + Below(a[3], 6)
                  + Below(a[4], 6) + Below(a[5], 6) + Below(a[6], 6) + Below(a[7], 6)
                  + Below(g, 6) + e
<1> DEFINE V(w) == Below(w, 6)
<1>1. PICK P \in Nat \ {0} : P = 2 ^ 6
  BY PowerPositive
<1>2. PICK r10, r12, r20, r23, r30, r40 :
        /\ r10 = Adder(a[0], a[1], a[2], 6) /\ r12 = Adder(a[3], a[4], a[5], 6)
        /\ r20 = Adder(a[6], a[7], r10[1], 6) /\ r23 = Adder(r10[2], r12[1], r12[2], 6)
        /\ r30 = Adder(r20[1], r20[2], g, 6) /\ r40 = Adder(r23[1], r23[2], r30[1], 6)
        /\ r = Adder(r30[2], r40[1], r40[2], 6)
  BY Zenon DEF CountTree
<1>3. \A w : V(w) \in Nat
  BY BelowType
<1> HIDE DEF V
<1>4. /\ \A t, u, v : t \in SUBSET Nat /\ u \in SUBSET Nat /\ v \in SUBSET Nat =>
                       Summed(t, u, v, 6, Adder(t, u, v, 6))
      /\ a[0] \in SUBSET Nat /\ a[1] \in SUBSET Nat /\ a[2] \in SUBSET Nat
      /\ a[3] \in SUBSET Nat /\ a[4] \in SUBSET Nat /\ a[5] \in SUBSET Nat
      /\ a[6] \in SUBSET Nat /\ a[7] \in SUBSET Nat
  BY AdderAdds
<1>5. Summed(a[0], a[1], a[2], 6, r10)
  BY <1>2, <1>4, Zenon
<1>5a. PICK e1 \in Whole(P) : V(r10[1]) + V(r10[2]) = V(a[0]) + V(a[1]) + V(a[2]) + e1
  BY <1>1, <1>5, Zenon DEF Summed, V
<1>5b. r10[1] \in SUBSET Nat /\ r10[2] \in SUBSET Nat
  BY <1>5, Zenon DEF Summed
<1>6. Summed(a[3], a[4], a[5], 6, r12)
  BY <1>2, <1>4, Zenon
<1>6a. PICK e2 \in Whole(P) : V(r12[1]) + V(r12[2]) = V(a[3]) + V(a[4]) + V(a[5]) + e2
  BY <1>1, <1>6, Zenon DEF Summed, V
<1>6b. r12[1] \in SUBSET Nat /\ r12[2] \in SUBSET Nat
  BY <1>6, Zenon DEF Summed
<1>7. Summed(a[6], a[7], r10[1], 6, r20)
  BY <1>2, <1>4, <1>5b, Zenon
<1>7a. PICK e3 \in Whole(P) : V(r20[1]) + V(r20[2]) = V(a[6]) + V(a[7]) + V(r10[1]) + e3
  BY <1>1, <1>7, Zenon DEF Summed, V
<1>7b. r20[1] \in SUBSET Nat /\ r20[2] \in SUBSET Nat
  BY <1>7, Zenon DEF Summed
<1>8. Summed(r10[2], r12[1], r12[2], 6, r23)
  BY <1>2, <1>4, <1>5b, <1>6b, Zenon
<1>8a. PICK e4 \in Whole(P) : V(r23[1]) + V(r23[2]) = V(r10[2]) + V(r12[1]) + V(r12[2]) + e4
  BY <1>1, <1>8, Zenon DEF Summed, V
<1>8b. r23[1] \in SUBSET Nat /\ r23[2] \in SUBSET Nat
  BY <1>8, Zenon DEF Summed
<1>9. Summed(r20[1], r20[2], g, 6, r30)
  BY <1>2, <1>4, <1>7b, Zenon
<1>9a. PICK e5 \in Whole(P) : V(r30[1]) + V(r30[2]) = V(r20[1]) + V(r20[2]) + V(g) + e5
  BY <1>1, <1>9, Zenon DEF Summed, V
<1>9b. r30[1] \in SUBSET Nat /\ r30[2] \in SUBSET Nat
  BY <1>9, Zenon DEF Summed
<1>10. Summed(r23[1], r23[2], r30[1], 6, r40)
  BY <1>2, <1>4, <1>8b, <1>9b, Zenon
<1>10a. PICK e6 \in Whole(P) : V(r40[1]) + V(r40[2]) = V(r23[1]) + V(r23[2]) + V(r30[1]) + e6
  BY <1>1, <1>10, Zenon DEF Summed, V
<1>10b. r40[1] \in SUBSET Nat /\ r40[2] \in SUBSET Nat
  BY <1>10, Zenon DEF Summed
<1>11. Summed(r30[2], r40[1], r40[2], 6, r)
  <2>1. Summed(r30[2], r40[1], r40[2], 6, Adder(r30[2], r40[1], r40[2], 6))
    BY <1>4, <1>9b, <1>10b, Zenon
  <2>2. r = Adder(r30[2], r40[1], r40[2], 6)
    BY <1>2
  <2>3. QED
    BY <2>1, <2>2
<1>11a. PICK e7 \in Whole(P) : V(r[1]) + V(r[2]) = V(r30[2]) + V(r40[1]) + V(r40[2]) + e7
  BY <1>1, <1>11, Zenon DEF Summed, V
<1>11b. r[1] \in SUBSET Nat /\ r[2] \in SUBSET Nat
  BY <1>11, Zenon DEF Summed
<1>12. /\ e1 \in Int /\ e2 \in Int /\ e3 \in Int /\ e4 \in Int /\ e5 \in Int /\ e6 \in Int /\ e7 \in Int
  BY WholeSums
<1>13. PICK e \in Whole(P) : e = (e1 + e2 + e3 + e4) + (e5 + e6 + e7 + 0)
  <2>1. e1 + e2 + e3 + e4 \in Whole(P) /\ e5 + e6 + e7 + 0 \in Whole(P)
    BY WholeNone, WholeFour
  <2>2. QED
    BY <2>1, WholeSums
<1>14. V(r[1]) + V(r[2]) = V(a[0]) + V(a[1]) + V(a[2]) + V(a[3]) + V(a[4]) + V(a[5]) + V(a[6]) + V(a[7])
                         + V(g) + e
  <2>1. PICK s10, s20, s30, s40, t10, t20, t12, u12, u20, s23, t23, t30, t40 :
          /\ s10 = V(r10[1]) /\ t10 = V(r10[2]) /\ t12 = V(r12[1]) /\ u12 = V(r12[2])
          /\ s20 = V(r20[1]) /\ t20 = V(r20[2]) /\ s23 = V(r23[1]) /\ t23 = V(r23[2])
          /\ s30 = V(r30[1]) /\ t30 = V(r30[2]) /\ s40 = V(r40[1]) /\ t40 = V(r40[2])
    OBVIOUS
  <2>2. /\ s10 \in Nat /\ t10 \in Nat /\ t12 \in Nat /\ u12 \in Nat /\ s20 \in Nat /\ t20 \in Nat
        /\ s23 \in Nat /\ t23 \in Nat /\ s30 \in Nat /\ t30 \in Nat /\ s40 \in Nat /\ t40 \in Nat
    BY <1>3, <2>1
  <2>3. QED
    BY <1>3, <1>5a, <1>6a, <1>7a, <1>8a, <1>9a, <1>10a, <1>11a, <1>12, <1>13, <2>1, <2>2
<1>15. QED
  BY <1>1, <1>11b, <1>14 DEF V

\* The zeros of a word, nibble by nibble.
ZerosUpto(x, k) ==
  {at \in (0 .. 7) \X (0 .. 3) : 4 * at[1] + at[2] < k /\ (x[at[1]] \div 2 ^ at[2]) % 2 = 0}

LEMMA ZerosUptoFinite ==
  ASSUME NEW x, NEW k
  PROVE  IsFiniteSet(ZerosUpto(x, k)) /\ Cardinality(ZerosUpto(x, k)) \in Nat
<1>1. IsFiniteSet((0 .. 7) \X (0 .. 3))
  <2>1. IsFiniteSet(0 .. 7) /\ IsFiniteSet(0 .. 3)
    <3>1. \A n \in Int : IsFiniteSet(0 .. n)
      BY FS_Interval
    <3>2. 7 \in Int /\ 3 \in Int
      OBVIOUS
    <3>3. QED
      BY <3>1, <3>2, Zenon
  <2>2. QED
    BY <2>1, FS_Product
<1>2. ZerosUpto(x, k) \subseteq (0 .. 7) \X (0 .. 3)
  BY DEF ZerosUpto
<1>3. IsFiniteSet(ZerosUpto(x, k))
  BY <1>1, <1>2, FS_Subset
<1>4. QED
  BY <1>3, FS_CardinalityType

\* The next bit, the next nibble, and all of them.
LEMMA ZerosUptoNext ==
  ASSUME NEW x, NEW i \in 0 .. 7, NEW j \in 0 .. 3
  PROVE  Cardinality(ZerosUpto(x, 4 * i + j + 1))
           = Cardinality(ZerosUpto(x, 4 * i + j)) + NibbleZero(x[i], j)
<1>1. PICK S, T : S = ZerosUpto(x, 4 * i + j) /\ T = ZerosUpto(x, 4 * i + j + 1)
  OBVIOUS
<1>2. IsFiniteSet(S) /\ Cardinality(S) \in Nat
  BY <1>1, ZerosUptoFinite
<1>3. PICK k \in Nat : k = 4 * i + j
  OBVIOUS
<1>4. ASSUME NEW at \in (0 .. 7) \X (0 .. 3)
      PROVE  4 * at[1] + at[2] < k + 1 <=> 4 * at[1] + at[2] < k \/ at = <<i, j>>
  <2>1. PICK a \in 0 .. 7, b \in 0 .. 3 : at = <<a, b>>
    BY <1>4
  <2>2. at[1] = a /\ at[2] = b
    BY <2>1
  <2>3. 4 * a + b < k + 1 <=> 4 * a + b < k \/ (a = i /\ b = j)
    BY <1>3
  <2>4. QED
    BY <2>1, <2>2, <2>3
<1>5. <<i, j>> \notin S
  BY <1>1 DEF ZerosUpto
<1>6. CASE (x[i] \div 2 ^ j) % 2 = 0
  <2>1. T = S \cup {<<i, j>>}
    BY <1>1, <1>3, <1>4, <1>6 DEF ZerosUpto
  <2>2. Cardinality(T) = Cardinality(S) + 1
    BY <1>2, <1>5, <2>1, FS_AddElement
  <2>3. QED
    BY <1>1, <1>6, <2>2 DEF NibbleZero
<1>7. CASE (x[i] \div 2 ^ j) % 2 # 0
  <2>1. T = S
    BY <1>1, <1>3, <1>4, <1>7 DEF ZerosUpto
  <2>2. QED
    BY <1>1, <1>2, <1>7, <2>1 DEF NibbleZero
<1>8. QED
  BY <1>6, <1>7

LEMMA ZerosOfNibble ==
  ASSUME NEW x, NEW i \in 0 .. 7
  PROVE  Cardinality(ZerosUpto(x, 4 * i + 4))
           = Cardinality(ZerosUpto(x, 4 * i)) + NibbleZeros(x[i])
<1> DEFINE C(k) == Cardinality(ZerosUpto(x, k))
           Z(j) == NibbleZero(x[i], j)
<1>1. \A k : C(k) \in Nat
  BY ZerosUptoFinite
<1>2. \A j \in 0 .. 3 : C(4 * i + j + 1) = C(4 * i + j) + Z(j)
  BY ZerosUptoNext
<1>3. \A j : Z(j) \in Nat
  BY DEF NibbleZero
<1>4. NibbleZeros(x[i]) = Z(0) + Z(1) + Z(2) + Z(3)
  BY DEF NibbleZeros
<1> HIDE DEF C, Z
<1>5. PICK k \in Nat : k = 4 * i
  OBVIOUS
<1>6. /\ 4 * i + 0 = k /\ 4 * i + 0 + 1 = k + 1 /\ 4 * i + 1 = k + 1 /\ 4 * i + 1 + 1 = k + 2
      /\ 4 * i + 2 = k + 2 /\ 4 * i + 2 + 1 = k + 3 /\ 4 * i + 3 = k + 3 /\ 4 * i + 3 + 1 = k + 4
  BY <1>5
<1>7. C(k + 1) = C(k) + Z(0)
  <2>1. C(4 * i + 0 + 1) = C(4 * i + 0) + Z(0)
    BY <1>2
  <2>2. QED
    BY <1>6, <2>1, Zenon
<1>8. C(k + 2) = C(k + 1) + Z(1)
  <2>1. C(4 * i + 1 + 1) = C(4 * i + 1) + Z(1)
    BY <1>2
  <2>2. QED
    BY <1>6, <2>1, Zenon
<1>9. C(k + 3) = C(k + 2) + Z(2)
  <2>1. C(4 * i + 2 + 1) = C(4 * i + 2) + Z(2)
    BY <1>2
  <2>2. QED
    BY <1>6, <2>1, Zenon
<1>10. C(k + 4) = C(k + 3) + Z(3)
  <2>1. C(4 * i + 3 + 1) = C(4 * i + 3) + Z(3)
    BY <1>2
  <2>2. QED
    BY <1>6, <2>1, Zenon
<1>11. C(k + 4) = C(k) + NibbleZeros(x[i])
  BY <1>1, <1>3, <1>4, <1>7, <1>8, <1>9, <1>10
<1>12. 4 * i + 4 = k + 4
  BY <1>5
<1>13. QED
  BY <1>5, <1>11, <1>12 DEF C

LEMMA ZerosOfWord ==
  ASSUME NEW x
  PROVE  /\ Count!Zeros(x) \in 0 .. 32
         /\ Count!Zeros(x) = NibbleZeros(x[0]) + NibbleZeros(x[1]) + NibbleZeros(x[2]) + NibbleZeros(x[3])
                             + NibbleZeros(x[4]) + NibbleZeros(x[5]) + NibbleZeros(x[6]) + NibbleZeros(x[7])
<1> DEFINE C(k) == Cardinality(ZerosUpto(x, k))
           Z(i) == NibbleZeros(x[i])
<1>1. \A k : C(k) \in Nat
  BY ZerosUptoFinite
<1>2. \A i \in 0 .. 7 : C(4 * i + 4) = C(4 * i) + Z(i)
  BY ZerosOfNibble
<1>3. \A i : Z(i) \in 0 .. 4
  BY DEF NibbleZeros, NibbleZero
<1>4. C(0) = 0
  <2>1. ZerosUpto(x, 0) = {}
    BY DEF ZerosUpto
  <2>2. QED
    BY <2>1, FS_EmptySet
<1>5. Count!Zeros(x) = C(32)
  <2>1. Count!Zeros(x)
          = Count!Cardinality({at \in (0 .. 7) \X (0 .. 3) : (x[at[1]] \div 2 ^ at[2]) % 2 = 0})
    BY Zenon DEF Count!Zeros
  <2>2. \A S : Count!Cardinality(S) = Cardinality(S)
    BY DEF Count!Cardinality, Cardinality
  <2>3. ZerosUpto(x, 32) = {at \in (0 .. 7) \X (0 .. 3) : (x[at[1]] \div 2 ^ at[2]) % 2 = 0}
    BY DEF ZerosUpto
  <2>4. QED
    BY <2>1, <2>2, <2>3, Zenon
<1> HIDE DEF C, Z
<1>6. /\ C(4) = C(0) + Z(0) /\ C(8) = C(4) + Z(1) /\ C(12) = C(8) + Z(2) /\ C(16) = C(12) + Z(3)
      /\ C(20) = C(16) + Z(4) /\ C(24) = C(20) + Z(5) /\ C(28) = C(24) + Z(6) /\ C(32) = C(28) + Z(7)
  <2>1. C(4 * 0 + 4) = C(4 * 0) + Z(0) /\ C(4 * 1 + 4) = C(4 * 1) + Z(1)
    BY <1>2
  <2>2. C(4 * 2 + 4) = C(4 * 2) + Z(2) /\ C(4 * 3 + 4) = C(4 * 3) + Z(3)
    BY <1>2
  <2>3. C(4 * 4 + 4) = C(4 * 4) + Z(4) /\ C(4 * 5 + 4) = C(4 * 5) + Z(5)
    BY <1>2
  <2>4. C(4 * 6 + 4) = C(4 * 6) + Z(6) /\ C(4 * 7 + 4) = C(4 * 7) + Z(7)
    BY <1>2
  <2>5. QED
    BY <2>1, <2>2, <2>3, <2>4
<1>7. C(32) \in 0 .. 32 /\ C(32) = Z(0) + Z(1) + Z(2) + Z(3) + Z(4) + Z(5) + Z(6) + Z(7)
  BY <1>1, <1>3, <1>4, <1>6
<1>8. QED
  BY <1>5, <1>7 DEF Z

\* The two words are worth the zeros and what nothing drives.
LEMMA CountSums ==
  ASSUME NEW x \in [0 .. 7 -> 0 .. 15], reg.undriven \in 0 .. 63, NEW r, r = Count!csa(x)
  PROVE  /\ r[1] \in SUBSET Nat /\ r[2] \in SUBSET Nat
         /\ (Below(r[1], 6) + Below(r[2], 6)) - (Count!Zeros(x) + reg.undriven) \in Whole(2 ^ 6)
<1> DEFINE V(w) == Below(w, 6)
           Z(i) == NibbleZeros(x[i])
<1>1. PICK P \in Nat \ {0} : P = 2 ^ 6
  BY PowerPositive
<1>2. PICK a, g : a = Count!rnd_0(x) /\ g = Count!Bits(reg.undriven)
  OBVIOUS
<1>2a. PICK u \in Nat : u = reg.undriven
  OBVIOUS
<1>3. ASSUME NEW i \in 0 .. 7
      PROVE  a[i] \in SUBSET Nat /\ V(a[i]) \in Nat /\ Z(i) \in Nat /\ Z(i) - V(a[i]) \in Whole(P)
  <2>1. PICK v \in 0 .. 15 : v = x[i]
    OBVIOUS
  <2>2. PICK c \in Nat : c = Count!count_zeros[v + 1] /\ c = NibbleZeros(v)
    BY LookedUpZeros
  <2>3. a[i] = Count!Bits(c)
    BY <1>2, <2>1, <2>2, Zenon DEF Count!rnd_0
  <2>4. /\ Count!Bits(c) \in SUBSET Nat /\ Below(Count!Bits(c), 6) \in Nat
        /\ c - Below(Count!Bits(c), 6) \in Whole(P)
    BY <1>1, CountBits
  <2>5. QED
    BY <2>1, <2>2, <2>3, <2>4
<1>4. g \in SUBSET Nat /\ V(g) \in Nat /\ u - V(g) \in Whole(P)
  BY <1>1, <1>2, <1>2a, CountBits
<1>5. r = CountTree(a, g)
  BY <1>2, CountIsTree
<1>6. r[1] \in SUBSET Nat /\ r[2] \in SUBSET Nat
  BY <1>3, <1>4, <1>5, TreeAdds
<1>7. PICK e \in Whole(P) : V(r[1]) + V(r[2]) = V(a[0]) + V(a[1]) + V(a[2]) + V(a[3]) + V(a[4]) + V(a[5])
                                            + V(a[6]) + V(a[7]) + V(g) + e
  BY <1>1, <1>3, <1>4, <1>5, TreeAdds
<1>8. V(r[1]) \in Nat /\ V(r[2]) \in Nat
  BY BelowType
<1>9. PICK z \in Nat : z = Count!Zeros(x) /\ z = Z(0) + Z(1) + Z(2) + Z(3) + Z(4) + Z(5) + Z(6) + Z(7)
  BY ZerosOfWord
<1>10. (V(r[1]) + V(r[2])) - (z + u) \in Whole(P)
  <2> DEFINE D(i) == Z(i) - V(a[i])
  <2>1. \A i \in 0 .. 7 : D(i) \in Whole(P) /\ D(i) = Z(i) - V(a[i]) /\ Z(i) \in Nat /\ V(a[i]) \in Nat
    BY <1>3
  <2> HIDE DEF D, V, Z
  <2>2. /\ D(0) \in Whole(P) /\ D(1) \in Whole(P) /\ D(2) \in Whole(P) /\ D(3) \in Whole(P)
        /\ D(4) \in Whole(P) /\ D(5) \in Whole(P) /\ D(6) \in Whole(P) /\ D(7) \in Whole(P)
    BY <2>1
  <2>3. D(0) + D(1) + D(2) + D(3) \in Whole(P) /\ D(4) + D(5) + D(6) + D(7) \in Whole(P)
    BY <2>2, WholeFour
  <2>4. PICK f \in Whole(P), h \in Whole(P), k \in Whole(P) :
          f = D(0) + D(1) + D(2) + D(3) /\ h = D(4) + D(5) + D(6) + D(7) /\ k = u - V(g)
    BY <1>4, <2>3
  <2>5. (f + h) + k \in Whole(P)
    <3>1. f + h \in Whole(P)
      BY WholeSums
    <3>2. QED
      BY <3>1, WholeSums
  <2>6. e - ((f + h) + k) \in Whole(P)
    BY <2>5, WholeSums
  <2>7. e \in Int /\ f \in Int /\ h \in Int /\ k \in Int
    BY WholeSums
  <2>8. /\ D(0) = Z(0) - V(a[0]) /\ D(1) = Z(1) - V(a[1]) /\ D(2) = Z(2) - V(a[2]) /\ D(3) = Z(3) - V(a[3])
        /\ D(4) = Z(4) - V(a[4]) /\ D(5) = Z(5) - V(a[5]) /\ D(6) = Z(6) - V(a[6]) /\ D(7) = Z(7) - V(a[7])
    BY <2>1
  <2>9. /\ Z(0) \in Nat /\ Z(1) \in Nat /\ Z(2) \in Nat /\ Z(3) \in Nat
        /\ Z(4) \in Nat /\ Z(5) \in Nat /\ Z(6) \in Nat /\ Z(7) \in Nat
        /\ V(a[0]) \in Nat /\ V(a[1]) \in Nat /\ V(a[2]) \in Nat /\ V(a[3]) \in Nat
        /\ V(a[4]) \in Nat /\ V(a[5]) \in Nat /\ V(a[6]) \in Nat /\ V(a[7]) \in Nat
    BY <2>1
  <2>10. (V(r[1]) + V(r[2])) - (z + u) = e - ((f + h) + k)
    BY <1>2a, <1>4, <1>7, <1>8, <1>9, <2>4, <2>7, <2>8, <2>9
  <2>11. QED
    BY <2>6, <2>10
<1>11. QED
  BY <1>1, <1>2a, <1>6, <1>9, <1>10

\* Nothing is waited for but the count of the last word, and the two words are
\* worth that count and what nothing drives.
CountInv ==
  /\ reg \in [a_r : SUBSET Nat, b_r : SUBSET Nat, valid_r : BOOLEAN, undriven : 0 .. 63]
  /\ ~reg.valid_r => tb = <<>>
  /\ reg.valid_r =>
       \E z \in 0 .. 32 :
         /\ tb = <<z>>
         /\ (Below(reg.a_r, 6) + Below(reg.b_r, 6)) - (z + reg.undriven) \in Whole(2 ^ 6)

LEMMA CountInitInv == Count!Init => CountInv
<1> SUFFICES ASSUME Count!Init
             PROVE  CountInv
  OBVIOUS
<1>1. PICK u \in 0 .. 63 : reg = [a_r |-> {}, b_r |-> {}, valid_r |-> FALSE, undriven |-> u]
  BY SumsAssumption DEF Count!Init
<1>2. tb = <<>>
  BY DEF Count!Init
<1>3. QED
  BY <1>1, <1>2 DEF CountInv

LEMMA CountNextInv ==
  ASSUME CountInv, [Count!Next]_(Count!vars)
  PROVE  CountInv'
<1>1. Count!m_checker = <<>>
  <2>1. CASE ~reg.valid_r
    BY <2>1 DEF CountInv, Count!m_checker
  <2>2. CASE reg.valid_r
    <3>1. PICK z \in 0 .. 32 : tb = <<z>>
      BY <2>2 DEF CountInv
    <3>2. Tail(<<z>>) = <<>> /\ <<z>> # <<>>
      OBVIOUS
    <3>3. QED
      BY <2>2, <3>1, <3>2, Zenon DEF Count!m_checker
  <2>3. QED
    BY <2>1, <2>2
<1>2. CASE UNCHANGED <<reg, tb>>
  <2>1. reg' = reg /\ tb' = tb
    BY <1>2
  <2>2. CASE ~reg.valid_r
    BY <2>1, <2>2 DEF CountInv
  <2>3. CASE reg.valid_r
    <3>1. PICK z \in 0 .. 32 :
            /\ tb = <<z>>
            /\ (Below(reg.a_r, 6) + Below(reg.b_r, 6)) - (z + reg.undriven) \in Whole(2 ^ 6)
      BY <2>3 DEF CountInv
    <3>2. QED
      BY <2>1, <2>3, <3>1, Zenon DEF CountInv
  <2>4. QED
    BY <2>2, <2>3
<1>3. CASE Count!Idle
  BY <1>1, <1>3 DEF CountInv, Count!Idle
<1>4. CASE Count!Pass
  <2>1. PICK x \in CountWords :
          /\ reg' = [reg EXCEPT !.a_r = Count!csa(x)[1], !.b_r = Count!csa(x)[2], !.valid_r = TRUE]
          /\ tb' = Append(Count!m_checker, Count!Zeros(x))
    BY <1>4, Zenon DEF Count!Pass
  <2>2. x \in [0 .. 7 -> 0 .. 15] /\ reg.undriven \in 0 .. 63
    BY SumsAssumption DEF CountInv
  <2>3. PICK r : r = Count!csa(x)
    OBVIOUS
  <2>4. /\ r[1] \in SUBSET Nat /\ r[2] \in SUBSET Nat
        /\ (Below(r[1], 6) + Below(r[2], 6)) - (Count!Zeros(x) + reg.undriven) \in Whole(2 ^ 6)
    BY <2>2, <2>3, CountSums
  <2>5. PICK z \in 0 .. 32 : z = Count!Zeros(x)
    BY ZerosOfWord
  <2>6. tb' = <<z>>
    BY <1>1, <2>1, <2>5
  <2>7. reg'.a_r = r[1] /\ reg'.b_r = r[2] /\ reg'.valid_r = TRUE /\ reg'.undriven = reg.undriven
    <3>1. reg' = [reg EXCEPT !.a_r = r[1], !.b_r = r[2], !.valid_r = TRUE]
      BY <2>1, <2>3, Zenon
    <3>2. QED
      BY <3>1 DEF CountInv
  <2>8. reg' = [a_r |-> r[1], b_r |-> r[2], valid_r |-> TRUE, undriven |-> reg.undriven]
    <3>1. reg' = [reg EXCEPT !.a_r = r[1], !.b_r = r[2], !.valid_r = TRUE]
      BY <2>1, <2>3, Zenon
    <3>2. QED
      BY <3>1 DEF CountInv
  <2>9. reg' \in [a_r : SUBSET Nat, b_r : SUBSET Nat, valid_r : BOOLEAN, undriven : 0 .. 63]
    BY <2>2, <2>4, <2>8
  <2>10. (Below(reg'.a_r, 6) + Below(reg'.b_r, 6)) - (z + reg'.undriven) \in Whole(2 ^ 6)
    BY <2>4, <2>5, <2>7, Zenon
  <2>11. QED
    BY <2>6, <2>7, <2>9, <2>10 DEF CountInv
<1>5. QED
  BY <1>2, <1>3, <1>4 DEF Count!Next, Count!vars

LEMMA CountAnswers == CountInv => Count!AnswersAsExpected
<1> SUFFICES ASSUME CountInv
             PROVE  Count!AnswersAsExpected
  OBVIOUS
<1>1. CASE ~reg.valid_r
  BY <1>1 DEF CountInv, Count!AnswersAsExpected, Count!Validated
<1>2. CASE reg.valid_r
  <2>1. PICK z \in 0 .. 32 :
          /\ tb = <<z>>
          /\ (Below(reg.a_r, 6) + Below(reg.b_r, 6)) - (z + reg.undriven) \in Whole(2 ^ 6)
    BY <1>2 DEF CountInv
  <2>2. PICK P \in Nat \ {0} : P = 2 ^ 6 /\ P = 64
    OBVIOUS
  <2>3. PICK s \in Int, d \in Int :
          s = Below(reg.a_r, 6) + Below(reg.b_r, 6) /\ d = z + reg.undriven
    <3>1. Below(reg.a_r, 6) \in Nat /\ Below(reg.b_r, 6) \in Nat
      BY BelowType
    <3>2. reg.undriven \in Nat
      <4>1. reg.undriven \in 0 .. 63
        BY DEF CountInv
      <4>2. QED
        BY <4>1
    <3>3. QED
      BY <3>1, <3>2
  <2>4. s % P = d % P
    <3>1. PICK p, q : p = Below(reg.a_r, 6) + Below(reg.b_r, 6) /\ q = z + reg.undriven
      OBVIOUS
    <3>2. p - q \in Whole(2 ^ 6)
      BY <2>1, <3>1, Zenon
    <3>3. s = p /\ d = q /\ 2 ^ 6 = P
      BY <2>2, <2>3, <3>1, Zenon
    <3>4. s - d \in Whole(P)
      BY <3>2, <3>3, Zenon
    <3>5. QED
      BY <3>4, WholeSame
  <2>5. Count!y = s % P
    BY <2>2, <2>3, Values, Zenon DEF Count!y
  <2>6. Head(tb) = z /\ tb # <<>> /\ Len(tb) = 1
    BY <2>1
  <2>7. reg.undriven = 0 => Count!y = Head(tb)
    <3>1. reg.undriven = 0 => d = z
      BY <2>1, <2>3
    <3>2. z \in 0 .. P - 1
      BY <2>1, <2>2
    <3>3. z % P = z
      BY <2>2, <3>2
    <3>4. QED
      BY <2>4, <2>5, <2>6, <3>1, <3>3
  <2>8. QED
    BY <1>2, <2>6, <2>7 DEF Count!AnswersAsExpected, Count!Validated
<1>3. QED
  BY <1>1, <1>2

-----------------------------------------------------------------------------
(* fused_multiply_add.                                                     *)

\* The compressor and the bits, in words of FmaW bits.
LEMMA FmaAdder ==
  ASSUME NEW t, NEW u, NEW v
  PROVE  Fma!compress_3_to_2_W(t, u, v) = Adder(t, u, v, FmaW)
<1>1. /\ Fma!compress_3_to_2(t, u, v).carry = Carry3(t, u, v)
      /\ Fma!compress_3_to_2(t, u, v).sum = Sum3(t, u, v)
  BY DEF Fma!compress_3_to_2, Fma!Xor, Carry3, Sum3
<1>2. \A c : Fma!ShiftLeft(c, 1) = MovedUp(c, 1, FmaW)
  BY Zenon DEF Fma!ShiftLeft, Fma!Bit, MovedUp
<1>3. QED
  BY <1>1, <1>2, Zenon DEF Fma!compress_3_to_2_W, Adder

LEMMA FmaBits ==
  ASSUME NEW P \in Nat \ {0}, P = 2 ^ FmaW, NEW a \in Nat
  PROVE  /\ Fma!Bits(a) \in SUBSET Nat
         /\ Below(Fma!Bits(a), FmaW) \in Nat /\ a - Below(Fma!Bits(a), FmaW) \in Whole(P)
<1>1. Fma!Bits(a) = BitsOf(a, FmaW)
  BY DEF Fma!Bits, Fma!Bit, BitsOf
<1>2. Below(Fma!Bits(a), FmaW) = a % P
  BY <1>1, BitsBelow, Widths
<1>3. a % P \in 0 .. P - 1 /\ a - (a % P) \in Whole(P)
  <2>1. PICK b \in Int : b = a
    OBVIOUS
  <2>2. b % P \in 0 .. P - 1 /\ b - (b % P) \in Whole(P)
    BY WholeRest
  <2>3. QED
    BY <2>1, <2>2, Zenon
<1>4. Below(Fma!Bits(a), FmaW) \in Nat
  BY BelowType, Widths
<1>5. Fma!Bits(a) \in SUBSET Nat
  <2>1. \A i \in 0 .. FmaW - 1 : i \in Nat
    BY Widths
  <2>2. QED
    BY <1>1, <2>1 DEF BitsOf
<1>6. QED
  BY <1>2, <1>3, <1>4, <1>5

LEMMA BelowNone ==
  ASSUME NEW n \in Nat
  PROVE  Below({}, n) = 0
<1> DEFINE S == {k \in Nat : Below({}, k) = 0}
<1>1. 0 \in S
  BY BelowIs
<1>2. ASSUME NEW i \in Nat, i \in S
      PROVE  i + 1 \in S
  <2>1. Below({}, i) = 0 /\ Weight({}, i) = 0 /\ Below({}, i + 1) = Below({}, i) + Weight({}, i)
    BY <1>2, BelowIs DEF Weight
  <2>2. QED
    BY <2>1
<1> HIDE DEF S
<1>3. n \in S
  BY <1>1, <1>2, Onwards
<1>4. QED
  BY <1>3 DEF S

\* The three bits of m that digit k is recoded from, and the digit.
Triple(m, k) == ((2 * m) \div 4 ^ k) % 8
Digit(m, k) == Fma!booth_recode_radix_4[Triple(m, k) + 1]

\* A digit is one of five.
LEMMA DigitType ==
  ASSUME NEW m \in Nat, NEW k \in 0 .. 7
  PROVE  Triple(m, k) \in 0 .. 7 /\ Digit(m, k) \in -2 .. 2
<1>1. PICK Q \in Nat \ {0} : Q = 4 ^ k
  <2>1. 4 ^ 0 = 1 /\ 4 ^ 1 = 4 /\ 4 ^ 2 = 16 /\ 4 ^ 3 = 64
    OBVIOUS
  <2>2. 4 ^ 4 = 256 /\ 4 ^ 5 = 1024 /\ 4 ^ 6 = 4096 /\ 4 ^ 7 = 16384
    OBVIOUS
  <2>3. CASE k = 0
    BY <2>1, <2>2, <2>3
  <2>4. CASE k = 1
    BY <2>1, <2>2, <2>4
  <2>5. CASE k = 2
    BY <2>1, <2>2, <2>5
  <2>6. CASE k = 3
    BY <2>1, <2>2, <2>6
  <2>7. CASE k = 4
    BY <2>1, <2>2, <2>7
  <2>8. CASE k = 5
    BY <2>1, <2>2, <2>8
  <2>9. CASE k = 6
    BY <2>1, <2>2, <2>9
  <2>10. CASE k = 7
    BY <2>1, <2>2, <2>10
  <2>11. QED
    BY <2>3, <2>4, <2>5, <2>6, <2>7, <2>8, <2>9, <2>10
<1>2. (2 * m) \div Q \in Nat
  BY SMT
<1>3. Triple(m, k) \in 0 .. 7
  BY <1>1, <1>2 DEF Triple
<1>4. \A i \in 0 .. 7 : Fma!booth_recode_radix_4[i + 1] \in -2 .. 2
  BY DEF Fma!booth_recode_radix_4
<1>5. QED
  BY <1>3, <1>4 DEF Digit

\* Each of the eight words that are added is its digit times x, at its place.
LEMMA FmaMultiple ==
  ASSUME NEW P \in Nat \ {0}, P = 2 ^ FmaW, NEW m \in Nat, NEW x \in Nat, NEW k \in 0 .. 7
  PROVE  /\ Fma!acc(m, x)[k] \in SUBSET Nat
         /\ Below(Fma!acc(m, x)[k], FmaW) - (2 ^ (2 * k)) * (Digit(m, k) * x) \in Whole(P)
<1>1. PICK d \in Int, g \in Int : d = Digit(m, k) /\ g = d * x
  BY DigitType
<1>2. PICK c \in Nat : c = g % P /\ g - c \in Whole(P)
  <2>1. PICK r \in 0 .. P - 1 : r = g % P /\ g - r \in Whole(P)
    BY WholeRest
  <2>2. QED
    BY <2>1
<1>3. PICK b : b = Fma!Bits(c)
  OBVIOUS
<1>4. b \in SUBSET Nat /\ Below(b, FmaW) \in Nat /\ c - Below(b, FmaW) \in Whole(P)
  BY <1>3, FmaBits
<1>5. Fma!acc(m, x)[k] = MovedUp(b, 2 * k, FmaW)
  <2>1. Fma!acc(m, x)[k]
          = Fma!ShiftLeft(Fma!Bits((Fma!booth_recode_radix_4[(((2 * m) \div 4 ^ k) % 8) + 1] * x) % 2 ^ FmaW),
                          2 * k)
    BY Zenon DEF Fma!acc
  <2>2. Fma!booth_recode_radix_4[(((2 * m) \div 4 ^ k) % 8) + 1] = d
    BY <1>1, Zenon DEF Digit, Triple
  <2>3. Fma!acc(m, x)[k] = Fma!ShiftLeft(b, 2 * k)
    BY <1>1, <1>2, <1>3, <2>1, <2>2, Zenon
  <2>4. Fma!ShiftLeft(b, 2 * k) = MovedUp(b, 2 * k, FmaW)
    BY Zenon DEF Fma!ShiftLeft, Fma!Bit, MovedUp
  <2>5. QED
    BY <2>3, <2>4
<1>6. PICK j \in Nat : j = 2 * k
  OBVIOUS
<1>7. PICK Q \in Nat : Q = 2 ^ j
  BY PowerPositive
<1>8. PICK v \in Nat : v = Below(b, FmaW)
  BY <1>4
<1>9. PICK e \in Whole(P) : Below(MovedUp(b, j, FmaW), FmaW) = Q * v + e
  <2>1. FmaW \in Nat
    BY Widths
  <2>2. PICK e \in Whole(2 ^ FmaW) : Below(MovedUp(b, j, FmaW), FmaW) = (2 ^ j) * Below(b, FmaW) + e
    BY <1>4, <2>1, MovedUpBy
  <2>3. QED
    BY <1>7, <1>8, <2>2, Zenon
<1>10. (Q * v + e) - Q * g \in Whole(P)
  <2>1. PICK h \in Whole(P), i \in Whole(P) : h = g - c /\ i = c - v
    BY <1>2, <1>4, <1>8
  <2>2. h + i \in Whole(P)
    BY WholeSums
  <2>3. PICK w \in Whole(P) : w = h + i
    BY <2>2
  <2>4. Q * w \in Whole(P)
    BY WholeTimes
  <2>5. e - Q * w \in Whole(P)
    BY <2>4, WholeSums
  <2>6. w = g - v /\ e \in Int
    BY <2>1, <2>3, WholeSums
  <2>7. (Q * v + e) - Q * g = e - Q * w
    <3>1. Q * w = Q * g - Q * v
      BY <2>6
    <3>2. PICK p \in Int, q \in Int : p = Q * g /\ q = Q * v
      OBVIOUS
    <3>3. QED
      BY <2>6, <3>1, <3>2
  <2>8. QED
    BY <2>5, <2>7
<1>11. Fma!acc(m, x)[k] \in SUBSET Nat
  <2>1. \A i \in 0 .. FmaW - 1 : i \in Nat
    BY Widths
  <2>2. QED
    BY <1>5, <2>1 DEF MovedUp
<1>12. Below(Fma!acc(m, x)[k], FmaW) - (2 ^ (2 * k)) * (Digit(m, k) * x) = (Q * v + e) - Q * g
  BY <1>1, <1>5, <1>6, <1>7, <1>9, Zenon
<1>13. QED
  BY <1>10, <1>11, <1>12

\* A digit takes two bits off, and the next ones see what it owes.
LEMMA BoothStep ==
  ASSUME NEW t \in Nat
  PROVE  (t + 1) \div 2 = Fma!booth_recode_radix_4[(t % 8) + 1] + 4 * (((t \div 4) + 1) \div 2)
<1>1. PICK q \in Nat, r \in 0 .. 7 : t = 8 * q + r /\ r = t % 8
  <2>1. t \div 8 \in Nat /\ t % 8 \in 0 .. 7 /\ t = 8 * (t \div 8) + (t % 8)
    OBVIOUS
  <2>2. QED
    BY <2>1
<1>2. PICK b \in 0 .. 1 : (r < 4 => b = 0) /\ (r >= 4 => b = 1)
  <2>1. CASE r < 4
    BY <2>1
  <2>2. CASE r >= 4
    BY <2>2
  <2>3. QED
    BY <2>1, <2>2
<1>3. (t \div 4) = 2 * q + b
  BY <1>1, <1>2
<1>4. ((t \div 4) + 1) \div 2 = q + b
  BY <1>2, <1>3
<1>5. Fma!booth_recode_radix_4[r + 1] = ((r + 1) \div 2) - 4 * b
  BY <1>2 DEF Fma!booth_recode_radix_4
<1>6. (t + 1) \div 2 = 4 * q + ((r + 1) \div 2)
  BY <1>1
<1>7. QED
  BY <1>1, <1>4, <1>5, <1>6

LEMMA BoothTimes ==
  ASSUME NEW c \in Int, NEW d \in Int, NEW b \in Int, NEW x \in Int, c = d + 4 * b
  PROVE  c * x = d * x + 4 * (b * x)
  OBVIOUS

\* What the digits of m are worth, times x.
BoothSum(m, x) ==
  Digit(m, 0) * x + 4 * (Digit(m, 1) * x) + 16 * (Digit(m, 2) * x) + 64 * (Digit(m, 3) * x)
  + 256 * (Digit(m, 4) * x) + 1024 * (Digit(m, 5) * x) + 4096 * (Digit(m, 6) * x)
  + 16384 * (Digit(m, 7) * x)

\* A word of 16 bits as a signed number, which is m itself if m has 15 bits.
Signed(m) == IF m < 2 ^ 15 THEN m ELSE m - 2 ^ 16

\* The digits of m are those of m as a signed number.
LEMMA BoothDigits ==
  ASSUME NEW m \in 0 .. 2 ^ 16 - 1, NEW x \in Int
  PROVE  /\ Signed(m) \in Int
         /\ Signed(m) * x \in Int /\ Signed(m) * x = BoothSum(m, x)
<1>1. m \in Nat /\ m < 65536
  BY SMT
<1> DEFINE t(k) == (2 * m) \div 4 ^ k
           c(k) == (t(k) + 1) \div 2
           d(k) == Digit(m, k)
<1>2. /\ t(0) = 2 * m /\ t(1) = (2 * m) \div 4 /\ t(2) = (2 * m) \div 16 /\ t(3) = (2 * m) \div 64
      /\ t(4) = (2 * m) \div 256 /\ t(5) = (2 * m) \div 1024 /\ t(6) = (2 * m) \div 4096
      /\ t(7) = (2 * m) \div 16384 /\ t(8) = (2 * m) \div 65536
  BY <1>1
<1>3. \A k \in 0 .. 7 : t(k) \in Nat /\ t(k + 1) = t(k) \div 4
  <2>1. SUFFICES ASSUME NEW k \in 0 .. 7
                 PROVE  t(k) \in Nat /\ t(k + 1) = t(k) \div 4
    OBVIOUS
  <2>2. CASE k = 0
    <3>1. t(0) \in Nat /\ t(1) = t(0) \div 4
      BY <1>1, <1>2
    <3>2. QED
      BY <2>2, <3>1
  <2>3. CASE k = 1
    <3>1. t(1) \in Nat /\ t(2) = t(1) \div 4
      BY <1>1, <1>2
    <3>2. QED
      BY <2>3, <3>1
  <2>4. CASE k = 2
    <3>1. t(2) \in Nat /\ t(3) = t(2) \div 4
      BY <1>1, <1>2
    <3>2. QED
      BY <2>4, <3>1
  <2>5. CASE k = 3
    <3>1. t(3) \in Nat /\ t(4) = t(3) \div 4
      BY <1>1, <1>2
    <3>2. QED
      BY <2>5, <3>1
  <2>6. CASE k = 4
    <3>1. t(4) \in Nat /\ t(5) = t(4) \div 4
      BY <1>1, <1>2
    <3>2. QED
      BY <2>6, <3>1
  <2>7. CASE k = 5
    <3>1. t(5) \in Nat /\ t(6) = t(5) \div 4
      BY <1>1, <1>2
    <3>2. QED
      BY <2>7, <3>1
  <2>8. CASE k = 6
    <3>1. t(6) \in Nat /\ t(7) = t(6) \div 4
      BY <1>1, <1>2
    <3>2. QED
      BY <2>8, <3>1
  <2>9. CASE k = 7
    <3>1. t(7) \in Nat /\ t(8) = t(7) \div 4
      BY <1>1, <1>2
    <3>2. QED
      BY <2>9, <3>1
  <2>10. QED
    BY <2>2, <2>3, <2>4, <2>5, <2>6, <2>7, <2>8, <2>9
<1>4. ASSUME NEW k \in 0 .. 7
      PROVE  d(k) \in Int /\ c(k) \in Int /\ c(k + 1) \in Int /\ c(k) = d(k) + 4 * c(k + 1)
  <2>1. PICK i \in Nat, j \in Nat : i = t(k) /\ j = t(k + 1) /\ j = i \div 4
    <3>1. PICK i, j : i = t(k) /\ j = t(k + 1)
      OBVIOUS
    <3>2. i \in Nat /\ j = i \div 4
      BY <1>3, <3>1, Zenon
    <3>3. j \in Nat
      BY <3>2
    <3>4. QED
      BY <3>1, <3>2, <3>3
  <2>2. (i + 1) \div 2 = Fma!booth_recode_radix_4[(i % 8) + 1] + 4 * ((j + 1) \div 2)
    BY <2>1, BoothStep
  <2>3. d(k) = Fma!booth_recode_radix_4[(i % 8) + 1]
    BY <2>1, Zenon DEF Digit, Triple
  <2>4. d(k) \in Int
    BY <1>1, DigitType
  <2>5. (i + 1) \div 2 \in Int /\ (j + 1) \div 2 \in Int
    BY <2>1
  <2>6. QED
    BY <2>1, <2>2, <2>3, <2>4, <2>5, Zenon
<1>5. c(0) = m /\ c(8) = IF m < 32768 THEN 0 ELSE 1
  BY <1>1, <1>2
<1>6. Signed(m) = m - 65536 * c(8) /\ Signed(m) \in Int
  BY <1>1, <1>5 DEF Signed
<1> HIDE DEF t, c, d
<1>7. ASSUME NEW k \in 0 .. 7
      PROVE  c(k) * x = d(k) * x + 4 * (c(k + 1) * x)
  <2>1. PICK p \in Int, q \in Int, b \in Int : p = c(k) /\ q = d(k) /\ b = c(k + 1) /\ p = q + 4 * b
    BY <1>4
  <2>2. p * x = q * x + 4 * (b * x)
    BY <2>1, BoothTimes
  <2>3. QED
    BY <2>1, <2>2, Zenon
<1> DEFINE g(k) == d(k) * x
           y(k) == c(k) * x
<1>8. \A k \in 0 .. 7 : g(k) \in Int /\ y(k) \in Int /\ y(k + 1) \in Int /\ y(k) = g(k) + 4 * y(k + 1)
  BY <1>4, <1>7
<1>9. Signed(m) * x = y(0) - 65536 * y(8)
  <2>1. PICK e \in Int, s \in Int : e = c(8) /\ s = Signed(m) /\ s = m - 65536 * e
    BY <1>5, <1>6
  <2>2. s * x = m * x - 65536 * (e * x)
    BY <1>1, <2>1
  <2>3. y(0) = m * x /\ y(8) = e * x
    <3>1. c(0) = m
      BY <1>5
    <3>2. e = c(8)
      BY <2>1
    <3>3. QED
      BY <3>1, <3>2, Zenon
  <2>4. QED
    BY <2>1, <2>2, <2>3
<1> HIDE DEF g, y
<1>10. g(0) \in Int /\ y(0) \in Int /\ y(1) \in Int /\ y(0) = g(0) + 4 * y(1)
  <2>1. 0 \in 0 .. 7 /\ 0 + 1 = 1
    OBVIOUS
  <2>2. QED
    BY <1>8, <2>1, Zenon
<1>11. g(1) \in Int /\ y(1) \in Int /\ y(2) \in Int /\ y(1) = g(1) + 4 * y(2)
  <2>1. 1 \in 0 .. 7 /\ 1 + 1 = 2
    OBVIOUS
  <2>2. QED
    BY <1>8, <2>1, Zenon
<1>12. g(2) \in Int /\ y(2) \in Int /\ y(3) \in Int /\ y(2) = g(2) + 4 * y(3)
  <2>1. 2 \in 0 .. 7 /\ 2 + 1 = 3
    OBVIOUS
  <2>2. QED
    BY <1>8, <2>1, Zenon
<1>13. g(3) \in Int /\ y(3) \in Int /\ y(4) \in Int /\ y(3) = g(3) + 4 * y(4)
  <2>1. 3 \in 0 .. 7 /\ 3 + 1 = 4
    OBVIOUS
  <2>2. QED
    BY <1>8, <2>1, Zenon
<1>14. g(4) \in Int /\ y(4) \in Int /\ y(5) \in Int /\ y(4) = g(4) + 4 * y(5)
  <2>1. 4 \in 0 .. 7 /\ 4 + 1 = 5
    OBVIOUS
  <2>2. QED
    BY <1>8, <2>1, Zenon
<1>15. g(5) \in Int /\ y(5) \in Int /\ y(6) \in Int /\ y(5) = g(5) + 4 * y(6)
  <2>1. 5 \in 0 .. 7 /\ 5 + 1 = 6
    OBVIOUS
  <2>2. QED
    BY <1>8, <2>1, Zenon
<1>16. g(6) \in Int /\ y(6) \in Int /\ y(7) \in Int /\ y(6) = g(6) + 4 * y(7)
  <2>1. 6 \in 0 .. 7 /\ 6 + 1 = 7
    OBVIOUS
  <2>2. QED
    BY <1>8, <2>1, Zenon
<1>17. g(7) \in Int /\ y(7) \in Int /\ y(8) \in Int /\ y(7) = g(7) + 4 * y(8)
  <2>1. 7 \in 0 .. 7 /\ 7 + 1 = 8
    OBVIOUS
  <2>2. QED
    BY <1>8, <2>1, Zenon
<1>18. Signed(m) * x = g(0) + 4 * g(1) + 16 * g(2) + 64 * g(3) + 256 * g(4) + 1024 * g(5)
                           + 4096 * g(6) + 16384 * g(7)
  BY <1>9, <1>10, <1>11, <1>12, <1>13, <1>14, <1>15, <1>16, <1>17
<1>19. PICK s \in Int : s = Signed(m) * x
  <2>1. PICK f \in Int : f = Signed(m)
    BY <1>6
  <2>2. f * x \in Int
    OBVIOUS
  <2>3. QED
    BY <2>1, <2>2, Zenon
<1>20. QED
  BY <1>6, <1>18, <1>19 DEF g, d, BoothSum

\* The eight multiples, the addend and what is kept, added up by the network.
FmaNet(a, g, u, v) ==
  LET s0 == Fma!compress_3_to_2_W(a[2], a[1], a[0])
      s2 == Fma!compress_3_to_2_W(a[5], a[4], a[3])
      s4 == Fma!compress_3_to_2_W(s0[1], a[7], a[6])
      s6 == Fma!compress_3_to_2_W(s2[2], s2[1], s0[2])
      s8 == Fma!compress_3_to_2_W(s6[1], s4[2], s4[1])
      s10 == Fma!compress_3_to_2_W(s8[2], s8[1], s6[2])
      s12 == Fma!compress_3_to_2_W(s10[2], s10[1], g)
      s14 == Fma!compress_3_to_2_W(u, v, s12[1])
  IN  Fma!compress_3_to_2_W(s12[2], s14[1], s14[2])

\* That is the sum of the model.
LEMMA FmaIsNet ==
  ASSUME NEW m, NEW x, NEW c
  PROVE  Fma!csa(m, x, c) = FmaNet(Fma!acc(m, x), Fma!Bits(c), reg.csa_0_r, reg.csa_1_r)
  BY Zenon DEF Fma!csa, FmaNet

\* What eight words are worth together.
Eight(a) ==
  Below(a[0], FmaW) + Below(a[1], FmaW) + Below(a[2], FmaW) + Below(a[3], FmaW)
  + Below(a[4], FmaW) + Below(a[5], FmaW) + Below(a[6], FmaW) + Below(a[7], FmaW)

\* r is two words that are worth what the eight in a and g, u and v are.
NetAdds(a, g, u, v, r, P) ==
  /\ r[1] \in SUBSET Nat /\ r[2] \in SUBSET Nat
  /\ \E e \in Whole(P) :
       Below(r[1], FmaW) + Below(r[2], FmaW)
         = Eight(a) + Below(g, FmaW) + Below(u, FmaW) + Below(v, FmaW) + e

\* The network adds up what it is given.
LEMMA FmaNetAdds ==
  ASSUME NEW P \in Nat \ {0}, P = 2 ^ FmaW,
         NEW a, NEW g \in SUBSET Nat, NEW u \in SUBSET Nat, NEW v \in SUBSET Nat,
         \A i \in 0 .. 7 : a[i] \in SUBSET Nat, NEW r, r = FmaNet(a, g, u, v)
  PROVE  NetAdds(a, g, u, v, r, P)
<1> DEFINE V(w) == Below(w, FmaW)
<1>1. FmaW \in Nat
  BY Widths
<1>2. PICK s0, s2, s4, s6, s8, s10, s12, s14 :
        /\ s0 = Fma!compress_3_to_2_W(a[2], a[1], a[0])
        /\ s2 = Fma!compress_3_to_2_W(a[5], a[4], a[3])
        /\ s4 = Fma!compress_3_to_2_W(s0[1], a[7], a[6])
        /\ s6 = Fma!compress_3_to_2_W(s2[2], s2[1], s0[2])
        /\ s8 = Fma!compress_3_to_2_W(s6[1], s4[2], s4[1])
        /\ s10 = Fma!compress_3_to_2_W(s8[2], s8[1], s6[2])
        /\ s12 = Fma!compress_3_to_2_W(s10[2], s10[1], g)
        /\ s14 = Fma!compress_3_to_2_W(u, v, s12[1])
        /\ r = Fma!compress_3_to_2_W(s12[2], s14[1], s14[2])
  BY ZenonT(100) DEF FmaNet
<1>3. \A w : V(w) \in Nat
  BY <1>1, BelowType
<1> HIDE DEF V
<1>4. /\ \A t, x, y : t \in SUBSET Nat /\ x \in SUBSET Nat /\ y \in SUBSET Nat =>
                       Summed(t, x, y, FmaW, Fma!compress_3_to_2_W(t, x, y))
      /\ a[0] \in SUBSET Nat /\ a[1] \in SUBSET Nat /\ a[2] \in SUBSET Nat
      /\ a[3] \in SUBSET Nat /\ a[4] \in SUBSET Nat /\ a[5] \in SUBSET Nat
      /\ a[6] \in SUBSET Nat /\ a[7] \in SUBSET Nat
  <2>1. \A t, x, y : Fma!compress_3_to_2_W(t, x, y) = Adder(t, x, y, FmaW)
    BY FmaAdder
  <2>2. QED
    BY <1>1, <2>1, AdderAdds
<1>5. Summed(a[2], a[1], a[0], FmaW, s0)
  <2>1. Summed(a[2], a[1], a[0], FmaW, Fma!compress_3_to_2_W(a[2], a[1], a[0]))
    BY <1>4, Zenon
  <2>2. s0 = Fma!compress_3_to_2_W(a[2], a[1], a[0])
    BY <1>2
  <2>3. QED
    BY <2>1, <2>2
<1>5a. PICK e1 \in Whole(P) : V(s0[1]) + V(s0[2]) = V(a[2]) + V(a[1]) + V(a[0]) + e1
  BY <1>5, Zenon DEF Summed, V
<1>5b. s0[1] \in SUBSET Nat /\ s0[2] \in SUBSET Nat
  BY <1>5, Zenon DEF Summed
<1>6. Summed(a[5], a[4], a[3], FmaW, s2)
  <2>1. Summed(a[5], a[4], a[3], FmaW, Fma!compress_3_to_2_W(a[5], a[4], a[3]))
    BY <1>4, Zenon
  <2>2. s2 = Fma!compress_3_to_2_W(a[5], a[4], a[3])
    BY <1>2
  <2>3. QED
    BY <2>1, <2>2
<1>6a. PICK e2 \in Whole(P) : V(s2[1]) + V(s2[2]) = V(a[5]) + V(a[4]) + V(a[3]) + e2
  BY <1>6, Zenon DEF Summed, V
<1>6b. s2[1] \in SUBSET Nat /\ s2[2] \in SUBSET Nat
  BY <1>6, Zenon DEF Summed
<1>7. Summed(s0[1], a[7], a[6], FmaW, s4)
  <2>1. Summed(s0[1], a[7], a[6], FmaW, Fma!compress_3_to_2_W(s0[1], a[7], a[6]))
    BY <1>4, <1>5b, Zenon
  <2>2. s4 = Fma!compress_3_to_2_W(s0[1], a[7], a[6])
    BY <1>2
  <2>3. QED
    BY <2>1, <2>2
<1>7a. PICK e3 \in Whole(P) : V(s4[1]) + V(s4[2]) = V(s0[1]) + V(a[7]) + V(a[6]) + e3
  BY <1>7, Zenon DEF Summed, V
<1>7b. s4[1] \in SUBSET Nat /\ s4[2] \in SUBSET Nat
  BY <1>7, Zenon DEF Summed
<1>8. Summed(s2[2], s2[1], s0[2], FmaW, s6)
  <2>1. Summed(s2[2], s2[1], s0[2], FmaW, Fma!compress_3_to_2_W(s2[2], s2[1], s0[2]))
    BY <1>4, <1>6b, <1>5b, Zenon
  <2>2. s6 = Fma!compress_3_to_2_W(s2[2], s2[1], s0[2])
    BY <1>2
  <2>3. QED
    BY <2>1, <2>2
<1>8a. PICK e4 \in Whole(P) : V(s6[1]) + V(s6[2]) = V(s2[2]) + V(s2[1]) + V(s0[2]) + e4
  BY <1>8, Zenon DEF Summed, V
<1>8b. s6[1] \in SUBSET Nat /\ s6[2] \in SUBSET Nat
  BY <1>8, Zenon DEF Summed
<1>9. Summed(s6[1], s4[2], s4[1], FmaW, s8)
  <2>1. Summed(s6[1], s4[2], s4[1], FmaW, Fma!compress_3_to_2_W(s6[1], s4[2], s4[1]))
    BY <1>4, <1>8b, <1>7b, Zenon
  <2>2. s8 = Fma!compress_3_to_2_W(s6[1], s4[2], s4[1])
    BY <1>2
  <2>3. QED
    BY <2>1, <2>2
<1>9a. PICK e5 \in Whole(P) : V(s8[1]) + V(s8[2]) = V(s6[1]) + V(s4[2]) + V(s4[1]) + e5
  BY <1>9, Zenon DEF Summed, V
<1>9b. s8[1] \in SUBSET Nat /\ s8[2] \in SUBSET Nat
  BY <1>9, Zenon DEF Summed
<1>10. Summed(s8[2], s8[1], s6[2], FmaW, s10)
  <2>1. Summed(s8[2], s8[1], s6[2], FmaW, Fma!compress_3_to_2_W(s8[2], s8[1], s6[2]))
    BY <1>4, <1>9b, <1>8b, Zenon
  <2>2. s10 = Fma!compress_3_to_2_W(s8[2], s8[1], s6[2])
    BY <1>2
  <2>3. QED
    BY <2>1, <2>2
<1>10a. PICK e6 \in Whole(P) : V(s10[1]) + V(s10[2]) = V(s8[2]) + V(s8[1]) + V(s6[2]) + e6
  BY <1>10, Zenon DEF Summed, V
<1>10b. s10[1] \in SUBSET Nat /\ s10[2] \in SUBSET Nat
  BY <1>10, Zenon DEF Summed
<1>11. Summed(s10[2], s10[1], g, FmaW, s12)
  <2>1. Summed(s10[2], s10[1], g, FmaW, Fma!compress_3_to_2_W(s10[2], s10[1], g))
    BY <1>4, <1>10b, Zenon
  <2>2. s12 = Fma!compress_3_to_2_W(s10[2], s10[1], g)
    BY <1>2
  <2>3. QED
    BY <2>1, <2>2
<1>11a. PICK e7 \in Whole(P) : V(s12[1]) + V(s12[2]) = V(s10[2]) + V(s10[1]) + V(g) + e7
  BY <1>11, Zenon DEF Summed, V
<1>11b. s12[1] \in SUBSET Nat /\ s12[2] \in SUBSET Nat
  BY <1>11, Zenon DEF Summed
<1>12. Summed(u, v, s12[1], FmaW, s14)
  <2>1. Summed(u, v, s12[1], FmaW, Fma!compress_3_to_2_W(u, v, s12[1]))
    BY <1>4, <1>11b, Zenon
  <2>2. s14 = Fma!compress_3_to_2_W(u, v, s12[1])
    BY <1>2
  <2>3. QED
    BY <2>1, <2>2
<1>12a. PICK e8 \in Whole(P) : V(s14[1]) + V(s14[2]) = V(u) + V(v) + V(s12[1]) + e8
  BY <1>12, Zenon DEF Summed, V
<1>12b. s14[1] \in SUBSET Nat /\ s14[2] \in SUBSET Nat
  BY <1>12, Zenon DEF Summed
<1>13. Summed(s12[2], s14[1], s14[2], FmaW, r)
  <2>1. Summed(s12[2], s14[1], s14[2], FmaW, Fma!compress_3_to_2_W(s12[2], s14[1], s14[2]))
    BY <1>4, <1>11b, <1>12b, Zenon
  <2>2. r = Fma!compress_3_to_2_W(s12[2], s14[1], s14[2])
    BY <1>2
  <2>3. QED
    BY <2>1, <2>2
<1>13a. PICK e9 \in Whole(P) : V(r[1]) + V(r[2]) = V(s12[2]) + V(s14[1]) + V(s14[2]) + e9
  BY <1>13, Zenon DEF Summed, V
<1>13b. r[1] \in SUBSET Nat /\ r[2] \in SUBSET Nat
  BY <1>13, Zenon DEF Summed
<1>14. /\ e1 \in Int /\ e2 \in Int /\ e3 \in Int /\ e4 \in Int /\ e5 \in Int
       /\ e6 \in Int /\ e7 \in Int /\ e8 \in Int /\ e9 \in Int
  BY WholeSums
<1>15. PICK e \in Whole(P) : e = ((e1 + e2 + e3 + e4) + (e5 + e6 + e7 + e8)) + e9
  <2>1. e1 + e2 + e3 + e4 \in Whole(P) /\ e5 + e6 + e7 + e8 \in Whole(P)
    BY WholeFour
  <2>2. (e1 + e2 + e3 + e4) + (e5 + e6 + e7 + e8) \in Whole(P)
    BY <2>1, WholeSums
  <2>3. QED
    BY <2>2, WholeSums
<1>16. V(r[1]) + V(r[2]) = V(a[0]) + V(a[1]) + V(a[2]) + V(a[3]) + V(a[4]) + V(a[5]) + V(a[6]) + V(a[7])
                         + V(g) + V(u) + V(v) + e
  <2>1. PICK p0, p2, p4, p6, p8, p10, p12, p14, q0, q2, q4, q6, q8, q10, q12, q14 :
          /\ p0 = V(s0[1]) /\ q0 = V(s0[2])
          /\ p2 = V(s2[1]) /\ q2 = V(s2[2])
          /\ p4 = V(s4[1]) /\ q4 = V(s4[2])
          /\ p6 = V(s6[1]) /\ q6 = V(s6[2])
          /\ p8 = V(s8[1]) /\ q8 = V(s8[2])
          /\ p10 = V(s10[1]) /\ q10 = V(s10[2])
          /\ p12 = V(s12[1]) /\ q12 = V(s12[2])
          /\ p14 = V(s14[1]) /\ q14 = V(s14[2])
    OBVIOUS
  <2>2. /\ p0 \in Nat /\ q0 \in Nat
        /\ p2 \in Nat /\ q2 \in Nat
        /\ p4 \in Nat /\ q4 \in Nat
        /\ p6 \in Nat /\ q6 \in Nat
        /\ p8 \in Nat /\ q8 \in Nat
        /\ p10 \in Nat /\ q10 \in Nat
        /\ p12 \in Nat /\ q12 \in Nat
        /\ p14 \in Nat /\ q14 \in Nat
    BY <1>3, <2>1
  <2>3. QED
    BY <1>3, <1>5a, <1>6a, <1>7a, <1>8a, <1>9a, <1>10a, <1>11a, <1>12a, <1>13a, <1>14, <1>15, <2>1, <2>2
<1>17. QED
  BY <1>13b, <1>16 DEF V, Eight, NetAdds

\* The eight multiples are worth m times x, m as a signed number.
LEMMA FmaMultiples ==
  ASSUME NEW P \in Nat \ {0}, P = 2 ^ FmaW, NEW m \in 0 .. 2 ^ 16 - 1, NEW x \in Nat,
         NEW a, a = Fma!acc(m, x)
  PROVE  /\ Signed(m) * x \in Int
         /\ Eight(a) - Signed(m) * x \in Whole(P)
<1>1. m \in Nat /\ FmaW \in Nat
  BY Widths
<1> DEFINE V(k) == Below(a[k], FmaW)
           g(k) == Digit(m, k) * x
           D(k) == V(k) - (2 ^ (2 * k)) * g(k)
<1>2. \A k \in 0 .. 7 : V(k) \in Nat /\ g(k) \in Int /\ D(k) \in Whole(P) /\ D(k) \in Int
  <2>1. SUFFICES ASSUME NEW k \in 0 .. 7
                 PROVE  V(k) \in Nat /\ g(k) \in Int /\ D(k) \in Whole(P) /\ D(k) \in Int
    OBVIOUS
  <2>2. V(k) \in Nat
    BY <1>1, BelowType
  <2>3. PICK d \in Int : d = Digit(m, k)
    BY <1>1, DigitType
  <2>4. g(k) \in Int
    BY <2>3
  <2>5. D(k) \in Whole(P)
    BY <1>1, FmaMultiple
  <2>6. D(k) \in Int
    BY <2>5, WholeSums
  <2>7. QED
    BY <2>2, <2>4, <2>5, <2>6
<1>3. /\ D(0) = V(0) - g(0) /\ D(1) = V(1) - 4 * g(1) /\ D(2) = V(2) - 16 * g(2)
      /\ D(3) = V(3) - 64 * g(3) /\ D(4) = V(4) - 256 * g(4) /\ D(5) = V(5) - 1024 * g(5)
      /\ D(6) = V(6) - 4096 * g(6) /\ D(7) = V(7) - 16384 * g(7)
  <2> HIDE DEF V, g
  <2>1. D(0) = V(0) - g(0)
    <3>1. 2 * 0 = 0 /\ 2 ^ 0 = 1 /\ g(0) \in Int
      BY <1>2
    <3>2. QED
      BY <3>1
  <2>2. D(1) = V(1) - 4 * g(1)
    OBVIOUS
  <2>3. D(2) = V(2) - 16 * g(2)
    OBVIOUS
  <2>4. D(3) = V(3) - 64 * g(3)
    OBVIOUS
  <2>5. D(4) = V(4) - 256 * g(4)
    OBVIOUS
  <2>6. D(5) = V(5) - 1024 * g(5)
    OBVIOUS
  <2>7. D(6) = V(6) - 4096 * g(6)
    OBVIOUS
  <2>8. D(7) = V(7) - 16384 * g(7)
    OBVIOUS
  <2>9. QED
    BY <2>1, <2>2, <2>3, <2>4, <2>5, <2>6, <2>7, <2>8
<1>4. PICK s \in Int : /\ s = Signed(m) * x
                       /\ s = g(0) + 4 * g(1) + 16 * g(2) + 64 * g(3) + 256 * g(4) + 1024 * g(5)
                              + 4096 * g(6) + 16384 * g(7)
  <2>1. x \in Int
    OBVIOUS
  <2>2. Signed(m) * x \in Int /\ Signed(m) * x = BoothSum(m, x)
    BY <2>1, BoothDigits
  <2>3. BoothSum(m, x) = g(0) + 4 * g(1) + 16 * g(2) + 64 * g(3) + 256 * g(4) + 1024 * g(5)
                              + 4096 * g(6) + 16384 * g(7)
    BY DEF BoothSum
  <2>4. QED
    BY <2>2, <2>3
<1> HIDE DEF V, g, D
<1>5. /\ D(0) \in Whole(P) /\ D(1) \in Whole(P) /\ D(2) \in Whole(P) /\ D(3) \in Whole(P)
      /\ D(4) \in Whole(P) /\ D(5) \in Whole(P) /\ D(6) \in Whole(P) /\ D(7) \in Whole(P)
  BY <1>2
<1>6. D(0) + D(1) + D(2) + D(3) \in Whole(P) /\ D(4) + D(5) + D(6) + D(7) \in Whole(P)
  BY <1>5, WholeFour
<1>7. PICK i \in Whole(P), j \in Whole(P) :
        i = D(0) + D(1) + D(2) + D(3) /\ j = D(4) + D(5) + D(6) + D(7)
  BY <1>6
<1>8. i + j \in Whole(P) /\ i \in Int /\ j \in Int
  BY WholeSums
<1>9. /\ V(0) \in Nat /\ V(1) \in Nat /\ V(2) \in Nat /\ V(3) \in Nat
      /\ V(4) \in Nat /\ V(5) \in Nat /\ V(6) \in Nat /\ V(7) \in Nat
      /\ g(0) \in Int /\ g(1) \in Int /\ g(2) \in Int /\ g(3) \in Int
      /\ g(4) \in Int /\ g(5) \in Int /\ g(6) \in Int /\ g(7) \in Int
  BY <1>2
<1>10. (V(0) + V(1) + V(2) + V(3) + V(4) + V(5) + V(6) + V(7)) - s = i + j
  BY <1>3, <1>4, <1>7, <1>8, <1>9
<1>11. QED
  BY <1>4, <1>8, <1>10 DEF V, Eight

\* What the network makes of what is kept is what is kept, and m times x, and c.
LEMMA FmaSums ==
  ASSUME NEW P \in Nat \ {0}, P = 2 ^ FmaW,
         NEW m \in 0 .. 2 ^ 16 - 1, NEW x \in Nat, NEW c \in Nat,
         reg.csa_0_r \in SUBSET Nat, reg.csa_1_r \in SUBSET Nat, NEW r, r = Fma!csa(m, x, c)
  PROVE  /\ r[1] \in SUBSET Nat /\ r[2] \in SUBSET Nat
         /\ Signed(m) * x \in Int
         /\ (Below(r[1], FmaW) + Below(r[2], FmaW))
            - (Below(reg.csa_0_r, FmaW) + Below(reg.csa_1_r, FmaW) + Signed(m) * x + c) \in Whole(P)
<1> DEFINE V(w) == Below(w, FmaW)
<1>1. m \in Nat /\ FmaW \in Nat
  BY Widths
<1>2. \A w : V(w) \in Nat
  BY <1>1, BelowType
<1>3. PICK a, g, u, v :
        a = Fma!acc(m, x) /\ g = Fma!Bits(c) /\ u = reg.csa_0_r /\ v = reg.csa_1_r
  OBVIOUS
<1>3a. u \in SUBSET Nat /\ v \in SUBSET Nat
  BY <1>3
<1>4. \A k \in 0 .. 7 : a[k] \in SUBSET Nat
  BY <1>1, <1>3, FmaMultiple
<1>5. g \in SUBSET Nat /\ c - V(g) \in Whole(P)
  BY <1>3, FmaBits
<1>6. r = FmaNet(a, g, u, v)
  BY <1>3, FmaIsNet
<1>7. NetAdds(a, g, u, v, r, P)
  BY <1>3a, <1>4, <1>5, <1>6, FmaNetAdds
<1>8. PICK e \in Whole(P) : V(r[1]) + V(r[2]) = Eight(a) + V(g) + V(u) + V(v) + e
  BY <1>7, Zenon DEF NetAdds
<1>8a. r[1] \in SUBSET Nat /\ r[2] \in SUBSET Nat
  BY <1>7, Zenon DEF NetAdds
<1>9. PICK s \in Int : s = Signed(m) * x /\ Eight(a) - s \in Whole(P)
  BY <1>3, FmaMultiples
<1>9a. Eight(a) \in Nat
  <2>1. /\ V(a[0]) \in Nat /\ V(a[1]) \in Nat /\ V(a[2]) \in Nat /\ V(a[3]) \in Nat
        /\ V(a[4]) \in Nat /\ V(a[5]) \in Nat /\ V(a[6]) \in Nat /\ V(a[7]) \in Nat
    BY <1>2
  <2>2. QED
    BY <2>1 DEF Eight
<1> HIDE DEF V
<1>10. PICK d \in Whole(P), f \in Whole(P) :
         d = Eight(a) - s /\ f = c - V(g)
  BY <1>5, <1>9
<1>11. e + d \in Whole(P)
  BY WholeSums
<1>12. (e + d) - f \in Whole(P)
  BY <1>11, WholeSums
<1>13. e \in Int /\ d \in Int /\ f \in Int
  BY WholeSums
<1>14. (V(r[1]) + V(r[2])) - (V(u) + V(v) + s + c) = (e + d) - f
  <2>1. /\ V(r[1]) \in Nat /\ V(r[2]) \in Nat /\ V(g) \in Nat /\ V(u) \in Nat /\ V(v) \in Nat
    BY <1>2
  <2>2. QED
    BY <1>8, <1>9a, <1>10, <1>13, <2>1
<1>15. (V(r[1]) + V(r[2])) - (V(u) + V(v) + s + c) \in Whole(P)
  BY <1>12, <1>14
<1>16. QED
  BY <1>3, <1>8a, <1>9, <1>15 DEF V

\* The two words are worth the result so far, which is what is waited for
\* after a pass.
FmaInv ==
  /\ reg \in [csa_0_r : SUBSET Nat, csa_1_r : SUBSET Nat, y_valid_r : BOOLEAN]
  /\ tb.y \in 0 .. 2 ^ FmaW - 1
  /\ tb.expected = IF reg.y_valid_r THEN <<tb.y>> ELSE <<>>
  /\ tb = [y |-> tb.y, expected |-> tb.expected, n |-> tb.n]
  /\ (Below(reg.csa_0_r, FmaW) + Below(reg.csa_1_r, FmaW)) - tb.y \in Whole(2 ^ FmaW)

LEMMA FmaInitInv == Fma!Init => FmaInv
<1> SUFFICES ASSUME Fma!Init
             PROVE  FmaInv
  OBVIOUS
<1>1. PICK P \in Nat \ {0} : P = 2 ^ FmaW
  BY PowerPositive, Widths
<1>2. /\ reg = [csa_0_r |-> {}, csa_1_r |-> {}, y_valid_r |-> FALSE]
      /\ tb = [y |-> 0, expected |-> <<>>, n |-> FmaPasses]
  BY DEF Fma!Init
<1>3. Below({}, FmaW) = 0
  BY BelowNone, Widths
<1>4. (Below(reg.csa_0_r, FmaW) + Below(reg.csa_1_r, FmaW)) - tb.y = 0
  BY <1>2, <1>3
<1>5. 0 \in 0 .. P - 1 /\ 0 \in Whole(P)
  BY WholeNone
<1>6. QED
  BY <1>1, <1>2, <1>4, <1>5 DEF FmaInv

\* What the testbench adds to its result.
LEMMA FmaApply ==
  ASSUME NEW P \in Nat \ {0}, P = 2 ^ FmaW, tb.y \in Nat,
         NEW m \in Nat, NEW x \in Nat, NEW c \in Nat
  PROVE  /\ Fma!apply(m, x, c) \in 0 .. P - 1
         /\ (tb.y + m * x + c) - Fma!apply(m, x, c) \in Whole(P)
<1>1. PICK t \in Int : t = tb.y + m * x + c
  OBVIOUS
<1>2. t % P \in 0 .. P - 1 /\ t - (t % P) \in Whole(P)
  BY WholeRest
<1>3. Fma!apply(m, x, c) = t % P
  BY <1>1, Zenon DEF Fma!apply
<1>4. QED
  BY <1>1, <1>2, <1>3, Zenon

LEMMA FmaNextInv ==
  ASSUME FmaInv, [Fma!Next]_(Fma!vars)
  PROVE  FmaInv'
<1>1. PICK P \in Nat \ {0} : P = 2 ^ FmaW
  BY PowerPositive, Widths
<1>2. Fma!Checked = <<>>
  <2>1. CASE ~reg.y_valid_r
    BY <2>1 DEF FmaInv, Fma!Checked
  <2>2. CASE reg.y_valid_r
    <3>1. tb.expected = <<tb.y>>
      BY <2>2 DEF FmaInv
    <3>2. Tail(<<tb.y>>) = <<>> /\ <<tb.y>> # <<>>
      OBVIOUS
    <3>3. QED
      BY <2>2, <3>1, <3>2, Zenon DEF Fma!Checked
  <2>3. QED
    BY <2>1, <2>2
<1>3. CASE UNCHANGED <<reg, tb>>
  <2>1. reg' = reg /\ tb' = tb
    BY <1>3
  <2>2. QED
    BY <2>1, Zenon DEF FmaInv
<1>4. CASE Fma!Load
  <2>1. PICK i \in FmaInits :
          /\ reg' = [csa_0_r |-> Fma!Bits(i), csa_1_r |-> {}, y_valid_r |-> FALSE]
          /\ tb' = [y |-> i, expected |-> <<>>, n |-> 0]
    BY <1>2, <1>4 DEF Fma!Load
  <2>2. i \in 0 .. P - 1 /\ i \in Nat
    <3>1. FmaInits \subseteq 0 .. 2 ^ FmaW - 1
      BY SumsAssumption, Zenon
    <3>2. i \in 0 .. P - 1
      BY <1>1, <3>1, Zenon
    <3>3. QED
      BY <3>2
  <2>3. /\ Fma!Bits(i) \in SUBSET Nat
        /\ Below(Fma!Bits(i), FmaW) \in Nat /\ i - Below(Fma!Bits(i), FmaW) \in Whole(P)
    BY <1>1, <2>2, FmaBits
  <2>4. Below({}, FmaW) = 0
    BY BelowNone, Widths
  <2>5. PICK b \in Nat : b = Below(Fma!Bits(i), FmaW)
    BY <2>3
  <2>6. (b + 0) - i \in Whole(P)
    <3>1. 0 - (i - b) \in Whole(P)
      BY <2>3, <2>5, WholeNone, WholeSums
    <3>2. 0 - (i - b) = (b + 0) - i
      BY <2>2
    <3>3. QED
      BY <3>1, <3>2
  <2>7. /\ reg'.csa_0_r = Fma!Bits(i) /\ reg'.csa_1_r = {} /\ reg'.y_valid_r = FALSE
        /\ tb'.y = i /\ tb'.expected = <<>> /\ tb'.n = 0
        /\ reg' \in [csa_0_r : SUBSET Nat, csa_1_r : SUBSET Nat, y_valid_r : BOOLEAN]
    BY <2>1, <2>3
  <2>8. (Below(reg'.csa_0_r, FmaW) + Below(reg'.csa_1_r, FmaW)) - tb'.y \in Whole(2 ^ FmaW)
    BY <1>1, <2>4, <2>5, <2>6, <2>7, Zenon
  <2>9. QED
    BY <1>1, <2>1, <2>2, <2>7, <2>8 DEF FmaInv
<1>5. CASE Fma!Pass
  <2>1. PICK m \in FmaM, x \in FmaX, c \in FmaC :
          /\ reg' = [csa_0_r |-> Fma!csa(m, x, c)[1], csa_1_r |-> Fma!csa(m, x, c)[2], y_valid_r |-> TRUE]
          /\ tb' = [y |-> Fma!apply(m, x, c), expected |-> Append(Fma!Checked, Fma!apply(m, x, c)),
                    n |-> tb.n + 1]
    BY <1>5, Zenon DEF Fma!Pass
  <2>2. /\ m \in 0 .. 2 ^ 16 - 1 /\ m \in Nat /\ Signed(m) = m
        /\ x \in Nat /\ c \in Nat
    <3>1. FmaM \subseteq 0 .. 2 ^ 15 - 1 /\ FmaX \cup FmaC \subseteq 0 .. 2 ^ 16 - 1
      BY SumsAssumption, Zenon
    <3>2. m \in 0 .. 2 ^ 15 - 1 /\ x \in 0 .. 2 ^ 16 - 1 /\ c \in 0 .. 2 ^ 16 - 1
      BY <3>1, Zenon
    <3>3. m < 2 ^ 15 /\ m \in 0 .. 2 ^ 16 - 1 /\ m \in Nat /\ x \in Nat /\ c \in Nat
      BY <3>2
    <3>4. QED
      BY <3>3, Zenon DEF Signed
  <2>3. reg.csa_0_r \in SUBSET Nat /\ reg.csa_1_r \in SUBSET Nat
    BY DEF FmaInv
  <2>4. tb.y \in Nat
    BY <1>1 DEF FmaInv
  <2>5. PICK r : r = Fma!csa(m, x, c)
    OBVIOUS
  <2>6. /\ r[1] \in SUBSET Nat /\ r[2] \in SUBSET Nat
        /\ m * x \in Int
        /\ (Below(r[1], FmaW) + Below(r[2], FmaW))
           - (Below(reg.csa_0_r, FmaW) + Below(reg.csa_1_r, FmaW) + m * x + c) \in Whole(P)
    <3>1. \A s : s = Signed(m) * x <=> s = m * x
      BY <2>2, Zenon
    <3>2. /\ r[1] \in SUBSET Nat /\ r[2] \in SUBSET Nat
          /\ Signed(m) * x \in Int
          /\ (Below(r[1], FmaW) + Below(r[2], FmaW))
             - (Below(reg.csa_0_r, FmaW) + Below(reg.csa_1_r, FmaW) + Signed(m) * x + c) \in Whole(P)
      BY <1>1, <2>2, <2>3, <2>5, FmaSums
    <3>3. QED
      BY <3>1, <3>2, Zenon
  <2>7. PICK z : z = Fma!apply(m, x, c)
    OBVIOUS
  <2>8. z \in 0 .. P - 1 /\ (tb.y + m * x + c) - z \in Whole(P)
    BY <1>1, <2>2, <2>4, <2>6, <2>7, FmaApply
  <2>9. /\ reg' = [csa_0_r |-> r[1], csa_1_r |-> r[2], y_valid_r |-> TRUE]
        /\ tb' = [y |-> z, expected |-> <<z>>, n |-> tb.n + 1]
    <3>1. Append(<<>>, z) = <<z>>
      OBVIOUS
    <3>2. QED
      BY <1>2, <2>1, <2>5, <2>7, <3>1, Zenon
  <2>10. /\ reg'.csa_0_r = r[1] /\ reg'.csa_1_r = r[2] /\ reg'.y_valid_r = TRUE
         /\ tb'.y = z /\ tb'.expected = <<z>> /\ tb'.n = tb.n + 1
         /\ reg' \in [csa_0_r : SUBSET Nat, csa_1_r : SUBSET Nat, y_valid_r : BOOLEAN]
    BY <2>6, <2>9
  <2>11. (Below(r[1], FmaW) + Below(r[2], FmaW)) - z \in Whole(P)
    <3>1. PICK p \in Int, q \in Int, s \in Int, y \in Int, d \in Int :
            /\ p = Below(r[1], FmaW) + Below(r[2], FmaW)
            /\ q = Below(reg.csa_0_r, FmaW) + Below(reg.csa_1_r, FmaW)
            /\ s = m * x /\ y = tb.y /\ d = z
      <4>1. FmaW \in Nat
        BY Widths
      <4>2. \A w : Below(w, FmaW) \in Nat
        BY <4>1, BelowType
      <4>3. PICK a, b, e, f :
              /\ a = Below(r[1], FmaW) /\ b = Below(r[2], FmaW)
              /\ e = Below(reg.csa_0_r, FmaW) /\ f = Below(reg.csa_1_r, FmaW)
        OBVIOUS
      <4>4. a \in Nat /\ b \in Nat /\ e \in Nat /\ f \in Nat
        BY <4>2, <4>3, Zenon
      <4>5. a + b \in Int /\ e + f \in Int
        BY <4>4
      <4>6. m * x \in Int /\ tb.y \in Int /\ z \in Int
        BY <2>4, <2>6, <2>8
      <4>7. QED
        BY <4>3, <4>5, <4>6, Zenon
    <3>2. PICK e \in Whole(P), f \in Whole(P), g \in Whole(P) :
            e = q - y /\ f = p - (q + s + c) /\ g = (y + s + c) - d
      <4>1. q - y \in Whole(P)
        BY <1>1, <3>1, Zenon DEF FmaInv
      <4>2. p - (q + s + c) \in Whole(P)
        BY <2>6, <3>1, Zenon
      <4>3. (y + s + c) - d \in Whole(P)
        BY <2>8, <3>1, Zenon
      <4>4. QED
        BY <4>1, <4>2, <4>3
    <3>3. (e + f) + g \in Whole(P)
      <4>1. e + f \in Whole(P)
        BY WholeSums
      <4>2. QED
        BY <4>1, WholeSums
    <3>4. (e + f) + g = p - d
      BY <2>2, <3>2
    <3>5. p - d \in Whole(P)
      BY <3>3, <3>4
    <3>6. QED
      BY <3>1, <3>5, Zenon
  <2>12. (Below(reg'.csa_0_r, FmaW) + Below(reg'.csa_1_r, FmaW)) - tb'.y \in Whole(2 ^ FmaW)
    BY <1>1, <2>10, <2>11, Zenon
  <2>13. QED
    BY <1>1, <2>8, <2>9, <2>10, <2>12 DEF FmaInv
<1>6. CASE Fma!Idle
  <2>1. /\ reg' = [reg EXCEPT !.y_valid_r = FALSE]
        /\ tb' = [tb EXCEPT !.expected = <<>>]
    BY <1>2, <1>6, Zenon DEF Fma!Idle
  <2>2. reg' = [csa_0_r |-> reg.csa_0_r, csa_1_r |-> reg.csa_1_r, y_valid_r |-> FALSE]
    BY <2>1 DEF FmaInv
  <2>3. tb' = [y |-> tb.y, expected |-> <<>>, n |-> tb.n]
    <3>1. PICK y, e, n : tb = [y |-> y, expected |-> e, n |-> n]
      BY DEF FmaInv
    <3>2. QED
      BY <2>1, <3>1
  <2>4. /\ reg'.csa_0_r = reg.csa_0_r /\ reg'.csa_1_r = reg.csa_1_r /\ reg'.y_valid_r = FALSE
        /\ tb'.y = tb.y /\ tb'.expected = <<>> /\ tb'.n = tb.n
        /\ reg' \in [csa_0_r : SUBSET Nat, csa_1_r : SUBSET Nat, y_valid_r : BOOLEAN]
    BY <2>2, <2>3 DEF FmaInv
  <2>5. (Below(reg'.csa_0_r, FmaW) + Below(reg'.csa_1_r, FmaW)) - tb'.y \in Whole(2 ^ FmaW)
    BY <2>4, Zenon DEF FmaInv
  <2>6. QED
    BY <2>3, <2>4, <2>5 DEF FmaInv
<1>7. QED
  BY <1>3, <1>4, <1>5, <1>6 DEF Fma!Next, Fma!vars

LEMMA FmaAnswers == FmaInv => Fma!AnswersAsExpected
<1> SUFFICES ASSUME FmaInv
             PROVE  Fma!AnswersAsExpected
  OBVIOUS
<1>1. PICK P \in Nat \ {0} : P = 2 ^ FmaW
  BY PowerPositive, Widths
<1>2. PICK s \in Int : s = Below(reg.csa_0_r, FmaW) + Below(reg.csa_1_r, FmaW)
  <2>1. \A w : Below(w, FmaW) \in Nat
    BY BelowType, Widths
  <2>2. QED
    BY <2>1
<1>3. PICK y \in 0 .. P - 1 : y = tb.y
  BY <1>1 DEF FmaInv
<1>4. s - y \in Whole(P)
  BY <1>1, <1>2, <1>3, Zenon DEF FmaInv
<1>5. PICK r \in 0 .. P - 1 : r = s % P /\ s - r \in Whole(P)
  BY <1>2, WholeRest
<1>6. r = y
  <2>1. PICK a \in Whole(P), b \in Whole(P) : a = s - y /\ b = s - r
    BY <1>4, <1>5
  <2>2. a - b \in Whole(P)
    BY WholeSums
  <2>3. a - b = r - y
    BY <2>1
  <2>4. r - y \in Whole(P)
    BY <2>2, <2>3
  <2>5. QED
    BY <2>4, WholeSmall
<1>7. Fma!y_w = tb.y
  BY <1>1, <1>2, <1>3, <1>5, <1>6, Values, Zenon DEF Fma!y_w
<1>8. CASE ~reg.y_valid_r
  BY <1>7, <1>8 DEF FmaInv, Fma!AnswersAsExpected, Fma!Validated
<1>9. CASE reg.y_valid_r
  <2>1. tb.expected = <<tb.y>>
    BY <1>9 DEF FmaInv
  <2>2. Head(<<tb.y>>) = tb.y /\ <<tb.y>> # <<>> /\ Len(<<tb.y>>) = 1
    OBVIOUS
  <2>3. QED
    BY <1>7, <1>9, <2>1, <2>2, Zenon DEF Fma!AnswersAsExpected, Fma!Validated
<1>10. QED
  BY <1>8, <1>9

-----------------------------------------------------------------------------
(* The answers without registers.                                          *)

\* A bit as a number.
One(p) == IF p THEN 1 ELSE 0

LEMMA OneType == ASSUME NEW p PROVE One(p) \in 0 .. 1
  BY DEF One

\* A word of eight bits, bit by bit.
LEMMA WordBits ==
  ASSUME NEW x
  PROVE  Below(x, 8) = One(0 \in x) + 2 * One(1 \in x) + 4 * One(2 \in x) + 8 * One(3 \in x)
                       + 16 * One(4 \in x) + 32 * One(5 \in x) + 64 * One(6 \in x) + 128 * One(7 \in x)
<1> DEFINE V(n) == Below(x, n)
           B(n) == One(n \in x)
<1>1. \A n \in Nat : V(n + 1) = V(n) + Weight(x, n) /\ V(n) \in Nat
  BY BelowIs, BelowType
<1>2. \A n \in Nat : B(n) \in 0 .. 1
  BY OneType
<1>3. V(0) = 0
  BY BelowIs
<1>4. /\ Weight(x, 0) = B(0) /\ Weight(x, 1) = 2 * B(1) /\ Weight(x, 2) = 4 * B(2)
      /\ Weight(x, 3) = 8 * B(3) /\ Weight(x, 4) = 16 * B(4) /\ Weight(x, 5) = 32 * B(5)
      /\ Weight(x, 6) = 64 * B(6) /\ Weight(x, 7) = 128 * B(7)
  <2>1. /\ 2 ^ 0 = 1 /\ 2 ^ 1 = 2 /\ 2 ^ 2 = 4 /\ 2 ^ 3 = 8 /\ 2 ^ 4 = 16 /\ 2 ^ 5 = 32
        /\ 2 ^ 6 = 64 /\ 2 ^ 7 = 128
    OBVIOUS
  <2>2. QED
    BY <2>1 DEF Weight, One
<1> HIDE DEF V, B
<1>5. /\ V(1) = V(0) + Weight(x, 0) /\ V(2) = V(1) + Weight(x, 1) /\ V(3) = V(2) + Weight(x, 2)
      /\ V(4) = V(3) + Weight(x, 3)
  <2>1. /\ V(0 + 1) = V(0) + Weight(x, 0) /\ V(1 + 1) = V(1) + Weight(x, 1)
        /\ V(2 + 1) = V(2) + Weight(x, 2) /\ V(3 + 1) = V(3) + Weight(x, 3)
    BY <1>1
  <2>2. QED
    BY <2>1
<1>6. /\ V(5) = V(4) + Weight(x, 4) /\ V(6) = V(5) + Weight(x, 5) /\ V(7) = V(6) + Weight(x, 6)
      /\ V(8) = V(7) + Weight(x, 7)
  <2>1. /\ V(4 + 1) = V(4) + Weight(x, 4) /\ V(5 + 1) = V(5) + Weight(x, 5)
        /\ V(6 + 1) = V(6) + Weight(x, 6) /\ V(7 + 1) = V(7) + Weight(x, 7)
    BY <1>1
  <2>2. QED
    BY <2>1
<1>7. /\ B(0) \in 0 .. 1 /\ B(1) \in 0 .. 1 /\ B(2) \in 0 .. 1 /\ B(3) \in 0 .. 1
      /\ B(4) \in 0 .. 1 /\ B(5) \in 0 .. 1 /\ B(6) \in 0 .. 1 /\ B(7) \in 0 .. 1
  BY <1>2
<1>8. V(8) = B(0) + 2 * B(1) + 4 * B(2) + 8 * B(3) + 16 * B(4) + 32 * B(5) + 64 * B(6) + 128 * B(7)
  BY <1>3, <1>4, <1>5, <1>6, <1>7
<1>9. QED
  BY <1>8 DEF V, B

LEMMA CombCardinality == ASSUME NEW S PROVE Comb!Cardinality(S) = Cardinality(S)
  BY DEF Comb!Cardinality, Cardinality

\* The number of bits of a word below a place.
LEMMA CountNext ==
  ASSUME NEW x, NEW k \in Nat
  PROVE  /\ Cardinality(x \cap 0 .. k - 1) \in Nat
         /\ Cardinality(x \cap 0 .. k) = Cardinality(x \cap 0 .. k - 1) + One(k \in x)
<1>1. PICK S, T : S = x \cap 0 .. k - 1 /\ T = x \cap 0 .. k
  OBVIOUS
<1>2. IsFiniteSet(S) /\ Cardinality(S) \in Nat
  <2>1. PICK n \in Int : n = k - 1
    OBVIOUS
  <2>2. IsFiniteSet(0 .. n)
    BY FS_Interval
  <2>3. IsFiniteSet(S)
    BY <1>1, <2>1, <2>2, FS_Subset
  <2>4. QED
    BY <2>3, FS_CardinalityType
<1>3. k \notin S
  BY <1>1
<1>4. CASE k \in x
  <2>1. T = S \cup {k}
    BY <1>1, <1>4
  <2>2. Cardinality(T) = Cardinality(S) + 1
    BY <1>2, <1>3, <2>1, FS_AddElement
  <2>3. One(k \in x) = 1
    BY <1>4 DEF One
  <2>4. QED
    BY <1>1, <1>2, <2>2, <2>3, Zenon
<1>5. CASE k \notin x
  <2>1. T = S
    BY <1>1, <1>5
  <2>2. One(k \in x) = 0
    BY <1>5 DEF One
  <2>3. Cardinality(S) + 0 = Cardinality(S)
    BY <1>2
  <2>4. QED
    BY <1>1, <1>2, <2>1, <2>2, <2>3, Zenon
<1>6. QED
  BY <1>4, <1>5

\* The number of bits of a word.
LEMMA CountWord ==
  ASSUME NEW x \in SUBSET (0 .. 7)
  PROVE  Cardinality(x) = One(0 \in x) + One(1 \in x) + One(2 \in x) + One(3 \in x)
                          + One(4 \in x) + One(5 \in x) + One(6 \in x) + One(7 \in x)
<1> DEFINE C(k) == Cardinality(x \cap 0 .. k)
           B(k) == One(k \in x)
<1>1. \A k \in Nat : B(k) \in 0 .. 1
  BY OneType
<1>2. C(0) = B(0)
  <2>1. Cardinality(x \cap 0 .. 0) = Cardinality(x \cap 0 .. 0 - 1) + One(0 \in x)
    BY CountNext
  <2>2. x \cap 0 .. 0 - 1 = {}
    OBVIOUS
  <2>3. Cardinality(x \cap 0 .. 0 - 1) = 0
    BY <2>2, FS_EmptySet
  <2>4. QED
    BY <1>1, <2>1, <2>3
<1>3. ASSUME NEW k \in Nat
      PROVE  C(k) \in Nat /\ C(k + 1) = C(k) + B(k + 1)
  <2>1. PICK j \in Nat : j = k + 1
    OBVIOUS
  <2>2. /\ Cardinality(x \cap 0 .. j - 1) \in Nat
        /\ Cardinality(x \cap 0 .. j) = Cardinality(x \cap 0 .. j - 1) + One(j \in x)
    BY CountNext
  <2>3. j - 1 = k
    BY <2>1
  <2>4. QED
    BY <2>1, <2>2, <2>3
<1>4. C(7) = Cardinality(x)
  <2>1. x \cap 0 .. 7 = x
    OBVIOUS
  <2>2. QED
    BY <2>1, Zenon
<1> HIDE DEF C, B
<1>5. /\ C(1) = C(0) + B(1) /\ C(2) = C(1) + B(2) /\ C(3) = C(2) + B(3) /\ C(4) = C(3) + B(4)
  <2>1. /\ C(0 + 1) = C(0) + B(0 + 1) /\ C(1 + 1) = C(1) + B(1 + 1) /\ C(2 + 1) = C(2) + B(2 + 1)
        /\ C(3 + 1) = C(3) + B(3 + 1)
    BY <1>3
  <2>2. QED
    BY <2>1
<1>6. /\ C(5) = C(4) + B(5) /\ C(6) = C(5) + B(6) /\ C(7) = C(6) + B(7)
  <2>1. /\ C(4 + 1) = C(4) + B(4 + 1) /\ C(5 + 1) = C(5) + B(5 + 1) /\ C(6 + 1) = C(6) + B(6 + 1)
    BY <1>3
  <2>2. QED
    BY <2>1
<1>7. /\ B(0) \in 0 .. 1 /\ B(1) \in 0 .. 1 /\ B(2) \in 0 .. 1 /\ B(3) \in 0 .. 1
      /\ B(4) \in 0 .. 1 /\ B(5) \in 0 .. 1 /\ B(6) \in 0 .. 1 /\ B(7) \in 0 .. 1
  BY <1>1
<1>8. C(7) = B(0) + B(1) + B(2) + B(3) + B(4) + B(5) + B(6) + B(7)
  BY <1>2, <1>5, <1>6, <1>7
<1>9. QED
  BY <1>4, <1>8 DEF B

\* r is the sum of three bits.
Adds(r, a, b, c) ==
  /\ r.s \in BOOLEAN /\ r.c \in BOOLEAN
  /\ 2 * One(r.c) + One(r.s) = One(a) + One(b) + One(c)
  /\ Comb!Num(r) = One(a) + One(b) + One(c)

\* A full adder counts its bits.
LEMMA FullAdder ==
  ASSUME NEW a \in BOOLEAN, NEW b \in BOOLEAN, NEW cin \in BOOLEAN
  PROVE  Adds(Comb!full_adder(a, b, cin), a, b, cin)
<1>0. PICK r : r = Comb!full_adder(a, b, cin)
  OBVIOUS
<1>1. r.s = ((a # b) # cin) /\ r.c = ((a /\ b) \/ (cin /\ (a \/ b)))
  BY <1>0 DEF Comb!full_adder
<1>2. Comb!Num(r) = 2 * One(r.c) + One(r.s)
  BY DEF Comb!Num, One
<1>3. One(TRUE) = 1 /\ One(FALSE) = 0
  BY DEF One
<1>4. ASSUME a = TRUE /\ b = TRUE /\ cin = TRUE
      PROVE  Adds(r, a, b, cin)
  <2>1. r.s = TRUE /\ r.c = TRUE
    BY <1>1, <1>4, Zenon
  <2>2. /\ One(a) = 1 /\ One(b) = 1 /\ One(cin) = 1
        /\ One(r.s) = 1 /\ One(r.c) = 1 /\ r.s \in BOOLEAN /\ r.c \in BOOLEAN
    BY <1>3, <1>4, <2>1, Zenon
  <2>3. QED
    BY <1>2, <2>2 DEF Adds
<1>5. ASSUME a = TRUE /\ b = TRUE /\ cin = FALSE
      PROVE  Adds(r, a, b, cin)
  <2>1. r.s = FALSE /\ r.c = TRUE
    BY <1>1, <1>5, Zenon
  <2>2. /\ One(a) = 1 /\ One(b) = 1 /\ One(cin) = 0
        /\ One(r.s) = 0 /\ One(r.c) = 1 /\ r.s \in BOOLEAN /\ r.c \in BOOLEAN
    BY <1>3, <1>5, <2>1, Zenon
  <2>3. QED
    BY <1>2, <2>2 DEF Adds
<1>6. ASSUME a = TRUE /\ b = FALSE /\ cin = TRUE
      PROVE  Adds(r, a, b, cin)
  <2>1. r.s = FALSE /\ r.c = TRUE
    BY <1>1, <1>6, Zenon
  <2>2. /\ One(a) = 1 /\ One(b) = 0 /\ One(cin) = 1
        /\ One(r.s) = 0 /\ One(r.c) = 1 /\ r.s \in BOOLEAN /\ r.c \in BOOLEAN
    BY <1>3, <1>6, <2>1, Zenon
  <2>3. QED
    BY <1>2, <2>2 DEF Adds
<1>7. ASSUME a = TRUE /\ b = FALSE /\ cin = FALSE
      PROVE  Adds(r, a, b, cin)
  <2>1. r.s = TRUE /\ r.c = FALSE
    BY <1>1, <1>7, Zenon
  <2>2. /\ One(a) = 1 /\ One(b) = 0 /\ One(cin) = 0
        /\ One(r.s) = 1 /\ One(r.c) = 0 /\ r.s \in BOOLEAN /\ r.c \in BOOLEAN
    BY <1>3, <1>7, <2>1, Zenon
  <2>3. QED
    BY <1>2, <2>2 DEF Adds
<1>8. ASSUME a = FALSE /\ b = TRUE /\ cin = TRUE
      PROVE  Adds(r, a, b, cin)
  <2>1. r.s = FALSE /\ r.c = TRUE
    BY <1>1, <1>8, Zenon
  <2>2. /\ One(a) = 0 /\ One(b) = 1 /\ One(cin) = 1
        /\ One(r.s) = 0 /\ One(r.c) = 1 /\ r.s \in BOOLEAN /\ r.c \in BOOLEAN
    BY <1>3, <1>8, <2>1, Zenon
  <2>3. QED
    BY <1>2, <2>2 DEF Adds
<1>9. ASSUME a = FALSE /\ b = TRUE /\ cin = FALSE
      PROVE  Adds(r, a, b, cin)
  <2>1. r.s = TRUE /\ r.c = FALSE
    BY <1>1, <1>9, Zenon
  <2>2. /\ One(a) = 0 /\ One(b) = 1 /\ One(cin) = 0
        /\ One(r.s) = 1 /\ One(r.c) = 0 /\ r.s \in BOOLEAN /\ r.c \in BOOLEAN
    BY <1>3, <1>9, <2>1, Zenon
  <2>3. QED
    BY <1>2, <2>2 DEF Adds
<1>10. ASSUME a = FALSE /\ b = FALSE /\ cin = TRUE
      PROVE  Adds(r, a, b, cin)
  <2>1. r.s = TRUE /\ r.c = FALSE
    BY <1>1, <1>10, Zenon
  <2>2. /\ One(a) = 0 /\ One(b) = 0 /\ One(cin) = 1
        /\ One(r.s) = 1 /\ One(r.c) = 0 /\ r.s \in BOOLEAN /\ r.c \in BOOLEAN
    BY <1>3, <1>10, <2>1, Zenon
  <2>3. QED
    BY <1>2, <2>2 DEF Adds
<1>11. ASSUME a = FALSE /\ b = FALSE /\ cin = FALSE
      PROVE  Adds(r, a, b, cin)
  <2>1. r.s = FALSE /\ r.c = FALSE
    BY <1>1, <1>11, Zenon
  <2>2. /\ One(a) = 0 /\ One(b) = 0 /\ One(cin) = 0
        /\ One(r.s) = 0 /\ One(r.c) = 0 /\ r.s \in BOOLEAN /\ r.c \in BOOLEAN
    BY <1>3, <1>11, <2>1, Zenon
  <2>3. QED
    BY <1>2, <2>2 DEF Adds
<1>12. Adds(r, a, b, cin)
  BY <1>4, <1>5, <1>6, <1>7, <1>8, <1>9, <1>10, <1>11
<1>13. QED
  BY <1>0, <1>12, Zenon

\* Likewise for three bits of a word.
LEMMA ThreeAdds ==
  ASSUME NEW x, NEW i \in Nat
  PROVE  Adds(Comb!Three(x, i), i + 2 \in x, i + 1 \in x, i \in x)
<1>1. PICK a, b, c : a = (i + 2 \in x) /\ b = (i + 1 \in x) /\ c = (i \in x)
  OBVIOUS
<1>2. a \in BOOLEAN /\ b \in BOOLEAN /\ c \in BOOLEAN
  BY <1>1
<1>3. Adds(Comb!full_adder(a, b, c), a, b, c)
  BY <1>2, FullAdder, Zenon
<1>4. QED
  BY <1>1, <1>3, Zenon DEF Comb!Three

-----------------------------------------------------------------------------
(* count_ones.                                                             *)

\* The ones of a nibble, looked up.
LEMMA LookedUpOnes ==
  ASSUME NEW a \in 0 .. 1, NEW b \in 0 .. 1, NEW c \in 0 .. 1, NEW d \in 0 .. 1
  PROVE  Comb!LUT[(a + 2 * b + 4 * c + 8 * d) + 1] = a + b + c + d
<1>1. a \in {0, 1} /\ b \in {0, 1} /\ c \in {0, 1} /\ d \in {0, 1}
  OBVIOUS
<1>2. CASE c = 0 /\ d = 0
  BY <1>1, <1>2 DEF Comb!LUT
<1>3. CASE c = 1 /\ d = 0
  BY <1>1, <1>3 DEF Comb!LUT
<1>4. CASE c = 0 /\ d = 1
  BY <1>1, <1>4 DEF Comb!LUT
<1>5. CASE c = 1 /\ d = 1
  BY <1>1, <1>5 DEF Comb!LUT
<1>6. QED
  BY <1>1, <1>2, <1>3, <1>4, <1>5

\* Each solution of count_ones counts the bits.
LEMMA LutCounts ==
  ASSUME NEW x \in SUBSET (0 .. 7)
  PROVE  Comb!lut4(x) = Cardinality(x)
<1> DEFINE B(i) == One(i \in x)
<1>1. \A i : B(i) \in 0 .. 1
  BY OneType
<1>2. /\ Below(x, 8) = B(0) + 2 * B(1) + 4 * B(2) + 8 * B(3) + 16 * B(4) + 32 * B(5) + 64 * B(6) + 128 * B(7)
      /\ Cardinality(x) = B(0) + B(1) + B(2) + B(3) + B(4) + B(5) + B(6) + B(7)
  BY WordBits, CountWord
<1> HIDE DEF B
<1>3. /\ B(0) \in 0 .. 1 /\ B(1) \in 0 .. 1 /\ B(2) \in 0 .. 1 /\ B(3) \in 0 .. 1
      /\ B(4) \in 0 .. 1 /\ B(5) \in 0 .. 1 /\ B(6) \in 0 .. 1 /\ B(7) \in 0 .. 1
  BY <1>1
<1>4. PICK l \in 0 .. 15, h \in 0 .. 15 :
        /\ l = B(0) + 2 * B(1) + 4 * B(2) + 8 * B(3)
        /\ h = B(4) + 2 * B(5) + 4 * B(6) + 8 * B(7)
  BY <1>3
<1>5. PICK v \in Nat : v = Below(x, 8) /\ v = l + 16 * h
  BY <1>2, <1>3, <1>4
<1>6. v % 16 = l /\ v \div 16 = h
  BY <1>5
<1>7. Comb!LUT[l + 1] = B(0) + B(1) + B(2) + B(3)
  BY <1>3, <1>4, LookedUpOnes
<1>8. Comb!LUT[h + 1] = B(4) + B(5) + B(6) + B(7)
  BY <1>3, <1>4, LookedUpOnes
<1>9. Comb!lut4(x) = Comb!LUT[l + 1] + Comb!LUT[h + 1]
  <2>1. Comb!lut4(x) = Comb!LUT[(Comb!Value(x) % 16) + 1] + Comb!LUT[(Comb!Value(x) \div 16) + 1]
    BY Zenon DEF Comb!lut4
  <2>2. Comb!Value(x) = v
    BY <1>5, Values
  <2>3. QED
    BY <1>6, <2>1, <2>2, Zenon
<1>10. QED
  BY <1>2, <1>3, <1>7, <1>8, <1>9

\* The words of three bits each, below bit 6.
LEMMA TwoThrees ==
  ASSUME NEW x, NEW p, p = Comb!Three(x, 0), NEW q, q = Comb!Three(x, 3)
  PROVE  /\ Adds(p, 2 \in x, 1 \in x, 0 \in x) /\ Adds(q, 5 \in x, 4 \in x, 3 \in x)
         /\ p.s \in BOOLEAN /\ p.c \in BOOLEAN /\ q.s \in BOOLEAN /\ q.c \in BOOLEAN
<1>1. 0 \in Nat /\ 3 \in Nat /\ 0 + 1 = 1 /\ 0 + 2 = 2 /\ 3 + 1 = 4 /\ 3 + 2 = 5
  OBVIOUS
<1>2. Adds(p, 0 + 2 \in x, 0 + 1 \in x, 0 \in x)
  BY <1>1, ThreeAdds, Zenon
<1>3. Adds(q, 3 + 2 \in x, 3 + 1 \in x, 3 \in x)
  BY <1>1, ThreeAdds, Zenon
<1>4. Adds(p, 2 \in x, 1 \in x, 0 \in x) /\ Adds(q, 5 \in x, 4 \in x, 3 \in x)
  BY <1>1, <1>2, <1>3, Zenon
<1>5. QED
  BY <1>4, Zenon DEF Adds

LEMMA CsaCounts ==
  ASSUME NEW x \in SUBSET (0 .. 7)
  PROVE  Comb!csa(x) = Cardinality(x)
<1> DEFINE B(i) == One(i \in x)
<1>1. Cardinality(x) = B(0) + B(1) + B(2) + B(3) + B(4) + B(5) + B(6) + B(7)
  BY CountWord
<1>2. PICK p, q, r, f, g :
        /\ p = Comb!Three(x, 0) /\ q = Comb!Three(x, 3) /\ r = Comb!full_adder(7 \in x, 6 \in x, FALSE)
        /\ f = Comb!full_adder(q.c, p.c, r.c) /\ g = Comb!full_adder(q.s, p.s, r.s)
  OBVIOUS
<1>3. /\ Adds(p, 2 \in x, 1 \in x, 0 \in x) /\ Adds(q, 5 \in x, 4 \in x, 3 \in x)
      /\ p.s \in BOOLEAN /\ p.c \in BOOLEAN /\ q.s \in BOOLEAN /\ q.c \in BOOLEAN
  BY <1>2, TwoThrees
<1>4. Adds(r, 7 \in x, 6 \in x, FALSE) /\ r.s \in BOOLEAN /\ r.c \in BOOLEAN
  <2>1. (7 \in x) \in BOOLEAN /\ (6 \in x) \in BOOLEAN /\ FALSE \in BOOLEAN
    OBVIOUS
  <2>2. Adds(r, 7 \in x, 6 \in x, FALSE)
    BY <1>2, <2>1, FullAdder, Zenon
  <2>3. QED
    BY <2>2, Zenon DEF Adds
<1>5. Adds(f, q.c, p.c, r.c) /\ Adds(g, q.s, p.s, r.s)
  BY <1>2, <1>3, <1>4, FullAdder, Zenon
<1>6. PICK ps, pc, qs, qc, rs, rc :
        /\ ps = One(p.s) /\ pc = One(p.c) /\ qs = One(q.s) /\ qc = One(q.c) /\ rs = One(r.s) /\ rc = One(r.c)
  OBVIOUS
<1>7. /\ ps \in 0 .. 1 /\ pc \in 0 .. 1 /\ qs \in 0 .. 1 /\ qc \in 0 .. 1 /\ rs \in 0 .. 1 /\ rc \in 0 .. 1
  BY <1>6, OneType, Zenon
<1>8. 2 * pc + ps = B(2) + B(1) + B(0)
  BY <1>3, <1>6, Zenon DEF Adds
<1>9. 2 * qc + qs = B(5) + B(4) + B(3)
  BY <1>3, <1>6, Zenon DEF Adds
<1>10. 2 * rc + rs = B(7) + B(6) + 0
  <2>1. One(FALSE) = 0
    BY DEF One
  <2>2. QED
    BY <1>4, <1>6, <2>1, Zenon DEF Adds
<1>11. Comb!Num(f) = qc + pc + rc /\ Comb!Num(g) = qs + ps + rs
  BY <1>5, <1>6, Zenon DEF Adds
<1>12. Comb!csa(x) = 2 * (qc + pc + rc) + (qs + ps + rs)
  <2>1. Comb!csa(x) = 2 * Comb!Num(f) + Comb!Num(g)
    BY <1>2, Zenon DEF Comb!csa
  <2>2. QED
    BY <1>11, <2>1, Zenon
<1>13. /\ B(0) \in 0 .. 1 /\ B(1) \in 0 .. 1 /\ B(2) \in 0 .. 1 /\ B(3) \in 0 .. 1
       /\ B(4) \in 0 .. 1 /\ B(5) \in 0 .. 1 /\ B(6) \in 0 .. 1 /\ B(7) \in 0 .. 1
  BY OneType
<1> HIDE DEF B
<1>14. 2 * (qc + pc + rc) + (qs + ps + rs) = B(0) + B(1) + B(2) + B(3) + B(4) + B(5) + B(6) + B(7)
  <2>1. PICK b0, b1, b2, b3, b4, b5, b6, b7 :
          /\ b0 = B(0) /\ b1 = B(1) /\ b2 = B(2) /\ b3 = B(3)
          /\ b4 = B(4) /\ b5 = B(5) /\ b6 = B(6) /\ b7 = B(7)
    OBVIOUS
  <2>2. /\ b0 \in 0 .. 1 /\ b1 \in 0 .. 1 /\ b2 \in 0 .. 1 /\ b3 \in 0 .. 1
        /\ b4 \in 0 .. 1 /\ b5 \in 0 .. 1 /\ b6 \in 0 .. 1 /\ b7 \in 0 .. 1
    BY <1>13, <2>1, Zenon
  <2>3. 2 * pc + ps = b2 + b1 + b0 /\ 2 * qc + qs = b5 + b4 + b3 /\ 2 * rc + rs = b7 + b6 + 0
    BY <1>8, <1>9, <1>10, <2>1, Zenon
  <2>4. 2 * (qc + pc + rc) + (qs + ps + rs) = b0 + b1 + b2 + b3 + b4 + b5 + b6 + b7
    BY <1>7, <2>2, <2>3
  <2>5. QED
    BY <2>1, <2>4, Zenon
<1>15. QED
  BY <1>1, <1>12, <1>14, Zenon

-----------------------------------------------------------------------------
(* using_full_adders.                                                      *)

\* The bits of a word as numbers.
LEMMA OnePlaces ==
  ASSUME NEW x
  PROVE  \E b0 \in 0 .. 1, b1 \in 0 .. 1, b2 \in 0 .. 1, b3 \in 0 .. 1, b4 \in 0 .. 1, b5 \in 0 .. 1,
            b6 \in 0 .. 1, b7 \in 0 .. 1 :
           /\ b0 = One(0 \in x) /\ b1 = One(1 \in x) /\ b2 = One(2 \in x) /\ b3 = One(3 \in x)
           /\ b4 = One(4 \in x) /\ b5 = One(5 \in x) /\ b6 = One(6 \in x) /\ b7 = One(7 \in x)
  BY OneType, Zenon

\* The sums of using_full_adders: one counts the bits, the other leaves x[6] out.
LEMMA SolutionOneCounts ==
  ASSUME NEW x \in SUBSET (0 .. 6)
  PROVE  Comb!solution_1(x) = Cardinality(x)
<1>1. PICK b0 \in 0 .. 1, b1 \in 0 .. 1, b2 \in 0 .. 1, b3 \in 0 .. 1, b4 \in 0 .. 1, b5 \in 0 .. 1,
           b6 \in 0 .. 1, b7 \in 0 .. 1 :
        /\ b0 = One(0 \in x) /\ b1 = One(1 \in x) /\ b2 = One(2 \in x) /\ b3 = One(3 \in x)
        /\ b4 = One(4 \in x) /\ b5 = One(5 \in x) /\ b6 = One(6 \in x) /\ b7 = One(7 \in x)
  BY OnePlaces, Zenon
<1>2. b7 = 0
  BY <1>1 DEF One
<1>3. Cardinality(x) = b0 + b1 + b2 + b3 + b4 + b5 + b6 + b7
  <2>1. x \in SUBSET (0 .. 7)
    OBVIOUS
  <2>2. QED
    BY <1>1, <2>1, CountWord, Zenon
<1>4. PICK p, q, r, f :
        /\ p = Comb!Three(x, 0) /\ q = Comb!Three(x, 3) /\ r = Comb!full_adder(p.s, q.s, 6 \in x)
        /\ f = Comb!full_adder(p.c, q.c, r.c)
  OBVIOUS
<1>5. /\ Adds(p, 2 \in x, 1 \in x, 0 \in x) /\ Adds(q, 5 \in x, 4 \in x, 3 \in x)
      /\ p.s \in BOOLEAN /\ p.c \in BOOLEAN /\ q.s \in BOOLEAN /\ q.c \in BOOLEAN
  BY <1>4, TwoThrees
<1>6. Adds(r, p.s, q.s, 6 \in x) /\ r.s \in BOOLEAN /\ r.c \in BOOLEAN
  <2>1. (6 \in x) \in BOOLEAN
    OBVIOUS
  <2>2. Adds(r, p.s, q.s, 6 \in x)
    BY <1>4, <1>5, <2>1, FullAdder, Zenon
  <2>3. QED
    BY <2>2, Zenon DEF Adds
<1>7. Adds(f, p.c, q.c, r.c)
  BY <1>4, <1>5, <1>6, FullAdder, Zenon
<1>8. PICK ps, pc, qs, qc, rs, rc :
        /\ ps = One(p.s) /\ pc = One(p.c) /\ qs = One(q.s) /\ qc = One(q.c) /\ rs = One(r.s) /\ rc = One(r.c)
  OBVIOUS
<1>9. /\ ps \in 0 .. 1 /\ pc \in 0 .. 1 /\ qs \in 0 .. 1 /\ qc \in 0 .. 1 /\ rs \in 0 .. 1 /\ rc \in 0 .. 1
  BY <1>8, OneType, Zenon
<1>10. 2 * pc + ps = b2 + b1 + b0
  BY <1>1, <1>5, <1>8, Zenon DEF Adds
<1>11. 2 * qc + qs = b5 + b4 + b3
  BY <1>1, <1>5, <1>8, Zenon DEF Adds
<1>12. 2 * rc + rs = ps + qs + b6
  BY <1>1, <1>6, <1>8, Zenon DEF Adds
<1>13. Comb!Num(f) = pc + qc + rc
  BY <1>7, <1>8, Zenon DEF Adds
<1>14. Comb!solution_1(x) = 2 * (pc + qc + rc) + rs
  <2>1. Comb!solution_1(x) = 2 * Comb!Num(f) + (IF r.s THEN 1 ELSE 0)
    BY <1>4, Zenon DEF Comb!solution_1
  <2>2. rs = IF r.s THEN 1 ELSE 0
    BY <1>8, Zenon DEF One
  <2>3. QED
    BY <1>13, <2>1, <2>2, Zenon
<1>15. 2 * (pc + qc + rc) + rs = b0 + b1 + b2 + b3 + b4 + b5 + b6 + b7
  BY <1>2, <1>9, <1>10, <1>11, <1>12
<1>16. QED
  BY <1>3, <1>14, <1>15, Zenon

LEMMA SolutionZeroCounts ==
  ASSUME NEW x \in SUBSET (0 .. 6)
  PROVE  Comb!solution_0(x) = Cardinality(x \ {6})
<1>1. PICK b0 \in 0 .. 1, b1 \in 0 .. 1, b2 \in 0 .. 1, b3 \in 0 .. 1, b4 \in 0 .. 1, b5 \in 0 .. 1,
           b6 \in 0 .. 1, b7 \in 0 .. 1 :
        /\ b0 = One(0 \in x) /\ b1 = One(1 \in x) /\ b2 = One(2 \in x) /\ b3 = One(3 \in x)
        /\ b4 = One(4 \in x) /\ b5 = One(5 \in x) /\ b6 = One(6 \in x) /\ b7 = One(7 \in x)
  BY OnePlaces, Zenon
<1>2. Cardinality(x \ {6}) = b0 + b1 + b2 + b3 + b4 + b5 + 0 + 0
  <2>1. PICK y : y = x \ {6}
    OBVIOUS
  <2>2. y \in SUBSET (0 .. 7)
    BY <2>1
  <2>3. Cardinality(y) = One(0 \in y) + One(1 \in y) + One(2 \in y) + One(3 \in y)
                          + One(4 \in y) + One(5 \in y) + One(6 \in y) + One(7 \in y)
    BY <2>2, CountWord, Zenon
  <2>4. /\ 0 \in y <=> 0 \in x
        /\ 1 \in y <=> 1 \in x
        /\ 2 \in y <=> 2 \in x
        /\ 3 \in y <=> 3 \in x
        /\ 4 \in y <=> 4 \in x
        /\ 5 \in y <=> 5 \in x
        /\ 6 \notin y
        /\ 7 \notin y
    BY <2>1
  <2>5. QED
    BY <1>1, <2>1, <2>3, <2>4 DEF One
<1>3. PICK p, q, r, s, t :
        /\ p = Comb!Three(x, 0) /\ q = Comb!Three(x, 3) /\ r = Comb!full_adder(p.s, q.s, FALSE)
        /\ s = Comb!full_adder(p.c, q.c, r.c) /\ t = Comb!full_adder(FALSE, FALSE, s.c)
  OBVIOUS
<1>4. /\ Adds(p, 2 \in x, 1 \in x, 0 \in x) /\ Adds(q, 5 \in x, 4 \in x, 3 \in x)
      /\ p.s \in BOOLEAN /\ p.c \in BOOLEAN /\ q.s \in BOOLEAN /\ q.c \in BOOLEAN
  BY <1>3, TwoThrees
<1>5. FALSE \in BOOLEAN
  OBVIOUS
<1>6. Adds(r, p.s, q.s, FALSE) /\ r.s \in BOOLEAN /\ r.c \in BOOLEAN
  <2>1. Adds(r, p.s, q.s, FALSE)
    BY <1>3, <1>4, <1>5, FullAdder, Zenon
  <2>2. QED
    BY <2>1, Zenon DEF Adds
<1>7. Adds(s, p.c, q.c, r.c) /\ s.s \in BOOLEAN /\ s.c \in BOOLEAN
  <2>1. Adds(s, p.c, q.c, r.c)
    BY <1>3, <1>4, <1>6, FullAdder, Zenon
  <2>2. QED
    BY <2>1, Zenon DEF Adds
<1>8. Adds(t, FALSE, FALSE, s.c) /\ t.s \in BOOLEAN /\ t.c \in BOOLEAN
  <2>1. Adds(t, FALSE, FALSE, s.c)
    BY <1>3, <1>5, <1>7, FullAdder, Zenon
  <2>2. QED
    BY <2>1, Zenon DEF Adds
<1>9. PICK ps, pc, qs, qc, rs, rc, ss, sc, ts, tc :
        /\ ps = One(p.s) /\ pc = One(p.c) /\ qs = One(q.s) /\ qc = One(q.c) /\ rs = One(r.s) /\ rc = One(r.c)
        /\ ss = One(s.s) /\ sc = One(s.c) /\ ts = One(t.s) /\ tc = One(t.c)
  OBVIOUS
<1>10. /\ ps \in 0 .. 1 /\ pc \in 0 .. 1 /\ qs \in 0 .. 1 /\ qc \in 0 .. 1 /\ rs \in 0 .. 1 /\ rc \in 0 .. 1
       /\ ss \in 0 .. 1 /\ sc \in 0 .. 1 /\ ts \in 0 .. 1 /\ tc \in 0 .. 1
  BY <1>9, OneType, Zenon
<1>11. One(FALSE) = 0
  BY DEF One
<1>12. 2 * pc + ps = b2 + b1 + b0
  BY <1>1, <1>4, <1>9, Zenon DEF Adds
<1>13. 2 * qc + qs = b5 + b4 + b3
  BY <1>1, <1>4, <1>9, Zenon DEF Adds
<1>14. 2 * rc + rs = ps + qs + 0
  BY <1>6, <1>9, <1>11, Zenon DEF Adds
<1>15. 2 * sc + ss = pc + qc + rc
  BY <1>7, <1>9, Zenon DEF Adds
<1>16. 2 * tc + ts = 0 + 0 + sc
  BY <1>8, <1>9, <1>11, Zenon DEF Adds
<1>17. PICK y : y = {b \in 0 .. 2 : <<r.s, s.s, t.s>>[b + 1]}
  OBVIOUS
<1>18. Comb!solution_0(x) = Below(y, 8)
  <2>1. Comb!solution_0(x) = Comb!Value(y)
    BY <1>3, <1>17, Zenon DEF Comb!solution_0
  <2>2. QED
    BY <2>1, Values, Zenon
<1>19. Below(y, 8) = rs + 2 * ss + 4 * ts + 8 * 0 + 16 * 0 + 32 * 0 + 64 * 0 + 128 * 0
  <2>1. PICK w : w = <<r.s, s.s, t.s>>
    OBVIOUS
  <2>2. w[1] = r.s /\ w[2] = s.s /\ w[3] = t.s
    BY <2>1
  <2>3. /\ 0 + 1 = 1 /\ 1 + 1 = 2 /\ 2 + 1 = 3
        /\ 0 \in 0 .. 2 /\ 1 \in 0 .. 2 /\ 2 \in 0 .. 2
    OBVIOUS
  <2>4. 0 \in y <=> r.s
    BY <1>17, <2>1, <2>2, <2>3, Zenon
  <2>5. 1 \in y <=> s.s
    BY <1>17, <2>1, <2>2, <2>3, Zenon
  <2>6. 2 \in y <=> t.s
    BY <1>17, <2>1, <2>2, <2>3, Zenon
  <2>7. One(0 \in y) = rs /\ One(1 \in y) = ss /\ One(2 \in y) = ts
    BY <1>9, <2>4, <2>5, <2>6, Zenon DEF One
  <2>8. 3 \notin y /\ 4 \notin y /\ 5 \notin y /\ 6 \notin y /\ 7 \notin y
    BY <1>17
  <2>9. /\ One(3 \in y) = 0 /\ One(4 \in y) = 0 /\ One(5 \in y) = 0 /\ One(6 \in y) = 0 /\ One(7 \in y) = 0
    BY <2>8 DEF One
  <2>10. Below(y, 8) = One(0 \in y) + 2 * One(1 \in y) + 4 * One(2 \in y) + 8 * One(3 \in y)
                       + 16 * One(4 \in y) + 32 * One(5 \in y) + 64 * One(6 \in y) + 128 * One(7 \in y)
    BY WordBits
  <2>11. QED
    BY <2>7, <2>9, <2>10
<1>20. rs + 2 * ss + 4 * ts + 8 * 0 + 16 * 0 + 32 * 0 + 64 * 0 + 128 * 0
         = b0 + b1 + b2 + b3 + b4 + b5 + 0 + 0
  BY <1>10, <1>12, <1>13, <1>14, <1>15, <1>16
<1>21. QED
  BY <1>2, <1>18, <1>19, <1>20

-----------------------------------------------------------------------------
(* increment.                                                              *)

\* The library's least element is the least.
LEMMA CombMin ==
  ASSUME NEW S \in SUBSET Nat, S # {}
  PROVE  Comb!Min(S) \in S /\ \A y \in S : Comb!Min(S) <= y
<1>1. \E m \in S : \A y \in S : m <= y
  BY Least
<1>2. Comb!Min(S) = CHOOSE m \in S : \A y \in S : m <= y
  BY Zenon DEF Comb!Min
<1>3. QED
  BY <1>1, <1>2, Zenon

\* The bits below the first that is 0 are all 1; from it on the words agree but for it.
LEMMA Carried ==
  ASSUME NEW x, NEW y, NEW m \in Nat, NEW n \in Nat, m < n, m \notin x, m \in y,
         \A i \in 0 .. m - 1 : i \in x /\ i \notin y,
         \A i \in m + 1 .. n - 1 : i \in x <=> i \in y
  PROVE  Below(y, n) = Below(x, n) + 1
<1> DEFINE S == {k \in Nat : k <= n => IF k <= m THEN Below(y, k) = 0 /\ Below(x, k) + 1 = 2 ^ k
                                       ELSE Below(y, k) = Below(x, k) + 1}
<1>1. 0 \in S
  <2>1. Below(x, 0) = 0 /\ Below(y, 0) = 0
    BY BelowIs
  <2>2. 2 ^ 0 = 1
    OBVIOUS
  <2>3. QED
    BY <2>1, <2>2
<1>2. ASSUME NEW i \in Nat, i \in S
      PROVE  i + 1 \in S
  <2>1. /\ Below(x, i + 1) = Below(x, i) + Weight(x, i) /\ Below(y, i + 1) = Below(y, i) + Weight(y, i)
        /\ Below(x, i) \in Nat /\ Below(y, i) \in Nat
    BY BelowIs, BelowType
  <2>2. PICK P \in Nat : P = 2 ^ i /\ 2 ^ (i + 1) = 2 * P
    BY PowerNext
  <2>3. CASE i + 1 <= m
    <3>1. Weight(x, i) = P /\ Weight(y, i) = 0
      BY <2>2, <2>3 DEF Weight
    <3>2. Below(y, i) = 0 /\ Below(x, i) + 1 = P
      BY <1>2, <2>2, <2>3
    <3>3. Below(y, i + 1) = 0 /\ Below(x, i + 1) + 1 = 2 ^ (i + 1)
      BY <2>1, <2>2, <3>1, <3>2
    <3>4. QED
      BY <2>3, <3>3
  <2>4. CASE i = m
    <3>1. Weight(x, i) = 0 /\ Weight(y, i) = P
      BY <2>2, <2>4 DEF Weight
    <3>2. Below(y, i) = 0 /\ Below(x, i) + 1 = P
      BY <1>2, <2>2, <2>4
    <3>3. Below(y, i + 1) = Below(x, i + 1) + 1
      BY <2>1, <3>1, <3>2
    <3>4. QED
      BY <2>4, <3>3
  <2>5. CASE i > m /\ i + 1 <= n
    <3>1. Weight(x, i) = Weight(y, i) /\ Weight(x, i) \in Nat
      BY <2>5, WeightType DEF Weight
    <3>2. Below(y, i) = Below(x, i) + 1
      BY <1>2, <2>5
    <3>3. Below(y, i + 1) = Below(x, i + 1) + 1
      BY <2>1, <3>1, <3>2
    <3>4. QED
      BY <2>5, <3>3
  <2>6. QED
    BY <2>3, <2>4, <2>5
<1> HIDE DEF S
<1>3. n \in S
  BY <1>1, <1>2, Onwards
<1>4. QED
  BY <1>3 DEF S

\* A word of all ones stays as it is.
LEMMA Incremented ==
  ASSUME NEW x \in SUBSET (0 .. 7)
  PROVE  Comb!Value(Comb!y_optimal(x)) = IF x = Comb!Bit THEN Comb!Value(x) ELSE Comb!Value(x) + 1
<1>1. Comb!Bit = 0 .. 7
  BY DEF Comb!Bit
<1>2. Comb!y_optimal(x) = Comb!Xor(x, Comb!inclusive_mask(Comb!ffs0(x)))
  BY Zenon DEF Comb!y_optimal
<1>3. CASE x = 0 .. 7
  <2>1. Comb!ffs0(x) = {}
    BY <1>1, <1>3 DEF Comb!ffs0
  <2>2. Comb!inclusive_mask({}) = {}
    BY DEF Comb!inclusive_mask
  <2>3. Comb!Xor(x, {}) = x
    BY DEF Comb!Xor
  <2>4. QED
    BY <1>1, <1>2, <1>3, <2>1, <2>2, <2>3, Zenon
<1>4. CASE x # 0 .. 7
  <2>1. PICK Z \in SUBSET Nat : Z = Comb!Bit \ x /\ Z # {}
    <3>1. PICK Z : Z = (0 .. 7) \ x
      OBVIOUS
    <3>2. Z \in SUBSET Nat /\ Z # {}
      <4>1. \E i \in 0 .. 7 : i \notin x
        BY <1>4
      <4>2. \A i \in 0 .. 7 : i \in Nat
        OBVIOUS
      <4>3. QED
        BY <3>1, <4>1, <4>2
    <3>3. QED
      BY <1>1, <3>1, <3>2, Zenon
  <2>2. PICK m : m = Comb!Min(Z)
    OBVIOUS
  <2>3. m \in Z /\ \A i \in Z : m <= i
    BY <2>1, <2>2, CombMin
  <2>4. m \in 0 .. 7 /\ m \notin x /\ \A i \in 0 .. m - 1 : i \in x
    BY <1>1, <2>1, <2>3
  <2>5. Comb!ffs0(x) = {m}
    <3>1. ~(Comb!Bit \subseteq x)
      BY <1>1, <1>4
    <3>2. QED
      BY <2>1, <2>2, <3>1, Zenon DEF Comb!ffs0
  <2>6. Comb!inclusive_mask({m}) = 0 .. m
    BY <1>1, <2>4 DEF Comb!inclusive_mask
  <2>7. PICK y : y = Comb!Xor(x, 0 .. m)
    OBVIOUS
  <2>8. /\ m \in y
        /\ \A i \in 0 .. m - 1 : i \in x /\ i \notin y
        /\ \A i \in m + 1 .. 8 - 1 : i \in x <=> i \in y
    BY <2>4, <2>7 DEF Comb!Xor
  <2>9. Below(y, 8) = Below(x, 8) + 1
    BY <2>4, <2>8, Carried
  <2>10. Comb!y_optimal(x) = y
    BY <1>2, <2>5, <2>6, <2>7, Zenon
  <2>11. QED
    BY <1>1, <1>4, <2>9, <2>10, Values, Zenon
<1>5. QED
  BY <1>3, <1>4

-----------------------------------------------------------------------------
(* one_or_two.                                                             *)

\* None, one and several of the elements of a set.
Counts(c) == <<c = 0, c = 1, c > 1>>

\* How many there are; one less than a word of one bit has none of its bits.
LEMMA SomeOf ==
  ASSUME NEW B \in SUBSET Nat, IsFiniteSet(B), NEW s \in SUBSET B
  PROVE  /\ Cardinality(s) \in Nat /\ Cardinality(B) \in Nat
         /\ Cardinality(B \ s) = Cardinality(B) - Cardinality(s)
         /\ Cardinality(s) <= Cardinality(B)
         /\ s = {} <=> Cardinality(s) = 0
         /\ s \cap Comb!Decrement(s, B) = {} /\ s # {} <=> Cardinality(s) = 1
<1>1. IsFiniteSet(s) /\ Cardinality(s) \in Nat /\ Cardinality(B) \in Nat /\ Cardinality(s) <= Cardinality(B)
  BY FS_Subset, FS_CardinalityType
<1>2. Cardinality(B \ s) = Cardinality(B) - Cardinality(s)
  <2>1. B \cap s = s
    OBVIOUS
  <2>2. Cardinality(B \ s) = Cardinality(B) - Cardinality(B \cap s)
    BY FS_Difference
  <2>3. QED
    BY <2>1, <2>2
<1>3. s = {} <=> Cardinality(s) = 0
  BY <1>1, FS_EmptySet
<1>4. s # {} => (s \cap Comb!Decrement(s, B) = {} <=> Cardinality(s) = 1)
  <2>1. SUFFICES ASSUME s # {}
                 PROVE  s \cap Comb!Decrement(s, B) = {} <=> Cardinality(s) = 1
    OBVIOUS
  <2>2. PICK m : m = Comb!Min(s)
    OBVIOUS
  <2>3. m \in s /\ m \in Nat /\ \A i \in s : m <= i
    BY <2>1, <2>2, CombMin
  <2>4. Comb!Decrement(s, B) = (s \ {m}) \cup 0 .. m - 1
    BY <2>1, <2>2, Zenon DEF Comb!Decrement
  <2>5. s \cap Comb!Decrement(s, B) = s \ {m}
    BY <2>3, <2>4
  <2>6. Cardinality(s \ {m}) = Cardinality(s) - 1 /\ IsFiniteSet(s \ {m})
    BY <1>1, <2>3, FS_RemoveElement
  <2>7. s \ {m} = {} <=> Cardinality(s \ {m}) = 0
    BY <2>6, FS_EmptySet
  <2>8. QED
    BY <1>1, <2>5, <2>6, <2>7
<1>5. QED
  BY <1>1, <1>2, <1>3, <1>4

\* The answer for the word t, which x or its complement is.
OneTwo(t, B) ==
  <<t = {}, ~(t = {}) /\ t \cap Comb!Decrement(t, B) = {},
    Comb!Cardinality(B) > 1 /\ ~(t = {}) /\ ~(~(t = {}) /\ t \cap Comb!Decrement(t, B) = {})>>

LEMMA OneTwoCounts ==
  ASSUME NEW B \in SUBSET Nat, IsFiniteSet(B), B # {}, NEW t \in SUBSET B
  PROVE  OneTwo(t, B) = Counts(Cardinality(t))
<1>0. PICK c \in Nat, d \in Nat : c = Cardinality(t) /\ d = Cardinality(B) /\ d = Comb!Cardinality(B)
  <2>1. PICK c, d : c = Cardinality(t) /\ d = Cardinality(B)
    OBVIOUS
  <2>2. c \in Nat /\ d \in Nat
    BY <2>1, SomeOf
  <2>3. d = Comb!Cardinality(B)
    BY <2>1, CombCardinality
  <2>4. QED
    BY <2>1, <2>2, <2>3
<1>1. PICK p, q, r :
        /\ p = (t = {}) /\ q = (~(t = {}) /\ t \cap Comb!Decrement(t, B) = {})
        /\ r = (d > 1 /\ ~(t = {}) /\ ~(~(t = {}) /\ t \cap Comb!Decrement(t, B) = {}))
  OBVIOUS
<1>2. c <= d /\ d # 0
  <2>1. Cardinality(t) <= Cardinality(B)
    BY SomeOf
  <2>2. d # 0
    BY <1>0, FS_EmptySet
  <2>3. QED
    BY <1>0, <2>1, <2>2
<1>3. (t = {} <=> c = 0) /\ (t \cap Comb!Decrement(t, B) = {} /\ t # {} <=> c = 1)
  BY <1>0, SomeOf
<1>4. p = (c = 0)
  BY <1>1, <1>3
<1>5. q = (c = 1)
  BY <1>1, <1>3
<1>6. r = (c > 1)
  <2>1. r = (d > 1 /\ ~(c = 0) /\ ~(c = 1))
    BY <1>1, <1>3
  <2>2. (d > 1 /\ ~(c = 0) /\ ~(c = 1)) <=> c > 1
    BY <1>2
  <2>3. QED
    BY <2>1, <2>2
<1>7. OneTwo(t, B) = <<p, q, r>>
  BY <1>0, <1>1, Zenon DEF OneTwo
<1>8. QED
  BY <1>0, <1>4, <1>5, <1>6, <1>7, Zenon DEF Counts

\* It is the answer of either polarity.
LEMMA OneOrTwo ==
  ASSUME NEW B \in SUBSET Nat, IsFiniteSet(B), B # {}, NEW s \in SUBSET B
  PROVE  /\ Comb!one_or_two(s, FALSE, B) = Counts(Cardinality(s))
         /\ Comb!one_or_two(s, TRUE, B) = Counts(Cardinality(B) - Cardinality(s))
<1>1. Comb!one_or_two(s, FALSE, B) = OneTwo(s, B)
  BY DEF Comb!one_or_two, OneTwo
<1>2. Comb!one_or_two(s, TRUE, B) = OneTwo(B \ s, B)
  BY DEF Comb!one_or_two, OneTwo
<1>3. OneTwo(s, B) = Counts(Cardinality(s)) /\ OneTwo(B \ s, B) = Counts(Cardinality(B \ s))
  <2>1. B \ s \in SUBSET B
    OBVIOUS
  <2>2. QED
    BY <2>1, OneTwoCounts, Zenon
<1>4. Cardinality(B \ s) = Cardinality(B) - Cardinality(s)
  BY SomeOf
<1>5. QED
  BY <1>1, <1>2, <1>3, <1>4, Zenon

-----------------------------------------------------------------------------
(* multiply_by_21, and the gates.                                          *)

\* A word of eight bits is worth less than 2 ^ 8.
LEMMA WordIsSmall ==
  ASSUME NEW x
  PROVE  Comb!Value(x) \in 0 .. 255
<1>1. PICK b0 \in 0 .. 1, b1 \in 0 .. 1, b2 \in 0 .. 1, b3 \in 0 .. 1, b4 \in 0 .. 1, b5 \in 0 .. 1,
           b6 \in 0 .. 1, b7 \in 0 .. 1 :
        /\ b0 = One(0 \in x) /\ b1 = One(1 \in x) /\ b2 = One(2 \in x) /\ b3 = One(3 \in x)
        /\ b4 = One(4 \in x) /\ b5 = One(5 \in x) /\ b6 = One(6 \in x) /\ b7 = One(7 \in x)
  BY OnePlaces, Zenon
<1>2. Below(x, 8) = b0 + 2 * b1 + 4 * b2 + 8 * b3 + 16 * b4 + 32 * b5 + 64 * b6 + 128 * b7
  BY <1>1, WordBits
<1>3. PICK v \in 0 .. 255 : v = Below(x, 8)
  BY <1>2
<1>4. QED
  BY <1>3, Values, Zenon

\* 21 times a word of eight bits fits in the answer.
LEMMA Multiplied ==
  ASSUME NEW x
  PROVE  Comb!y_actual(x) = 21 * Comb!Value(x)
<1>3. PICK v \in 0 .. 255 : v = Comb!Value(x)
  BY WordIsSmall
<1>4. (v + v * 2 ^ 2 + v * 2 ^ 4) % 2 ^ 14 = 21 * v
  <2>1. 2 ^ 2 = 4 /\ 2 ^ 4 = 16 /\ 2 ^ 14 = 16384
    OBVIOUS
  <2>2. v + v * 4 + v * 16 = 21 * v /\ 21 * v \in 0 .. 16383
    OBVIOUS
  <2>3. (v + v * 4 + v * 16) % 16384 = 21 * v
    BY <2>2
  <2>4. QED
    BY <2>1, <2>3
<1>6. Comb!y_actual(x) = (Comb!Value(x) + Comb!Value(x) * 2 ^ 2 + Comb!Value(x) * 2 ^ 4) % 2 ^ 14
  BY Zenon DEF Comb!y_actual
<1>7. QED
  BY <1>3, <1>4, <1>6

\* What the multiplexers compute.
LEMMA Gates ==
  ASSUME NEW a \in BOOLEAN, NEW b \in BOOLEAN
  PROVE  /\ Comb!MUX2X1(TRUE, FALSE, a) = ~a /\ Comb!MUX2X1(FALSE, a, b) = (a /\ b)
         /\ Comb!MUX2X1(a, TRUE, b) = (a \/ b) /\ Comb!y_xor_actual(a, b) = (a # b)
<1>1. Comb!MUX2X1(TRUE, FALSE, a) = ~a /\ Comb!MUX2X1(TRUE, FALSE, b) = ~b
  BY DEF Comb!MUX2X1
<1>2. Comb!MUX2X1(FALSE, a, b) = (a /\ b)
  BY DEF Comb!MUX2X1
<1>3. Comb!MUX2X1(a, TRUE, b) = (a \/ b)
  BY DEF Comb!MUX2X1
<1>4. Comb!y_xor_actual(a, b) = (a # b)
  BY DEF Comb!y_xor_actual, Comb!MUX2X1
<1>5. QED
  BY <1>1, <1>2, <1>3, <1>4

\* The word is one of eight bits; nothing else has a state.
CombInv == tb \in SUBSET (0 .. 7)

LEMMA CombInitInv == Comb!Init => CombInv
  BY DEF Comb!Init, CombInv

LEMMA CombNextInv ==
  ASSUME CombInv, [Comb!Next]_(Comb!vars)
  PROVE  CombInv'
<1>1. CASE UNCHANGED <<reg, tb>>
  BY <1>1 DEF CombInv
<1>2. CASE Comb!Next
  BY <1>2 DEF Comb!Next, Comb!Words, CombInv
<1>3. QED
  BY <1>1, <1>2 DEF Comb!vars

LEMMA CombAnswers == CombInv => Comb!AnswersAsExpected
<1> SUFFICES ASSUME CombInv
             PROVE  Comb!AnswersAsExpected
  OBVIOUS
<1>1. tb \in SUBSET (0 .. 7)
  BY DEF CombInv
<1>2. PICK x : x = tb \ {7}
  OBVIOUS
<1>2a. x \in SUBSET (0 .. 6)
  <2>1. \A i \in 0 .. 7 : i # 7 => i \in 0 .. 6
    OBVIOUS
  <2>2. \A i \in x : i \in 0 .. 6
    BY <1>1, <1>2, <2>1, Zenon
  <2>3. QED
    BY <2>2, Zenon
<1>3. PICK a, b : a = (0 \in tb) /\ b = (1 \in tb)
  OBVIOUS
<1>3a. a \in BOOLEAN /\ b \in BOOLEAN
  BY <1>3
<1>4. \A S : Comb!Cardinality(S) = Cardinality(S)
  BY CombCardinality
<1>5. Comb!lut4(tb) = Comb!Cardinality(tb) /\ Comb!csa(tb) = Comb!Cardinality(tb)
  BY <1>1, <1>4, LutCounts, CsaCounts
<1>6. Comb!solution_1(x) = Comb!Cardinality(x) /\ (6 \notin tb => Comb!CountedWithFullAdders)
  <2>1. Comb!solution_0(x) = Cardinality(x \ {6}) /\ Comb!solution_1(x) = Cardinality(x)
    BY <1>2a, SolutionZeroCounts, SolutionOneCounts
  <2>2. 6 \notin tb => x \ {6} = x
    BY <1>2
  <2>3. QED
    BY <1>2, <1>4, <2>1, <2>2, Zenon DEF Comb!CountedWithFullAdders
<1>7. tb # Comb!Bit => Comb!IncrementAddsOne
  <2>1. ASSUME tb # Comb!Bit
        PROVE  Comb!Value(Comb!y_optimal(tb)) = (Comb!Value(tb) + 1) % 2 ^ 8
    <3>1. Comb!Value(Comb!y_optimal(tb)) = Comb!Value(tb) + 1
      BY <1>1, <2>1, Incremented, Zenon
    <3>2. PICK v \in 0 .. 255 : v = Comb!Value(Comb!y_optimal(tb))
      BY WordIsSmall
    <3>3. v % 2 ^ 8 = v
      BY <3>2
    <3>4. QED
      BY <3>1, <3>2, <3>3, Zenon
  <2>2. QED
    BY <2>1, Zenon DEF Comb!IncrementAddsOne
<1>8. ASSUME NEW B \in {{0}, 0 .. 5}
      PROVE  /\ Comb!one_or_two(tb \cap B, FALSE, B) = Counts(Comb!Cardinality(tb \cap B))
             /\ Comb!one_or_two(tb \cap B, TRUE, B)
                  = Counts(Comb!Cardinality(B) - Comb!Cardinality(tb \cap B))
  <2>1. B \in SUBSET Nat /\ B # {}
    OBVIOUS
  <2>2. IsFiniteSet(B)
    <3>1. 5 \in Int /\ 0 \in Int
      OBVIOUS
    <3>2. IsFiniteSet(0 .. 5) /\ IsFiniteSet({0})
      BY <3>1, FS_Interval, FS_Singleton, Zenon
    <3>3. QED
      BY <3>2
  <2>3. PICK s \in SUBSET B : s = tb \cap B
    OBVIOUS
  <2>4. /\ Comb!one_or_two(s, FALSE, B) = Counts(Cardinality(s))
        /\ Comb!one_or_two(s, TRUE, B) = Counts(Cardinality(B) - Cardinality(s))
    BY <2>1, <2>2, OneOrTwo
  <2>5. QED
    BY <1>4, <2>3, <2>4, Zenon
<1>9. Comb!y_actual(tb) = 21 * Comb!Value(tb)
  BY Multiplied, Zenon
<1>10. /\ Comb!MUX2X1(TRUE, FALSE, a) = ~a /\ Comb!MUX2X1(FALSE, a, b) = (a /\ b)
       /\ Comb!MUX2X1(a, TRUE, b) = (a \/ b) /\ Comb!y_xor_actual(a, b) = (a # b)
  BY <1>3a, Gates
<1>11. QED
  BY <1>2, <1>3, <1>5, <1>6, <1>7, <1>8, <1>9, <1>10, Zenon DEF Comb!AnswersAsExpected, Counts

-----------------------------------------------------------------------------
(* The units together.                                                     *)

UnitsInv ==
  /\ unit = "clk_div_by_3" => ClkInv
  /\ unit = "detect_sequence" => DetectInv
  /\ unit = "latency" => LatInv
  /\ unit = "vending_machine_dp" => DpInv
  /\ unit = "vending_machine_fsm" => VendInv
  /\ unit = "sort_query" => SortInv
  /\ unit = "div_by_3" => DivInv
  /\ unit = "zero_indices" => ZerosInv
  /\ unit = "zero_indices_slow" => SlowInv
  /\ unit = "missing_duplicated_word" => WordInv
  /\ unit = "fibonacci" => FibInv
  /\ unit = "pipelined_add_constant" => PipeInv
  /\ unit = "count_zeros_32" => CountInv
  /\ unit = "fused_multiply_add" => FmaInv
  /\ unit = "combinational" => CombInv

\* A step is one of the unit that the behaviour is about.
LEMMA ClkAlone ==
  ASSUME [Next]_vars, unit = "clk_div_by_3"
  PROVE  [Clk!Next]_(Clk!vars)
  BY DEF Next, vars, Clk!vars

LEMMA DetectAlone ==
  ASSUME [Next]_vars, unit = "detect_sequence"
  PROVE  [Detect!Next]_(Detect!vars)
  BY DEF Next, vars, Detect!vars

LEMMA LatAlone ==
  ASSUME [Next]_vars, unit = "latency"
  PROVE  [Lat!Next]_(Lat!vars)
  BY DEF Next, vars, Lat!vars

LEMMA DpAlone ==
  ASSUME [Next]_vars, unit = "vending_machine_dp"
  PROVE  [Dp!Next]_(Dp!vars)
  BY DEF Next, vars, Dp!vars

LEMMA VendAlone ==
  ASSUME [Next]_vars, unit = "vending_machine_fsm"
  PROVE  [Vend!Next]_(Vend!vars)
  BY DEF Next, vars, Vend!vars

LEMMA SortAlone ==
  ASSUME [Next]_vars, unit = "sort_query"
  PROVE  [Sort!Next]_(Sort!vars)
  BY DEF Next, vars, Sort!vars

LEMMA DivAlone ==
  ASSUME [Next]_vars, unit = "div_by_3"
  PROVE  [Div!Next]_(Div!vars)
  BY DEF Next, vars, Div!vars

LEMMA ZerosAlone ==
  ASSUME [Next]_vars, unit = "zero_indices"
  PROVE  [Zeros!Next]_(Zeros!vars)
  BY DEF Next, vars, Zeros!vars

LEMMA SlowAlone ==
  ASSUME [Next]_vars, unit = "zero_indices_slow"
  PROVE  [Slow!Next]_(Slow!vars)
  BY DEF Next, vars, Slow!vars

LEMMA WordAlone ==
  ASSUME [Next]_vars, unit = "missing_duplicated_word"
  PROVE  [Word!Next]_(Word!vars)
  BY DEF Next, vars, Word!vars

LEMMA FibAlone ==
  ASSUME [Next]_vars, unit = "fibonacci"
  PROVE  [Fib!Next]_(Fib!vars)
  BY DEF Next, vars, Fib!vars

LEMMA PipeAlone ==
  ASSUME [Next]_vars, unit = "pipelined_add_constant"
  PROVE  [Pipe!Next]_(Pipe!vars)
  BY DEF Next, vars, Pipe!vars

LEMMA CountAlone ==
  ASSUME [Next]_vars, unit = "count_zeros_32"
  PROVE  [Count!Next]_(Count!vars)
  BY DEF Next, vars, Count!vars

LEMMA FmaAlone ==
  ASSUME [Next]_vars, unit = "fused_multiply_add"
  PROVE  [Fma!Next]_(Fma!vars)
  BY DEF Next, vars, Fma!vars

LEMMA CombAlone ==
  ASSUME [Next]_vars, unit = "combinational"
  PROVE  [Comb!Next]_(Comb!vars)
  BY DEF Next, vars, Comb!vars

THEOREM UnitsInvCorrect == Spec => []UnitsInv
<1>1. Init => UnitsInv
  <2> SUFFICES ASSUME Init
               PROVE  UnitsInv
    OBVIOUS
  <2>1. ASSUME unit = "clk_div_by_3"
        PROVE  ClkInv
    BY <2>1, ClkInitInv DEF Init
  <2>2. ASSUME unit = "detect_sequence"
        PROVE  DetectInv
    BY <2>2, DetectInitInv DEF Init
  <2>3. ASSUME unit = "latency"
        PROVE  LatInv
    BY <2>3, LatInitInv DEF Init
  <2>4. ASSUME unit = "vending_machine_dp"
        PROVE  DpInv
    BY <2>4, DpInitInv DEF Init
  <2>5. ASSUME unit = "vending_machine_fsm"
        PROVE  VendInv
    BY <2>5, VendInitInv DEF Init
  <2>6. ASSUME unit = "sort_query"
        PROVE  SortInv
    BY <2>6, SortInitInv DEF Init
  <2>7. ASSUME unit = "div_by_3"
        PROVE  DivInv
    BY <2>7, DivInitInv DEF Init
  <2>8. ASSUME unit = "zero_indices"
        PROVE  ZerosInv
    BY <2>8, ZerosInitInv DEF Init
  <2>9. ASSUME unit = "zero_indices_slow"
        PROVE  SlowInv
    BY <2>9, SlowInitInv DEF Init
  <2>10. ASSUME unit = "missing_duplicated_word"
         PROVE  WordInv
    BY <2>10, WordInitInv DEF Init
  <2>11. ASSUME unit = "fibonacci"
         PROVE  FibInv
    BY <2>11, FibInitInv DEF Init
  <2>12. ASSUME unit = "pipelined_add_constant"
         PROVE  PipeInv
    BY <2>12, PipeInitInv DEF Init
  <2>13. ASSUME unit = "count_zeros_32"
         PROVE  CountInv
    BY <2>13, CountInitInv DEF Init
  <2>14. ASSUME unit = "fused_multiply_add"
         PROVE  FmaInv
    BY <2>14, FmaInitInv DEF Init
  <2>15. ASSUME unit = "combinational"
         PROVE  CombInv
    BY <2>15, CombInitInv DEF Init
  <2>16. QED
    BY <2>1, <2>2, <2>3, <2>4, <2>5, <2>6, <2>7, <2>8, <2>9, <2>10, <2>11, <2>12, <2>13, <2>14,
       <2>15 DEF UnitsInv
<1>2. UnitsInv /\ [Next]_vars => UnitsInv'
  <2> SUFFICES ASSUME UnitsInv, [Next]_vars
               PROVE  UnitsInv'
    OBVIOUS
  <2>1. unit' = unit
    BY DEF Next, vars
  <2>2. ASSUME unit = "clk_div_by_3"
        PROVE  ClkInv'
    BY <2>2, ClkAlone, ClkNextInv DEF UnitsInv
  <2>3. ASSUME unit = "detect_sequence"
        PROVE  DetectInv'
    BY <2>3, DetectAlone, DetectNextInv DEF UnitsInv
  <2>4. ASSUME unit = "latency"
        PROVE  LatInv'
    BY <2>4, LatAlone, LatNextInv DEF UnitsInv
  <2>5. ASSUME unit = "vending_machine_dp"
        PROVE  DpInv'
    BY <2>5, DpAlone, DpNextInv DEF UnitsInv
  <2>6. ASSUME unit = "vending_machine_fsm"
        PROVE  VendInv'
    BY <2>6, VendAlone, VendNextInv DEF UnitsInv
  <2>7. ASSUME unit = "sort_query"
        PROVE  SortInv'
    BY <2>7, SortAlone, SortNextInv DEF UnitsInv
  <2>8. ASSUME unit = "div_by_3"
        PROVE  DivInv'
    BY <2>8, DivAlone, DivNextInv DEF UnitsInv
  <2>9. ASSUME unit = "zero_indices"
        PROVE  ZerosInv'
    BY <2>9, ZerosAlone, ZerosNextInv DEF UnitsInv
  <2>10. ASSUME unit = "zero_indices_slow"
         PROVE  SlowInv'
    BY <2>10, SlowAlone, SlowNextInv DEF UnitsInv
  <2>11. ASSUME unit = "missing_duplicated_word"
         PROVE  WordInv'
    BY <2>11, WordAlone, WordNextInv DEF UnitsInv
  <2>12. ASSUME unit = "fibonacci"
         PROVE  FibInv'
    BY <2>12, FibAlone, FibNextInv DEF UnitsInv
  <2>13. ASSUME unit = "pipelined_add_constant"
         PROVE  PipeInv'
    BY <2>13, PipeAlone, PipeNextInv DEF UnitsInv
  <2>14. ASSUME unit = "count_zeros_32"
         PROVE  CountInv'
    BY <2>14, CountAlone, CountNextInv DEF UnitsInv
  <2>15. ASSUME unit = "fused_multiply_add"
         PROVE  FmaInv'
    BY <2>15, FmaAlone, FmaNextInv DEF UnitsInv
  <2>16. ASSUME unit = "combinational"
         PROVE  CombInv'
    BY <2>16, CombAlone, CombNextInv DEF UnitsInv
  <2>17. QED
    BY <2>1, <2>2, <2>3, <2>4, <2>5, <2>6, <2>7, <2>8, <2>9, <2>10, <2>11, <2>12, <2>13, <2>14,
       <2>15, <2>16 DEF UnitsInv
<1>3. QED
  BY <1>1, <1>2, PTL DEF Spec

\* clk_div_3 changes every three half periods of clk: its assignment from the
\* two flops (clk_div_by_3.sv:70).
THEOREM HalfOfThePeriodCorrect == Spec => HalfOfThePeriod
<1>1. UnitsInv /\ [Next]_vars =>
        [unit = "clk_div_by_3" => (Clk!clk_div_3' # Clk!clk_div_3 <=> tb \in {0, 3})]_vars
  <2> SUFFICES ASSUME UnitsInv, Next, unit = "clk_div_by_3"
               PROVE  Clk!clk_div_3' # Clk!clk_div_3 <=> tb \in {0, 3}
    OBVIOUS
  <2>1. Clk!Next
    BY DEF Next
  <2>2. QED
    BY <2>1, ClkStep DEF UnitsInv
<1>2. QED
  BY <1>1, UnitsInvCorrect, PTL DEF Spec, HalfOfThePeriod

\* The state machine of detect_sequence has no false alarm, and misses only a
\* sequence that begins with the end of the one before.
THEOREM DetectsUnlessSharedCorrect == Spec => []DetectsUnlessShared
<1>1. UnitsInv => DetectsUnlessShared
  BY DetectUnlessShared DEF UnitsInv, DetectsUnlessShared
<1>2. QED
  BY <1>1, UnitsInvCorrect, PTL

\* What latency counts is what its agent took, what vending_machine_dp counts
\* was paid and not given back, and vending_machine_fsm keeps no money.
THEOREM ConservedCorrect == Spec => []Conserved
<1>1. UnitsInv => Conserved
  <2> SUFFICES ASSUME UnitsInv
               PROVE  Conserved
    OBVIOUS
  <2>1. unit = "latency" => Lat!Conserved
    BY LatConserved DEF UnitsInv
  <2>2. unit = "vending_machine_dp" => Dp!Conserved
    BY DpConserved DEF UnitsInv
  <2>3. unit = "vending_machine_fsm" => Vend!Conserved
    BY DEF UnitsInv, VendInv
  <2>4. QED
    BY <2>1, <2>2, <2>3 DEF Conserved
<1>2. QED
  BY <1>1, UnitsInvCorrect, PTL

\* The stages of the network of the queries lose no entry and double none
\* (sorting_network.sv).
THEOREM NetworkKeepsEntriesCorrect == Spec => []NetworkKeepsEntries
<1>1. UnitsInv => NetworkKeepsEntries
  BY SortKeeps DEF UnitsInv, NetworkKeepsEntries
<1>2. QED
  BY <1>1, UnitsInvCorrect, PTL

\* The queries of a list are answered in order, each with the entry of the rank
\* that it asked for or an error (sorted_lists.sv, sorting_network.sv), and an
\* operand of div_by_3 is answered once, with its third.
THEOREM AnswersCorrect == Spec => []AnswersAsExpected
<1>1. UnitsInv => AnswersAsExpected
  BY SortAnswers, DivAnswers DEF UnitsInv, AnswersAsExpected
<1>2. QED
  BY <1>1, UnitsInvCorrect, PTL

\* The units that go through a vector or a table report all that they look for
\* and nothing else: the zeros of a vector from the least upwards, if it has any
\* (zero_indices_fast.sv, zero_indices_slow.sv), and the word that a table of
\* pairs holds once, if it is below W ** 2 (missing_duplicated_word.sv).
THEOREM ScansFindAllCorrect == Spec => []ScansFindAll
<1>1. UnitsInv => ScansFindAll
  BY ZerosAnswers, SlowAnswers, WordAnswers DEF UnitsInv, ScansFindAll
<1>2. QED
  BY <1>1, UnitsInvCorrect, PTL

\* A sum that a unit keeps in several words, or keeps ahead of time, is the one
\* its testbench computes, modulo the width: the compressors, the look-up of
\* count_zeros_32.sv and the Booth digits of fused_multiply_add.sv lose nothing
\* else for every width, all operands m of 15 bits, and x and c of 16.  fibonacci.sv
\* and the first accumulator of pipelined_add_constant.sv are where they should
\* be, and so is the second if its increment leaves reset as INIT.
THEOREM SumsExactCorrect == Spec => []SumsExact
<1>1. UnitsInv => SumsExact
  BY PipeAnswers, FmaAnswers, CountAnswers, FibAnswers DEF UnitsInv, SumsExact
<1>2. QED
  BY <1>1, UnitsInvCorrect, PTL

\* The answers without registers are those of the functions that the sources
\* name, on every input with x[6] clear for one of the counts of
\* using_full_adders.sv, and with a 0 in it for increment.sv.
THEOREM LogicAsExpectedCorrect == Spec => []LogicAsExpected
<1>1. UnitsInv => LogicAsExpected
  BY CombAnswers DEF UnitsInv, LogicAsExpected
<1>2. QED
  BY <1>1, UnitsInvCorrect, PTL
=============================================================================
