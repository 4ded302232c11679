----------------------------- MODULE McpProofs ------------------------------
(***************************************************************************)
(* Proofs about mcp_formulation, for every set of clocks in which c_clk is *)
(* no slower than l_clk, every phase of them and all vectors: that the     *)
(* pulse of a vector has left both synchronisers before the next one is    *)
(* sent, which is a matter of time.                                        *)
(***************************************************************************)
EXTENDS McpFormulation, SequenceTheorems, TLAPS

\* A slower c_clk misses pulses, or stretches their acknowledgement to the
\* next vector.
NoSlower == \A k \in Clocks : k.c <= k.l

-----------------------------------------------------------------------------
(* The invariant.                                                          *)

Types ==
  /\ period \in Clocks
  /\ l_wait \in 1 .. period.l /\ c_wait \in 1 .. period.c
  /\ l_fsm_r \in {"FSM_IDLE", "FSM_BUSY"}
  /\ sync_l_out_r \in Words /\ sync_l_out_valid_r \in BOOLEAN
  /\ ack_sync \in BOOLEAN \X BOOLEAN /\ valid_sync \in BOOLEAN \X BOOLEAN
  /\ sync_c_out_valid_1_r \in BOOLEAN
  /\ c_out_r \in Words /\ c_out_pass_r \in BOOLEAN

\* The vector that was passed has not been taken by the capture side.
Fresh == queue # <<>> /\ ~c_out_pass_r

OneVector ==
  /\ queue \in {<<>>, <<sync_l_out_r>>}
  /\ c_out_pass_r => queue # <<>> /\ c_out_r = sync_l_out_r /\ sync_c_out_valid_1_r

IdleInv ==
  ~l_busy_r =>
    /\ queue = <<>> /\ ~sync_l_out_valid_r /\ ~valid_sync[1] /\ ~valid_sync[2]
    /\ ~sync_c_out_valid_1_r /\ ~ack_sync[1]

\* The pulse is one block: its front edge passes, and then its back edge.
FrontInv ==
  Fresh => /\ ~sync_c_out_valid_1_r /\ ~ack_sync[1] /\ ~ack_sync[2]
           /\ sync_l_out_valid_r /\ valid_sync[2] => valid_sync[1]

BackInv ==
  ~Fresh => /\ sync_l_out_valid_r => valid_sync[1]
            /\ valid_sync[1] => valid_sync[2]
            /\ valid_sync[2] => sync_c_out_valid_1_r

\* How long ago the launch side sent the pulse, and the last edge of c_clk.
Since == period.l - l_wait
SinceEdge == period.c - c_wait

\* While the pulse is sent, each flop that has it has had it from an edge of
\* c_clk after it was sent.
SentInv ==
  sync_l_out_valid_r =>
    /\ valid_sync[1] => SinceEdge < Since
    /\ valid_sync[2] => SinceEdge + period.c < Since
    /\ sync_c_out_valid_1_r => SinceEdge + 2 * period.c < Since

\* So a pulse as long as two or three periods of c_clk is one of a long l_clk.
LengthInv ==
  /\ valid_sync[1] /\ valid_sync[2] => period.c < period.l
  /\ valid_sync[2] /\ sync_c_out_valid_1_r => period.c < period.l
  /\ valid_sync[1] /\ sync_c_out_valid_1_r => 2 * period.c < period.l

\* The acknowledgement will have ended before time t.
EndsBefore(t) ==
  /\ ~sync_l_out_valid_r
  /\ valid_sync[1] => c_wait + 2 * period.c < t
  /\ valid_sync[2] => c_wait + period.c < t
  /\ sync_c_out_valid_1_r => c_wait < t

\* An acknowledgement that was seen once has ended two edges of l_clk later,
\* when the launch side is idle again.
AckInv ==
  /\ l_busy_r /\ ack_sync[1] => EndsBefore(l_wait + period.l)
  /\ l_busy_r /\ ack_sync[2] => EndsBefore(l_wait)

IInv ==
  Types /\ OneVector /\ IdleInv /\ FrontInv /\ BackInv /\ SentInv /\ LengthInv /\ AckInv

-----------------------------------------------------------------------------
(* The edges.                                                              *)

LEMMA Periods ==
  ASSUME Types, NoSlower
  PROVE  /\ period.l \in Nat \ {0} /\ period.c \in Nat \ {0} /\ period.c <= period.l
         /\ l_wait \in Nat /\ 1 <= l_wait /\ l_wait <= period.l
         /\ c_wait \in Nat /\ 1 <= c_wait /\ c_wait <= period.c
<1>1. period.l \in Nat \ {0} /\ period.c \in Nat \ {0} /\ period.c <= period.l
  BY ClockAssumption DEF Types, NoSlower
<1>2. QED
  BY <1>1 DEF Types

LEMMA LaunchFacts ==
  ASSUME Types, NEW in \in Issued, LaunchEdge(in)
  PROVE  /\ l_fsm_r' \in {"FSM_IDLE", "FSM_BUSY"}
         /\ sync_l_out_r' \in Words /\ sync_l_out_valid_r' \in BOOLEAN
         /\ ack_sync' \in BOOLEAN \X BOOLEAN
         /\ ack_sync'[1] <=> sync_c_out_valid_1_r
         /\ ack_sync'[2] <=> ack_sync[1]
         /\ sync_l_out_valid_r' <=> in # <<>>
         /\ in # <<>> => in = <<sync_l_out_r'>> /\ ~l_busy_r /\ l_busy_r'
         /\ in = <<>> => /\ sync_l_out_r' = sync_l_out_r
                         /\ l_busy_r' <=> l_busy_r /\ ~ack_sync[2]
<1>1. /\ ack_sync[1] \in BOOLEAN /\ ack_sync[2] \in BOOLEAN /\ sync_c_out_valid_1_r \in BOOLEAN
      /\ l_fsm_r \in {"FSM_IDLE", "FSM_BUSY"} /\ sync_l_out_r \in Words
  BY DEF Types
<1>2. ack_sync' = <<sync_c_out_valid_1_r, ack_sync[1]>>
  BY DEF LaunchEdge
<1>3. /\ ack_sync' \in BOOLEAN \X BOOLEAN
      /\ ack_sync'[1] <=> sync_c_out_valid_1_r
      /\ ack_sync'[2] <=> ack_sync[1]
  BY <1>1, <1>2
<1>4. CASE in = <<>>
  <2>1. l_fsm_r' = IF l_busy_r /\ ack_sync[2] THEN "FSM_IDLE" ELSE l_fsm_r
    BY <1>4 DEF LaunchEdge, FsmNext, sync_l_ack_r
  <2>2. sync_l_out_valid_r' = FALSE /\ sync_l_out_r' = sync_l_out_r
    BY <1>4 DEF LaunchEdge
  <2>3. l_busy_r' <=> l_busy_r /\ ~ack_sync[2]
    BY <2>1 DEF l_busy_r
  <2>4. QED
    BY <1>1, <1>3, <1>4, <2>1, <2>2, <2>3
<1>5. CASE in # <<>>
  <2>1. PICK d \in Words : in = <<d>> /\ ~l_busy_r
    BY <1>5 DEF Issued
  <2>2. sync_l_out_valid_r' = TRUE /\ sync_l_out_r' = d /\ l_fsm_r' = "FSM_BUSY"
    BY <1>5, <2>1 DEF LaunchEdge, FsmNext
  <2>3. QED
    BY <1>3, <1>5, <2>1, <2>2 DEF l_busy_r
<1>6. QED
  BY <1>4, <1>5

LEMMA CaptureFacts ==
  ASSUME Types, CaptureEdge
  PROVE  /\ valid_sync' \in BOOLEAN \X BOOLEAN /\ sync_c_out_valid_1_r' \in BOOLEAN
         /\ c_out_r' \in Words /\ c_out_pass_r' \in BOOLEAN
         /\ valid_sync'[1] <=> sync_l_out_valid_r
         /\ valid_sync'[2] <=> valid_sync[1]
         /\ sync_c_out_valid_1_r' <=> valid_sync[2]
         /\ c_out_pass_r' <=> ~c_out_pass_r /\ valid_sync[2] /\ ~sync_c_out_valid_1_r
         /\ c_out_pass_r' => c_out_r' = sync_l_out_r
<1>1. /\ valid_sync[1] \in BOOLEAN /\ valid_sync[2] \in BOOLEAN
      /\ sync_c_out_valid_1_r \in BOOLEAN /\ sync_l_out_valid_r \in BOOLEAN
      /\ c_out_pass_r \in BOOLEAN /\ c_out_r \in Words /\ sync_l_out_r \in Words
  BY DEF Types
<1>2. valid_sync' = <<sync_l_out_valid_r, valid_sync[1]>>
  BY DEF CaptureEdge
<1>3. /\ valid_sync' \in BOOLEAN \X BOOLEAN
      /\ valid_sync'[1] <=> sync_l_out_valid_r
      /\ valid_sync'[2] <=> valid_sync[1]
  BY <1>1, <1>2
<1>4. /\ sync_c_out_valid_1_r' = valid_sync[2]
      /\ c_out_pass_r' = (~c_out_pass_r /\ valid_sync[2] /\ ~sync_c_out_valid_1_r)
      /\ c_out_r' = IF valid_sync[2] /\ ~sync_c_out_valid_1_r THEN sync_l_out_r ELSE c_out_r
  BY DEF CaptureEdge, c_sample, sync_c_out_valid_r
<1>5. QED
  BY <1>1, <1>3, <1>4

\* The time that passes: of l_clk's edge only, of c_clk's only, of both.
LEMMA Times ==
  ASSUME Types, NoSlower, Advance
  PROVE  /\ period' = period
         /\ l_wait' \in 1 .. period.l /\ c_wait' \in 1 .. period.c
         /\ LaunchIsNext /\ ~CaptureIsNext =>
              l_wait < c_wait /\ l_wait' = period.l /\ c_wait' = c_wait - l_wait
         /\ CaptureIsNext /\ ~LaunchIsNext =>
              c_wait < l_wait /\ c_wait' = period.c /\ l_wait' = l_wait - c_wait
         /\ LaunchIsNext /\ CaptureIsNext =>
              c_wait = l_wait /\ c_wait' = period.c /\ l_wait' = period.l
  BY Periods DEF Advance, LaunchIsNext, CaptureIsNext

LEMMA InvInit == Init => IInv
<1> SUFFICES ASSUME Init
             PROVE  IInv
  OBVIOUS
<1>1. Types
  BY DEF Init, Types
<1>2. /\ queue = <<>> /\ ~sync_l_out_valid_r /\ ~valid_sync[1] /\ ~valid_sync[2]
      /\ ~sync_c_out_valid_1_r /\ ~ack_sync[1] /\ ~ack_sync[2] /\ ~c_out_pass_r
  BY DEF Init
<1>3. QED
  BY <1>1, <1>2 DEF IInv, OneVector, IdleInv, FrontInv, BackInv, Fresh, SentInv, LengthInv,
                    AckInv

LEMMA ScoreFacts ==
  ASSUME OneVector, NEW in \in {<<>>} \cup {<<d>> : d \in Words}, NEW retired \in BOOLEAN,
         Score(in, retired), Types, in # <<>> => queue = <<>>
  PROVE  queue' = IF in # <<>> THEN in ELSE IF retired THEN <<>> ELSE queue
<1>0. PICK d \in Words : queue = <<>> \/ queue = <<d>>
  BY DEF OneVector, Types
<1>1. <<>> \in Seq(Words) /\ in \in Seq(Words) /\ queue \in Seq(Words)
  <2>1. \A e \in Words : <<e>> \in Seq(Words)
    OBVIOUS
  <2>2. QED
    BY <1>0, <2>1, EmptySeq
<1>2. queue # <<>> => Tail(queue) = <<>>
  <2>1. <<d>> \in Seq(Words) /\ <<d>> # <<>> /\ Len(<<d>>) = 1
    OBVIOUS
  <2>2. Tail(<<d>>) \in Seq(Words) /\ Len(Tail(<<d>>)) = 1 - 1
    BY <2>1, HeadTailProperties
  <2>3. Tail(<<d>>) = <<>>
    BY <2>2, EmptySeq
  <2>4. QED
    BY <1>0, <2>3
<1>3. queue' = (IF retired THEN <<>> ELSE queue) \o in
  BY <1>2 DEF Score
<1>4. <<>> \o in = in /\ queue \o <<>> = queue /\ <<>> \o <<>> = <<>>
  BY <1>1, ConcatEmptySeq
<1>5. QED
  BY <1>3, <1>4

-----------------------------------------------------------------------------
(* The steps.                                                              *)

LEMMA LaunchKeeps ==
  ASSUME IInv, NoSlower, LaunchClock
  PROVE  IInv'
<1> PICK in \in Issued : /\ LaunchIsNext /\ ~CaptureIsNext
                         /\ Advance
                         /\ LaunchEdge(in)
                         /\ UNCHANGED captureVars
                         /\ Score(in, FALSE)
  BY DEF LaunchClock
<1>1. Types /\ OneVector /\ IdleInv /\ FrontInv /\ BackInv /\ SentInv /\ LengthInv /\ AckInv
  BY DEF IInv
<1>2. /\ period.l \in Nat \ {0} /\ period.c \in Nat \ {0} /\ period.c <= period.l
      /\ l_wait \in Nat /\ 1 <= l_wait /\ l_wait <= period.l
      /\ c_wait \in Nat /\ 1 <= c_wait /\ c_wait <= period.c
  BY <1>1, Periods
<1>3. /\ period' = period /\ l_wait < c_wait /\ l_wait' = period.l /\ c_wait' = c_wait - l_wait
      /\ l_wait' \in 1 .. period.l /\ c_wait' \in 1 .. period.c
  BY <1>1, Times
<1>4. /\ l_fsm_r' \in {"FSM_IDLE", "FSM_BUSY"}
      /\ sync_l_out_r' \in Words /\ sync_l_out_valid_r' \in BOOLEAN
      /\ ack_sync' \in BOOLEAN \X BOOLEAN
      /\ ack_sync'[1] <=> sync_c_out_valid_1_r
      /\ ack_sync'[2] <=> ack_sync[1]
      /\ sync_l_out_valid_r' <=> in # <<>>
      /\ in # <<>> => in = <<sync_l_out_r'>> /\ ~l_busy_r /\ l_busy_r'
      /\ in = <<>> => /\ sync_l_out_r' = sync_l_out_r
                      /\ l_busy_r' <=> l_busy_r /\ ~ack_sync[2]
  BY <1>1, LaunchFacts
<1>5. /\ valid_sync' = valid_sync /\ sync_c_out_valid_1_r' = sync_c_out_valid_1_r
      /\ c_out_r' = c_out_r /\ c_out_pass_r' = c_out_pass_r
  BY DEF captureVars
<1>6. queue' = IF in # <<>> THEN in ELSE queue
  <2>1. in \in {<<>>} \cup {<<d>> : d \in Words}
    BY DEF Issued
  <2>2. in # <<>> => queue = <<>>
    BY <1>1, <1>4 DEF IdleInv
  <2>3. queue' = IF in # <<>> THEN in ELSE IF FALSE THEN <<>> ELSE queue
    BY <1>1, <2>1, <2>2, ScoreFacts
  <2>4. QED
    BY <2>3
<1>7. Types'
  BY <1>1, <1>3, <1>4, <1>5 DEF Types
<1>8. OneVector'
  BY <1>1, <1>4, <1>5, <1>6 DEF OneVector, IdleInv
<1>9. Fresh' <=> Fresh \/ in # <<>>
  BY <1>1, <1>4, <1>5, <1>6 DEF Fresh, OneVector, IdleInv
<1>10. CASE in # <<>>
  <2>1. /\ ~valid_sync[1] /\ ~valid_sync[2] /\ ~sync_c_out_valid_1_r /\ ~ack_sync[1]
    BY <1>1, <1>4, <1>10 DEF IdleInv
  <2>2. /\ ~valid_sync'[1] /\ ~valid_sync'[2] /\ ~sync_c_out_valid_1_r'
        /\ ~ack_sync'[1] /\ ~ack_sync'[2] /\ l_busy_r' /\ Fresh'
    BY <1>4, <1>5, <1>9, <1>10, <2>1
  <2>3. QED
    BY <1>7, <1>8, <2>2 DEF IInv, IdleInv, FrontInv, BackInv, SentInv, LengthInv, AckInv
<1>11. CASE in = <<>>
  <2>1. ~sync_l_out_valid_r'
    BY <1>4, <1>11
  <2>2. CASE l_busy_r /\ ack_sync[2]
    <3>1. EndsBefore(l_wait)
      BY <1>1, <2>2 DEF AckInv
    <3>2. ~valid_sync[1] /\ ~valid_sync[2] /\ ~sync_c_out_valid_1_r
      BY <1>2, <1>3, <3>1 DEF EndsBefore
    <3>3. ~Fresh /\ queue = <<>>
      BY <1>1, <2>2, <3>2 DEF FrontInv, Fresh, OneVector
    <3>4. /\ ~valid_sync'[1] /\ ~valid_sync'[2] /\ ~sync_c_out_valid_1_r'
          /\ ~ack_sync'[1] /\ ~l_busy_r' /\ ~Fresh' /\ queue' = <<>>
      BY <1>4, <1>5, <1>6, <1>9, <1>11, <2>2, <3>2, <3>3
    <3>5. QED
      BY <1>7, <1>8, <2>1, <3>4 DEF IInv, IdleInv, FrontInv, BackInv, SentInv, LengthInv, AckInv
  <2>3. CASE ~(l_busy_r /\ ack_sync[2])
    <3>1. l_busy_r' <=> l_busy_r
      BY <1>4, <1>11, <2>3
    <3>2. IdleInv'
      BY <1>1, <1>4, <1>5, <1>6, <1>11, <2>1, <3>1 DEF IdleInv
    <3>3. FrontInv'
      BY <1>1, <1>4, <1>5, <1>9, <1>11, <2>1 DEF FrontInv
    <3>4. BackInv'
      BY <1>1, <1>5, <1>9, <1>11, <2>1 DEF BackInv
    <3>5. SentInv'
      BY <2>1 DEF SentInv
    <3>6. LengthInv'
      BY <1>1, <1>3, <1>5 DEF LengthInv
    <3>7. AckInv'
      <4>1. ASSUME l_busy_r', ack_sync'[1]
            PROVE  EndsBefore(l_wait + period.l)'
        BY <1>1, <1>2, <1>3, <1>4, <1>5, <2>1, <4>1 DEF EndsBefore, LengthInv
      <4>2. ASSUME l_busy_r', ack_sync'[2]
            PROVE  EndsBefore(l_wait)'
        <5>1. EndsBefore(l_wait + period.l)
          BY <1>1, <1>4, <3>1, <4>2 DEF AckInv
        <5>2. QED
          BY <1>1, <1>2, <1>3, <1>5, <2>1, <5>1 DEF EndsBefore
      <4>3. QED
        BY <4>1, <4>2 DEF AckInv
    <3>8. QED
      BY <1>7, <1>8, <3>2, <3>3, <3>4, <3>5, <3>6, <3>7 DEF IInv
  <2>4. QED
    BY <2>2, <2>3
<1>12. QED
  BY <1>10, <1>11

LEMMA CaptureKeeps ==
  ASSUME IInv, NoSlower, CaptureClock
  PROVE  IInv'
<1>0. /\ CaptureIsNext /\ ~LaunchIsNext /\ Advance /\ CaptureEdge
      /\ Score(<<>>, c_out_pass_r)
      /\ l_fsm_r' = l_fsm_r /\ sync_l_out_r' = sync_l_out_r
      /\ sync_l_out_valid_r' = sync_l_out_valid_r /\ ack_sync' = ack_sync
  BY DEF CaptureClock, launchVars
<1>1. Types /\ OneVector /\ IdleInv /\ FrontInv /\ BackInv /\ SentInv /\ LengthInv /\ AckInv
  BY DEF IInv
<1>2. /\ period.l \in Nat \ {0} /\ period.c \in Nat \ {0} /\ period.c <= period.l
      /\ l_wait \in Nat /\ 1 <= l_wait /\ l_wait <= period.l
      /\ c_wait \in Nat /\ 1 <= c_wait /\ c_wait <= period.c
  BY <1>1, Periods
<1>3. /\ period' = period /\ c_wait < l_wait /\ c_wait' = period.c /\ l_wait' = l_wait - c_wait
      /\ l_wait' \in 1 .. period.l /\ c_wait' \in 1 .. period.c
  BY <1>0, <1>1, Times
<1>4. /\ valid_sync' \in BOOLEAN \X BOOLEAN /\ sync_c_out_valid_1_r' \in BOOLEAN
      /\ c_out_r' \in Words /\ c_out_pass_r' \in BOOLEAN
      /\ valid_sync'[1] <=> sync_l_out_valid_r
      /\ valid_sync'[2] <=> valid_sync[1]
      /\ sync_c_out_valid_1_r' <=> valid_sync[2]
      /\ c_out_pass_r' <=> ~c_out_pass_r /\ valid_sync[2] /\ ~sync_c_out_valid_1_r
      /\ c_out_pass_r' => c_out_r' = sync_l_out_r
  BY <1>0, <1>1, CaptureFacts
<1>5. queue' = IF c_out_pass_r THEN <<>> ELSE queue
  <2>1. <<>> \in {<<>>} \cup {<<d>> : d \in Words} /\ c_out_pass_r \in BOOLEAN
    BY <1>1 DEF Types
  <2>2. queue' = IF <<>> # <<>> THEN <<>> ELSE IF c_out_pass_r THEN <<>> ELSE queue
    BY <1>0, <1>1, <2>1, ScoreFacts
  <2>3. QED
    BY <2>2
<1>6. l_busy_r' <=> l_busy_r
  BY <1>0 DEF l_busy_r
<1>7. Types'
  BY <1>0, <1>1, <1>3, <1>4 DEF Types
<1>8. c_out_pass_r' => Fresh
  BY <1>1, <1>4 DEF Fresh, BackInv
<1>9. Fresh' <=> Fresh /\ ~valid_sync[2]
  BY <1>1, <1>4, <1>5 DEF Fresh, FrontInv, BackInv
<1>10. OneVector'
  BY <1>0, <1>1, <1>4, <1>5, <1>8 DEF OneVector, Fresh
<1>11. IdleInv'
  BY <1>0, <1>1, <1>4, <1>5, <1>6 DEF IdleInv
<1>12. FrontInv'
  BY <1>0, <1>1, <1>4, <1>9 DEF FrontInv
<1>13. BackInv'
  BY <1>0, <1>1, <1>4, <1>9 DEF BackInv, FrontInv
<1>14. SentInv'
  BY <1>0, <1>1, <1>2, <1>3, <1>4 DEF SentInv, Since, SinceEdge
<1>15. LengthInv'
  BY <1>0, <1>1, <1>2, <1>3, <1>4 DEF LengthInv, SentInv, Since, SinceEdge
<1>16. AckInv'
  BY <1>0, <1>1, <1>2, <1>3, <1>4, <1>6 DEF AckInv, EndsBefore
<1>17. QED
  BY <1>7, <1>10, <1>11, <1>12, <1>13, <1>14, <1>15, <1>16 DEF IInv

LEMMA BothKeeps ==
  ASSUME IInv, NoSlower, BothClocks
  PROVE  IInv'
<1> PICK in \in Issued : /\ LaunchIsNext /\ CaptureIsNext
                         /\ Advance
                         /\ LaunchEdge(in) /\ CaptureEdge
                         /\ Score(in, c_out_pass_r)
  BY DEF BothClocks
<1>1. Types /\ OneVector /\ IdleInv /\ FrontInv /\ BackInv /\ SentInv /\ LengthInv /\ AckInv
  BY DEF IInv
<1>2. /\ period.l \in Nat \ {0} /\ period.c \in Nat \ {0} /\ period.c <= period.l
      /\ l_wait \in Nat /\ 1 <= l_wait /\ l_wait <= period.l
      /\ c_wait \in Nat /\ 1 <= c_wait /\ c_wait <= period.c
  BY <1>1, Periods
<1>3. /\ period' = period /\ c_wait = l_wait /\ c_wait' = period.c /\ l_wait' = period.l
      /\ l_wait' \in 1 .. period.l /\ c_wait' \in 1 .. period.c
  BY <1>1, Times
<1>4. /\ l_fsm_r' \in {"FSM_IDLE", "FSM_BUSY"}
      /\ sync_l_out_r' \in Words /\ sync_l_out_valid_r' \in BOOLEAN
      /\ ack_sync' \in BOOLEAN \X BOOLEAN
      /\ ack_sync'[1] <=> sync_c_out_valid_1_r
      /\ ack_sync'[2] <=> ack_sync[1]
      /\ sync_l_out_valid_r' <=> in # <<>>
      /\ in # <<>> => in = <<sync_l_out_r'>> /\ ~l_busy_r /\ l_busy_r'
      /\ in = <<>> => /\ sync_l_out_r' = sync_l_out_r
                      /\ l_busy_r' <=> l_busy_r /\ ~ack_sync[2]
  BY <1>1, LaunchFacts
<1>5. /\ valid_sync' \in BOOLEAN \X BOOLEAN /\ sync_c_out_valid_1_r' \in BOOLEAN
      /\ c_out_r' \in Words /\ c_out_pass_r' \in BOOLEAN
      /\ valid_sync'[1] <=> sync_l_out_valid_r
      /\ valid_sync'[2] <=> valid_sync[1]
      /\ sync_c_out_valid_1_r' <=> valid_sync[2]
      /\ c_out_pass_r' <=> ~c_out_pass_r /\ valid_sync[2] /\ ~sync_c_out_valid_1_r
      /\ c_out_pass_r' => c_out_r' = sync_l_out_r
  BY <1>1, CaptureFacts
<1>6. queue' = IF in # <<>> THEN in ELSE IF c_out_pass_r THEN <<>> ELSE queue
  <2>1. in \in {<<>>} \cup {<<d>> : d \in Words}
    BY DEF Issued
  <2>2. in # <<>> => queue = <<>>
    BY <1>1, <1>4 DEF IdleInv
  <2>3. c_out_pass_r \in BOOLEAN
    BY <1>1 DEF Types
  <2>4. QED
    BY <1>1, <2>1, <2>2, <2>3, ScoreFacts
<1>7. Types'
  BY <1>1, <1>3, <1>4, <1>5 DEF Types
<1>8. CASE in # <<>>
  <2>1. /\ ~sync_l_out_valid_r /\ ~valid_sync[1] /\ ~valid_sync[2] /\ ~sync_c_out_valid_1_r
        /\ ~ack_sync[1] /\ queue' = <<sync_l_out_r'>>
    BY <1>1, <1>4, <1>6, <1>8 DEF IdleInv
  <2>2. /\ ~valid_sync'[1] /\ ~valid_sync'[2] /\ ~sync_c_out_valid_1_r' /\ ~c_out_pass_r'
        /\ ~ack_sync'[1] /\ ~ack_sync'[2] /\ l_busy_r' /\ Fresh'
    BY <1>4, <1>5, <1>8, <2>1 DEF Fresh
  <2>3. QED
    BY <1>7, <2>1, <2>2 DEF IInv, OneVector, IdleInv, FrontInv, BackInv, SentInv, LengthInv,
                            AckInv
<1>9. CASE in = <<>>
  <2>1. ~sync_l_out_valid_r' /\ queue' = IF c_out_pass_r THEN <<>> ELSE queue
    BY <1>4, <1>6, <1>9
  <2>2. c_out_pass_r' => Fresh
    BY <1>1, <1>5 DEF Fresh, BackInv
  <2>3. Fresh' <=> Fresh /\ ~valid_sync[2]
    BY <1>1, <1>5, <2>1 DEF Fresh, FrontInv, BackInv
  <2>4. OneVector'
    BY <1>1, <1>4, <1>5, <1>9, <2>1, <2>2 DEF OneVector, Fresh
  <2>5. LengthInv'
    BY <1>1, <1>2, <1>3, <1>5 DEF LengthInv, SentInv, Since, SinceEdge
  <2>6. CASE l_busy_r /\ ack_sync[2]
    <3>1. EndsBefore(l_wait)
      BY <1>1, <2>6 DEF AckInv
    <3>2. /\ ~sync_l_out_valid_r /\ ~valid_sync[1] /\ ~valid_sync[2]
          /\ ~sync_c_out_valid_1_r
      BY <1>2, <1>3, <3>1 DEF EndsBefore
    <3>3. ~Fresh /\ queue = <<>>
      BY <1>1, <2>6, <3>2 DEF FrontInv, Fresh, OneVector
    <3>4. /\ ~valid_sync'[1] /\ ~valid_sync'[2] /\ ~sync_c_out_valid_1_r'
          /\ ~ack_sync'[1] /\ ~l_busy_r' /\ ~Fresh' /\ queue' = <<>>
      BY <1>4, <1>5, <1>9, <2>1, <2>3, <2>6, <3>2, <3>3
    <3>5. QED
      BY <1>7, <2>1, <2>4, <3>4 DEF IInv, IdleInv, FrontInv, BackInv, SentInv, LengthInv, AckInv
  <2>7. CASE ~(l_busy_r /\ ack_sync[2])
    <3>1. l_busy_r' <=> l_busy_r
      BY <1>4, <1>9, <2>7
    <3>2. IdleInv'
      BY <1>1, <1>4, <1>5, <2>1, <3>1 DEF IdleInv
    <3>3. FrontInv'
      BY <1>1, <1>4, <1>5, <2>1, <2>3 DEF FrontInv
    <3>4. BackInv'
      BY <1>1, <1>5, <2>1, <2>3 DEF BackInv, FrontInv
    <3>5. SentInv'
      BY <2>1 DEF SentInv
    <3>6. AckInv'
      <4>1. ASSUME l_busy_r', ack_sync'[1]
            PROVE  EndsBefore(l_wait + period.l)'
        BY <1>1, <1>2, <1>3, <1>4, <1>5, <2>1, <4>1
           DEF EndsBefore, LengthInv, SentInv, Since, SinceEdge
      <4>2. ASSUME l_busy_r', ack_sync'[2]
            PROVE  EndsBefore(l_wait)'
        <5>1. EndsBefore(l_wait + period.l)
          BY <1>1, <1>4, <3>1, <4>2 DEF AckInv
        <5>2. QED
          BY <1>1, <1>2, <1>3, <1>5, <2>1, <5>1 DEF EndsBefore
      <4>3. QED
        BY <4>1, <4>2 DEF AckInv
    <3>7. QED
      BY <1>7, <2>4, <2>5, <3>2, <3>3, <3>4, <3>5, <3>6 DEF IInv
  <2>8. QED
    BY <2>6, <2>7
<1>10. QED
  BY <1>8, <1>9

LEMMA InvNext == ASSUME NoSlower PROVE IInv /\ [Next]_vars => IInv'
<1> SUFFICES ASSUME IInv, [Next]_vars
             PROVE  IInv'
  OBVIOUS
<1>1. CASE Next
  BY <1>1, LaunchKeeps, CaptureKeeps, BothKeeps DEF Next
<1>2. CASE UNCHANGED vars
  BY <1>2 DEF vars, IInv, Types, OneVector, IdleInv, l_busy_r, FrontInv, BackInv, Fresh, SentInv,
              Since, SinceEdge, LengthInv, AckInv, EndsBefore
<1>3. QED
  BY <1>1, <1>2

-----------------------------------------------------------------------------
(* The theorems.                                                           *)

LEMMA Invariant == ASSUME NoSlower PROVE Spec => []IInv
  BY InvInit, InvNext, PTL DEF Spec

\* In every state each register has a value of its type, and the scoreboard
\* holds one vector at most: the launch side never passes a second one while
\* the first is on its way.
THEOREM TypeCorrect == ASSUME NoSlower PROVE Spec => []TypeOK
<1>1. IInv => TypeOK
  BY DEF IInv, Types, OneVector, TypeOK
<1>2. QED
  BY <1>1, Invariant, PTL

\* What is handed out is the vector that was passed, and it is handed out
\* once, whatever the periods and the phase of the clocks.
THEOREM Retires == ASSUME NoSlower PROVE Spec => []RetiresInOrder
<1>1. IInv => RetiresInOrder
  BY DEF IInv, OneVector, RetiresInOrder
<1>2. QED
  BY <1>1, Invariant, PTL

\* When the launch side is idle again its vector has retired, and no trace of
\* the pulse is left that could answer for the next vector.
THEOREM IdleIsClean == ASSUME NoSlower PROVE Spec => []IdleMeansRetired
<1>1. IInv => IdleMeansRetired
  <2> SUFFICES ASSUME IInv, ~l_busy_r
               PROVE  /\ queue = <<>>
                      /\ ~sync_l_out_valid_r /\ valid_sync = <<FALSE, FALSE>>
                      /\ ~sync_c_out_valid_1_r /\ ack_sync[1] = FALSE
    BY DEF IdleMeansRetired
  <2>1. /\ ack_sync[1] \in BOOLEAN /\ valid_sync[1] \in BOOLEAN /\ valid_sync[2] \in BOOLEAN
        /\ valid_sync = <<valid_sync[1], valid_sync[2]>>
    BY DEF IInv, Types
  <2>2. /\ queue = <<>> /\ ~sync_l_out_valid_r
        /\ ~valid_sync[1] /\ ~valid_sync[2]
        /\ ~sync_c_out_valid_1_r /\ ~ack_sync[1]
    BY DEF IInv, IdleInv
  <2>3. valid_sync[1] = FALSE /\ valid_sync[2] = FALSE /\ ack_sync[1] = FALSE
    BY <2>1, <2>2
  <2>4. QED
    BY <2>1, <2>2, <2>3, Zenon
<1>2. QED
  BY <1>1, Invariant, PTL

\* The vector does not change until it has retired: the wires that are not
\* synchronised are stable whenever the capture side takes them.
THEOREM Held == ASSUME NoSlower PROVE Spec => HeldUntilRetired
<1>1. IInv /\ [Next]_vars => (queue # <<>> => sync_l_out_r' = sync_l_out_r)
  <2> SUFFICES ASSUME IInv, [Next]_vars, queue # <<>>
               PROVE  sync_l_out_r' = sync_l_out_r
    OBVIOUS
  <2>1. l_busy_r
    BY DEF IInv, IdleInv
  <2>2. QED
    BY <2>1 DEF Next, vars, LaunchClock, CaptureClock, BothClocks, launchVars, LaunchEdge
<1>2. QED
  BY <1>1, Invariant, PTL DEF Spec, HeldUntilRetired
=============================================================================
