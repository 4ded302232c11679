--------------------------- MODULE McpFormulation ---------------------------
(***************************************************************************)
(* mcp_formulation.sv: a vector passed between two clock domains.  The     *)
(* launch side holds the vector and sends a pulse of one l_clk; the        *)
(* capture side synchronises the pulse, takes the vector at its rising     *)
(* edge and sends the pulse, as it sees it, back as the acknowledgement,   *)
(* which the launch side synchronises in turn.  Only the pulse and its     *)
(* echo are synchronised: whether a clock sees them at all depends on the  *)
(* periods of the two clocks.                                              *)
(*                                                                         *)
(* A step is a rising edge of l_clk, of c_clk, or of both at once.  Flops  *)
(* sample the value before the edge, as in the testbench, whose clocks are *)
(* derived from one time base.  The state begins after both resets.        *)
(***************************************************************************)
EXTENDS Integers, Sequences

CONSTANTS
  Words,   \* the vectors that are passed
  Clocks   \* the pairs of clock periods [l |-> _, c |-> _]

ASSUME ClockAssumption == \A k \in Clocks : k.l \in Nat \ {0} /\ k.c \in Nat \ {0}

VARIABLES
  period, l_wait, c_wait,  \* the clocks, and the time to their next edges
  l_fsm_r,                 \* the launch side's state
  sync_l_out_r, sync_l_out_valid_r,  \* the vector and the pulse it sends
  ack_sync,                \* its sync_ff; the second flop is sync_l_ack_r
  valid_sync,              \* the capture side's; the second is sync_c_out_valid_r
  sync_c_out_valid_1_r,    \* the pulse as last seen, which is the acknowledgement
  c_out_r, c_out_pass_r,   \* the vector and the pulse handed out
  queue                    \* the testbench's scoreboard

clockVars == <<period, l_wait, c_wait>>
launchVars == <<l_fsm_r, sync_l_out_r, sync_l_out_valid_r, ack_sync>>
captureVars == <<valid_sync, sync_c_out_valid_1_r, c_out_r, c_out_pass_r>>
vars == <<period, l_wait, c_wait, l_fsm_r, sync_l_out_r, sync_l_out_valid_r, ack_sync,
          valid_sync, sync_c_out_valid_1_r, c_out_r, c_out_pass_r, queue>>

-----------------------------------------------------------------------------
(* mcp_formulation_l.                                                      *)

l_busy_r == l_fsm_r = "FSM_BUSY"
sync_l_ack_r == ack_sync[2]

\* Mutant of FsmNext: the launch side is idle again without an answer.
FsmNoWait(issue) == IF ~l_busy_r /\ issue THEN "FSM_BUSY" ELSE "FSM_IDLE"

FsmNext(issue) ==
  IF ~l_busy_r /\ issue THEN "FSM_BUSY"
  ELSE IF l_busy_r /\ sync_l_ack_r THEN "FSM_IDLE"
  ELSE l_fsm_r

\* An edge of l_clk on which the words in are passed, none or one.
LaunchEdge(in) ==
  /\ l_fsm_r' = FsmNext(in # <<>>)
  /\ sync_l_out_valid_r' = (~l_busy_r /\ in # <<>>)
  /\ sync_l_out_r' = IF ~l_busy_r /\ in # <<>> THEN in[1] ELSE sync_l_out_r
  /\ ack_sync' = <<sync_c_out_valid_1_r, ack_sync[1]>>

-----------------------------------------------------------------------------
(* mcp_formulation_c.                                                      *)

sync_c_out_valid_r == valid_sync[2]

\* Mutant of c_sample: the pulse is not reduced to its first cycle.
SampleLevel == sync_c_out_valid_r /\ ~c_out_pass_r

c_sample == sync_c_out_valid_r /\ ~sync_c_out_valid_1_r

\* Mutant of CaptureEdge: the acknowledgement lasts one cycle of c_clk, as
\* the wire sync_c_out_valid_1_w, which no flop loads, would have it.
CaptureEdgeShortAck ==
  /\ valid_sync' = <<sync_l_out_valid_r, valid_sync[1]>>
  /\ sync_c_out_valid_1_r' = c_sample
  /\ c_out_r' = IF c_sample THEN sync_l_out_r ELSE c_out_r
  /\ c_out_pass_r' = (~c_out_pass_r /\ c_sample)

CaptureEdge ==
  /\ valid_sync' = <<sync_l_out_valid_r, valid_sync[1]>>
  /\ sync_c_out_valid_1_r' = sync_c_out_valid_r
  /\ c_out_r' = IF c_sample THEN sync_l_out_r ELSE c_out_r
  /\ c_out_pass_r' = (~c_out_pass_r /\ c_sample)

-----------------------------------------------------------------------------
\* b_issue waits until the launch side is not busy; m_checker takes what
\* c_out_pass_r flags off the scoreboard.
Issued == IF l_busy_r THEN {<<>>} ELSE {<<>>} \cup {<<w>> : w \in Words}

Score(in, retired) ==
  queue' = (IF retired /\ queue # <<>> THEN Tail(queue) ELSE queue) \o in

\* The edges that come next; the others are nearer by the time that passes.
LaunchIsNext == l_wait <= c_wait
CaptureIsNext == c_wait <= l_wait

Advance ==
  /\ l_wait' = IF LaunchIsNext THEN period.l ELSE l_wait - c_wait
  /\ c_wait' = IF CaptureIsNext THEN period.c ELSE c_wait - l_wait
  /\ UNCHANGED period

LaunchClock ==
  \E in \in Issued :
    /\ LaunchIsNext /\ ~CaptureIsNext
    /\ Advance
    /\ LaunchEdge(in)
    /\ UNCHANGED captureVars
    /\ Score(in, FALSE)

CaptureClock ==
  /\ CaptureIsNext /\ ~LaunchIsNext
  /\ Advance
  /\ CaptureEdge
  /\ UNCHANGED launchVars
  /\ Score(<<>>, c_out_pass_r)

BothClocks ==
  \E in \in Issued :
    /\ LaunchIsNext /\ CaptureIsNext
    /\ Advance
    /\ LaunchEdge(in) /\ CaptureEdge
    /\ Score(in, c_out_pass_r)

Init ==
  /\ period \in Clocks
  /\ l_wait \in 1 .. period.l /\ c_wait \in 1 .. period.c
  /\ l_fsm_r = "FSM_IDLE"
  /\ sync_l_out_r \in Words /\ sync_l_out_valid_r = FALSE
  /\ ack_sync = <<FALSE, FALSE>> /\ valid_sync = <<FALSE, FALSE>>
  /\ sync_c_out_valid_1_r = FALSE
  /\ c_out_r \in Words /\ c_out_pass_r = FALSE
  /\ queue = <<>>

Next == LaunchClock \/ CaptureClock \/ BothClocks

\* The clocks do not stop.
Spec == Init /\ [][Next]_vars /\ WF_vars(Next)

-----------------------------------------------------------------------------
\* Besides the types: one vector is on its way at a time.
TypeOK ==
  /\ period \in Clocks
  /\ l_wait \in 1 .. period.l /\ c_wait \in 1 .. period.c
  /\ l_fsm_r \in {"FSM_IDLE", "FSM_BUSY"}
  /\ sync_l_out_r \in Words /\ sync_l_out_valid_r \in BOOLEAN
  /\ ack_sync \in BOOLEAN \X BOOLEAN /\ valid_sync \in BOOLEAN \X BOOLEAN
  /\ sync_c_out_valid_1_r \in BOOLEAN
  /\ c_out_r \in Words /\ c_out_pass_r \in BOOLEAN
  /\ queue \in {<<>>} \cup {<<w>> : w \in Words}

\* What retires is the oldest vector that was passed, whole, and once.
RetiresInOrder == c_out_pass_r => queue # <<>> /\ c_out_r = Head(queue)

\* The launch side is idle only when its last vector has retired and no trace
\* of the pulse is left that could answer for the next one.
IdleMeansRetired ==
  ~l_busy_r =>
    /\ queue = <<>>
    /\ ~sync_l_out_valid_r /\ valid_sync = <<FALSE, FALSE>>
    /\ ~sync_c_out_valid_1_r /\ ack_sync[1] = FALSE

\* The vector stands still until it has retired: the path that is not
\* synchronised has settled whenever it is taken.
HeldUntilRetired == [][queue # <<>> => sync_l_out_r' = sync_l_out_r]_vars

\* A vector that is passed to the launch side is acknowledged, provided that
\* l_clk has a whole number of periods of c_clk: the acknowledgement is then
\* as long as a period of l_clk.
BusyEnds == l_busy_r /\ period.l % period.c = 0 ~> ~l_busy_r
=============================================================================
