------------------------------ MODULE Latency -------------------------------
(***************************************************************************)
(* latency.sv: three counters from which the average latency of commands   *)
(* is computed, though no single command is followed.  The agent is the    *)
(* testbench's: a pipe that answers a command a number of cycles later.    *)
(*                                                                         *)
(* A step is a rising edge of clk, after reset.                            *)
(***************************************************************************)
EXTENDS Integers, Sequences, FiniteSets, SequencesExt

CONSTANTS
  M,           \* the counters count modulo M, 2^W in the code
  Delays,      \* the latencies of the agent
  Transactions \* bound: the commands issued between two clears

VARIABLES
  reg,  \* issue_cnt_r, pending_cnt_r and aggregate_cnt_r
  tb    \* in_flight_pipe_: tb[i] says whether a command was issued i edges ago

vars == <<reg, tb>>

-----------------------------------------------------------------------------
\* Mutant of pending_cnt_w: a command that is issued as one retires is lost.
IssueOrRetire(issue, retire) ==
  IF retire THEN (reg.pending + M - 1) % M
  ELSE IF issue THEN (reg.pending + 1) % M ELSE reg.pending

pending_cnt_w(issue, retire) ==
  IF issue /\ ~retire THEN (reg.pending + 1) % M
  ELSE IF retire /\ ~issue THEN (reg.pending + M - 1) % M ELSE reg.pending

Count(issue, retire) ==
  LET pending == pending_cnt_w(issue, retire)
  IN  reg' = [issue |-> IF issue THEN (reg.issue + 1) % M ELSE reg.issue,
              pending |-> pending,
              aggregate |-> IF pending # 0 THEN (reg.aggregate + pending) % M
                                           ELSE reg.aggregate]

Cleared == [issue |-> 0, pending |-> 0, aggregate |-> 0]
EmptyPipe(delay) == [i \in 1 .. delay |-> FALSE]

Run ==
  \E issue \in BOOLEAN :
    /\ issue => reg.issue < Transactions
    /\ Count(issue, Last(tb))
    /\ tb' = <<issue>> \o Front(tb)

\* The testbench begins another round: the pipe is emptied with the counters.
Clear ==
  \E delay \in Delays :
    /\ reg' = Cleared
    /\ tb' = EmptyPipe(delay)

Init ==
  /\ reg = Cleared
  /\ \E delay \in Delays : tb = EmptyPipe(delay)

Next == Run \/ Clear

-----------------------------------------------------------------------------
\* A command in flight and one of the cycles that it still has ahead.
Ahead == {s \in (1 .. Len(tb)) \X (1 .. Len(tb)) : tb[s[1]] /\ s[1] < s[2]}

\* The aggregate is the latency of all commands, less what those in flight
\* still have ahead: with none in flight, aggregate / issued is exact.
Conserved ==
  (reg.aggregate + Cardinality(Ahead)) % M = (Len(tb) * reg.issue) % M
=============================================================================
