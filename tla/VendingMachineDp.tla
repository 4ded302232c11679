-------------------------- MODULE VendingMachineDp --------------------------
(***************************************************************************)
(* vending_machine_dp.sv: a machine that counts nickels, serves a drink    *)
(* when there are enough, and gives change, a coin at a time, until the    *)
(* count is zero.  It hands every step to an agent that says when it is    *)
(* done.                                                                   *)
(*                                                                         *)
(* A step is a rising edge of clk, after reset.  A customer inserts one    *)
(* coin at a time, and none once the drink is being served: the machine    *)
(* does not count what is inserted while it gives a coin out.              *)
(***************************************************************************)
EXTENDS Integers

CONSTANTS
  M,     \* the count is modulo M, 2^8 in the code
  Purse  \* bound: the nickels a customer has, fewer than M

PRICE == 8
Coins == {0, 1, 2, 5}  \* no coin, a nickel, a dime, a quarter, in nickels
Fsm == {"DEPOSIT", "DISPENSE", "SERVE_IRN_BRU", "SERVE_WAIT_DONE",
        "CHANGE_EMIT", "CHANGE_WAIT_DONE"}

VARIABLES
  reg,  \* fsm_r, count_r and client_enough_r
  tb    \* the nickels paid and given back, and the drinks served, since the
        \* machine last took its first coin

vars == <<reg, tb>>

-----------------------------------------------------------------------------
count_is_zero == reg.count = 0

fsm_w(dispense, serve_done, change_done) ==
  CASE reg.fsm = "DEPOSIT" -> IF reg.enough THEN "DISPENSE" ELSE "DEPOSIT"
    [] reg.fsm = "DISPENSE" -> IF dispense THEN "SERVE_IRN_BRU" ELSE "DISPENSE"
    [] reg.fsm = "SERVE_IRN_BRU" -> "SERVE_WAIT_DONE"
    [] reg.fsm = "SERVE_WAIT_DONE" ->
         IF ~serve_done THEN "SERVE_WAIT_DONE"
         ELSE IF count_is_zero THEN "DEPOSIT" ELSE "CHANGE_EMIT"
    [] reg.fsm = "CHANGE_EMIT" -> "CHANGE_WAIT_DONE"
    [] reg.fsm = "CHANGE_WAIT_DONE" ->
         IF count_is_zero THEN "DEPOSIT"
         ELSE IF change_done THEN "CHANGE_EMIT" ELSE "CHANGE_WAIT_DONE"

\* The machine returns to DEPOSIT with a count of zero, a coin given out
\* goes before a coin inserted.
count_w(coin, fsm) ==
  IF reg.fsm # "DEPOSIT" /\ fsm = "DEPOSIT" THEN 0
  ELSE IF reg.fsm = "CHANGE_EMIT" THEN (reg.count + M - 1) % M
  ELSE (reg.count + coin) % M

Edge(coin, dispense, serve_done, change_done) ==
  LET fsm == fsm_w(dispense, serve_done, change_done)
      count == count_w(coin, fsm)
  IN  reg' = [fsm |-> fsm, count |-> count, enough |-> count >= PRICE]

\* A coin inserted as the machine leaves CHANGE_WAIT_DONE begins nothing.
Score(coin) ==
  tb' = IF reg.fsm # "DEPOSIT" /\ reg'.fsm = "DEPOSIT"
        THEN [paid |-> 0, back |-> 0, served |-> 0]
        ELSE [paid |-> tb.paid + coin,
              back |-> tb.back + (IF reg.fsm = "CHANGE_EMIT" THEN 1 ELSE 0),
              served |-> tb.served + (IF reg.fsm = "SERVE_IRN_BRU" THEN 1 ELSE 0)]

Clock(coin, dispense, serve_done, change_done) ==
  /\ coin > 0 => reg.fsm \in {"DEPOSIT", "DISPENSE"} /\ tb.paid + coin <= Purse
  /\ Edge(coin, dispense, serve_done, change_done)
  /\ Score(coin)

Init ==
  /\ reg = [fsm |-> "DEPOSIT", count |-> 0, enough |-> FALSE]
  /\ tb = [paid |-> 0, back |-> 0, served |-> 0]

Next ==
  \E coin \in Coins, dispense, serve_done, change_done \in BOOLEAN :
    Clock(coin, dispense, serve_done, change_done)

\* The agent that the machine waits for answers: t_dispense,
\* t_emit_serve_done and t_emit_change_done always come back to answering.
Answered == reg.fsm # "DEPOSIT" /\ \E coin \in Coins : Clock(coin, TRUE, TRUE, TRUE)
AnsweredAlone == reg.fsm # "DEPOSIT" /\ Clock(0, TRUE, TRUE, TRUE)

-----------------------------------------------------------------------------
\* The count is what was paid and not given back; one drink is served, when
\* its price has been paid, before any change; and change is due only then.
Conserved ==
  /\ reg.count = tb.paid - tb.back
  /\ tb.served <= 1 /\ (tb.served = 1 => tb.paid >= PRICE)
  /\ tb.back > 0 => tb.served = 1
=============================================================================
