------------------------------- MODULE Queue --------------------------------
(***************************************************************************)
(* What every queue of the repository promises, whatever it is made of.    *)
(* It takes words while there is room, a few in a cycle, and delivers them *)
(* in the order they came, one in a cycle.  A delivered word leaves at     *)
(* once, or, if the queue can be replayed, when it is committed: until     *)
(* then a replay makes it the next word again.                             *)
(***************************************************************************)
EXTENDS Integers, Sequences

CONSTANTS
  Words,
  Capacity,  \* the words it can hold
  Lanes,     \* the words it can take in a cycle
  Replays    \* whether words leave when they are committed

VARIABLES
  held,      \* the words that have not left, the oldest first
  taken,     \* how many of them have been delivered
  delivered  \* the word that was delivered in the last cycle, if any

vars == <<held, taken, delivered>>

-----------------------------------------------------------------------------
One(b) == IF b THEN 1 ELSE 0

Cycle(pushed, pop, leave, replay) ==
  /\ pop => taken < Len(held)
  /\ leave => taken + One(pop) > 0
  /\ ~Replays => (leave <=> pop) /\ ~replay
  /\ Len(held) - One(leave) + Len(pushed) <= Capacity
  /\ delivered' = IF pop THEN <<held[taken + 1]>> ELSE <<>>
  /\ held' = SubSeq(held, 1 + One(leave), Len(held)) \o pushed
  /\ taken' = IF replay THEN 0 ELSE taken + One(pop) - One(leave)

Init == held = <<>> /\ taken = 0 /\ delivered = <<>>

Next ==
  \E n \in 0 .. Lanes, pop, leave, replay \in BOOLEAN :
    \E pushed \in [1 .. n -> Words] : Cycle(pushed, pop, leave, replay)

Spec == Init /\ [][Next]_vars
=============================================================================
