---------------------------- MODULE MCTestbenches -----------------------------
(***************************************************************************)
(* The designs that part from what their testbenches expect, for TLC.  The *)
(* testbenches are run one after the other, each until it has an error to  *)
(* report; one that never has keeps the next from its turn.  A state in    *)
(* which all have reported therefore refutes every one of them.            *)
(*                                                                         *)
(* Each is run on inputs that its ports admit, among them some ordinary    *)
(* ones.  The testbenches draw theirs at random, and the inputs on which   *)
(* they report seldom or never.                                            *)
(***************************************************************************)
EXTENDS Integers, Sequences

VARIABLES
  slow_reg, slow_tb,     \* zero_indices_slow
  word_reg, word_tb,     \* missing_duplicated_word
  count_reg, count_tb,   \* count_zeros_32
  fma_reg, fma_tb,       \* fused_multiply_add
  pipe_reg, pipe_tb,     \* pipelined_add_constant
  detect_reg, detect_tb, \* detect_sequence
  comb_reg, comb_tb,     \* increment and using_full_adders
  sort_reg, sort_tb      \* the queries of sorted_lists

slow == <<slow_reg, slow_tb>>
word == <<word_reg, word_tb>>
count == <<count_reg, count_tb>>
fma == <<fma_reg, fma_tb>>
pipe == <<pipe_reg, pipe_tb>>
detect == <<detect_reg, detect_tb>>
comb == <<comb_reg, comb_tb>>
sort == <<sort_reg, sort_tb>>
vars == <<slow, word, count, fma, pipe, detect, comb, sort>>

-----------------------------------------------------------------------------
(* The widths are those of the sources where they matter: the vector of    *)
(* missing_duplicated_word has 25 bits for words of five, and the operands *)
(* of fused_multiply_add have 16, though its sum has 24 instead of 32.     *)

\* A list whose only entry has key 0, in the last slot: the others that it had
\* have been deleted.
KeyZero ==
  [e \in 0 .. 3 |-> [vld |-> e = 3, key |-> 0, size |-> IF e = 3 THEN 1 ELSE 0]]

Sort == INSTANCE SortQuery WITH
  reg <- sort_reg, tb <- sort_tb, Lists <- {0}, N <- 4, Keys <- {0}, Sizes <- {0, 1},
  Lookups <- {KeyZero}, Repeated <- {[t |-> KeyZero, level |-> 0]}
Slow == INSTANCE ZeroIndicesSlow WITH reg <- slow_reg, tb <- slow_tb, W <- 2
Word == INSTANCE MissingDuplicatedWord WITH
  reg <- word_reg, tb <- word_tb, W <- 5, N <- 3, Words <- {1, 25}
Count == INSTANCE CountZeros32 WITH
  reg <- count_reg, tb <- count_tb, Undriven <- {0, 1}, Words <- {[i \in 0 .. 7 |-> i]}
Fma == INSTANCE FusedMultiplyAdd WITH
  reg <- fma_reg, tb <- fma_tb,
  W <- 24, M <- {100, 65535}, X <- {3}, C <- {0}, Inits <- {0}, Passes <- 1
Pipe == INSTANCE PipelinedAddConstant WITH
  reg <- pipe_reg, tb <- pipe_tb, W <- 2, INIT <- 0, INCR <- 2
Detect == INSTANCE DetectSequence WITH reg <- detect_reg, tb <- detect_tb
Comb == INSTANCE Combinational WITH reg <- comb_reg, tb <- comb_tb

\* The turns, in order; increment and using_full_adders are given one word.
Turns == <<"zero_indices_slow", "missing_duplicated_word", "count_zeros_32",
           "fused_multiply_add", "pipelined_add_constant", "detect_sequence",
           "combinational", "sort_query">>

\* The testbenches have nothing to report, of the state they look at.
Accepts(t) ==
  CASE t = "zero_indices_slow" -> Slow!Validated
    [] t = "missing_duplicated_word" -> Word!LonelyWordFound
    [] t = "count_zeros_32" -> Count!Validated
    [] t = "fused_multiply_add" -> Fma!Validated
    [] t = "pipelined_add_constant" -> Pipe!NeverFails
    [] t = "detect_sequence" -> Detect!NeverFails
    [] t = "combinational" -> Comb!IncrementAddsOne \/ Comb!CountedWithFullAdders
    [] t = "sort_query" -> Sort!Validated

HasTurn(t) ==
  \E i \in 1 .. Len(Turns) :
    /\ Turns[i] = t /\ Accepts(t)
    /\ \A j \in 1 .. i - 1 : ~Accepts(Turns[j])

Init ==
  /\ Slow!Init /\ Word!Init /\ Count!Init /\ Fma!Init /\ Pipe!Init /\ Detect!Init
  /\ Comb!Init /\ Sort!Init

Next ==
  \/ /\ HasTurn("zero_indices_slow") /\ Slow!Next
     /\ UNCHANGED <<word, count, fma, pipe, detect, comb, sort>>
  \/ /\ HasTurn("missing_duplicated_word") /\ Word!Next
     /\ UNCHANGED <<slow, count, fma, pipe, detect, comb, sort>>
  \/ /\ HasTurn("count_zeros_32") /\ Count!Next
     /\ UNCHANGED <<slow, word, fma, pipe, detect, comb, sort>>
  \/ /\ HasTurn("fused_multiply_add") /\ Fma!Next
     /\ UNCHANGED <<slow, word, count, pipe, detect, comb, sort>>
  \/ /\ HasTurn("pipelined_add_constant") /\ Pipe!Next
     /\ UNCHANGED <<slow, word, count, fma, detect, comb, sort>>
  \/ /\ HasTurn("detect_sequence") /\ Detect!Next
     /\ UNCHANGED <<slow, word, count, fma, pipe, comb, sort>>
  \/ /\ HasTurn("combinational") /\ Comb!Next
     /\ UNCHANGED <<slow, word, count, fma, pipe, detect, sort>>
  \/ /\ HasTurn("sort_query") /\ Sort!Next
     /\ UNCHANGED <<slow, word, count, fma, pipe, detect, comb>>

Spec == Init /\ [][Next]_vars

-----------------------------------------------------------------------------
\* Of the nine testbenches at least one accepts its design: it is the least
\* that the nine promise together.  What each of them asserts or compares is
\* IncrementAddsOne (increment.cpp:69), CountedWithFullAdders
\* (using_full_adders.sv:97), Validated (sorted_lists.cpp:411, zero_indices_slow.cpp:
\* 121-144, count_zeros_32.cpp:100, fused_multiply_add.cpp:136), LonelyWordFound
\* (missing_duplicated_word.cpp:120), and NeverFails
\* (pipelined_add_constant.cpp:70, detect_sequence.cpp:72).
NotAllReport == \E i \in 1 .. Len(Turns) : Accepts(Turns[i])
=============================================================================
