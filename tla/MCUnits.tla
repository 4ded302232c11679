------------------------------ MODULE MCUnits -------------------------------
(***************************************************************************)
(* The small sequential units, and the query side of sorted_lists, for     *)
(* TLC.  They have nothing to do with each other: unit says which of them  *)
(* a behaviour is about, reg are its registers and tb is its testbench.    *)
(***************************************************************************)
EXTENDS Integers

CONSTANTS
  Units,
  Keys, Sizes, Lookups, Repeated, \* sort_query: keys, payloads, lists and queries
  ZerosX, ZerosV,                 \* zero_indices: slices, and the bits of each
  SlowW,                          \* zero_indices_slow: bits
  Operands,                       \* div_by_3
  LatM, Delays, Transactions,     \* latency: what counts wrap at, and its agent
  DpM, DpPurse,                   \* vending_machine_dp: the same, and the customer
  VendPurse,                      \* vending_machine_fsm: the customer
  WordW, WordN, TableWords,       \* missing_duplicated_word: bits, and the table
  PipeW, PipeInit, PipeIncr,      \* pipelined_add_constant
  FmaW, FmaM, FmaX, FmaC,         \* fused_multiply_add: bits, and operands
  FmaInits, FmaPasses,            \* and where it begins, and for how long
  CountWords, CountUndriven,      \* count_zeros_32: words, and what nothing drives
  FibW                            \* fibonacci: bits

\* The operands of div_by_3 have 15 bits, as the testbench draws them.
ASSUME OperandsAssumption == Operands \subseteq 0 .. 2 ^ 15 - 1

\* What is scanned has a size, and the words of a table are numbers.
ASSUME ScansAssumption ==
  /\ ZerosX \in Nat \ {0} /\ ZerosV \in Nat \ {0} /\ SlowW \in Nat \ {0}
  /\ WordN \in Nat \ {0} /\ TableWords \subseteq Nat

\* What is added are words, and the operands of fused_multiply_add have the 15
\* bits that its comment gives them, though x and c may have the port's 16.
ASSUME SumsAssumption ==
  /\ PipeW \in Nat /\ {PipeInit, PipeIncr} \subseteq 0 .. 2 ^ PipeW - 1
  /\ FmaW \in Nat /\ FmaInits \subseteq 0 .. 2 ^ FmaW - 1 /\ FmaPasses \in Nat
  /\ FmaM \subseteq 0 .. 2 ^ 15 - 1 /\ FmaX \cup FmaC \subseteq 0 .. 2 ^ 16 - 1
  /\ CountWords \subseteq [0 .. 7 -> 0 .. 15] /\ CountUndriven \subseteq 0 .. 63
  /\ FibW \in Nat

\* The counters of latency wrap, and its agent takes a cycle or more.
ASSUME LatencyAssumption == LatM \in Nat \ {0} /\ Delays \subseteq Nat \ {0}

\* The customer of vending_machine_dp has fewer nickels than the machine counts.
ASSUME PurseAssumption == DpM \in Nat /\ DpPurse \in Nat /\ DpPurse < DpM

VARIABLES unit, reg, tb
vars == <<unit, reg, tb>>

-----------------------------------------------------------------------------
(* What the cfg gives the constants: every list of up to four of the keys  *)
(* 0 .. 3, its entries anywhere, and every level.  The payload of a key is *)
(* the key and 1; an entry that is Free is not valid, and its key is 0.    *)

Free == 4
ListOf(k) ==
  [e \in 0 .. 3 |-> [vld |-> k[e] # Free, key |-> k[e] % Free, size |-> (k[e] + 1) % (Free + 1)]]
ListsOfFour ==
  { ListOf(k) : k \in { k \in [0 .. 3 -> 0 .. Free] :
      \A e, f \in 0 .. 3 : e # f /\ k[e] = k[f] => k[e] = Free } }
OneQuery == { [t |-> ListOf([e \in 0 .. 3 |-> IF e > 1 THEN e ELSE Free]), level |-> 1] }

\* Some operands of each remainder, and those at the ends of the range.
SomeOperands == 0 .. 4 \cup { 1000 * k : k \in 1 .. 32 } \cup 32764 .. 32767

\* Words whose nibbles are a, but for those of S, which are b.
NibbleWords ==
  { [i \in 0 .. 7 |-> IF i \in S THEN b ELSE a] :
      S \in { {j} : j \in 0 .. 7 } \cup {1 .. 4}, a \in {0, 7, 14}, b \in {6, 8, 15} }

Sort == INSTANCE SortQuery WITH Lists <- {0}, N <- 4
Zeros == INSTANCE ZeroIndices WITH X <- ZerosX, V <- ZerosV
Div == INSTANCE DivBy3
Lat == INSTANCE Latency WITH M <- LatM
Clk == INSTANCE ClkDivBy3
Dp == INSTANCE VendingMachineDp WITH M <- DpM, Purse <- DpPurse
Vend == INSTANCE VendingMachineFsm WITH Purse <- VendPurse
Detect == INSTANCE DetectSequence
Slow == INSTANCE ZeroIndicesSlow WITH W <- SlowW
Word == INSTANCE MissingDuplicatedWord WITH
  W <- WordW, N <- WordN, Words <- TableWords
Pipe == INSTANCE PipelinedAddConstant WITH
  W <- PipeW, INIT <- PipeInit, INCR <- PipeIncr
Fma == INSTANCE FusedMultiplyAdd WITH
  W <- FmaW, M <- FmaM, X <- FmaX, C <- FmaC, Inits <- FmaInits, Passes <- FmaPasses
Count == INSTANCE CountZeros32 WITH Words <- CountWords, Undriven <- CountUndriven
Fib == INSTANCE Fibonacci WITH W <- FibW
Comb == INSTANCE Combinational

\* The lists that are looked up are such as updates leave that add no key twice:
\* only valid entries have another key than 0, and no two of them have one key.
Proper(t) ==
  /\ t \in Sort!List
  /\ \A e \in Sort!Slot : ~t[e].vld => t[e].key = 0
  /\ \A e, f \in Sort!Vld(t) : t[e].key = t[f].key => e = f

ASSUME LookupsAssumption ==
  /\ Keys \subseteq Nat /\ 0 \in Keys /\ 0 \in Sizes
  /\ \A t \in Lookups : Proper(t)
  /\ Repeated \subseteq Sort!Query

Init ==
  /\ unit \in Units
  /\ \/ unit = "sort_query" /\ Sort!Init
     \/ unit = "zero_indices" /\ Zeros!Init
     \/ unit = "div_by_3" /\ Div!Init
     \/ unit = "latency" /\ Lat!Init
     \/ unit = "clk_div_by_3" /\ Clk!Init
     \/ unit = "vending_machine_dp" /\ Dp!Init
     \/ unit = "vending_machine_fsm" /\ Vend!Init
     \/ unit = "detect_sequence" /\ Detect!Init
     \/ unit = "zero_indices_slow" /\ Slow!Init
     \/ unit = "missing_duplicated_word" /\ Word!Init
     \/ unit = "pipelined_add_constant" /\ Pipe!Init
     \/ unit = "fused_multiply_add" /\ Fma!Init
     \/ unit = "count_zeros_32" /\ Count!Init
     \/ unit = "fibonacci" /\ Fib!Init
     \/ unit = "combinational" /\ Comb!Init

Next ==
  /\ UNCHANGED unit
  /\ \/ unit = "sort_query" /\ Sort!Next
     \/ unit = "zero_indices" /\ Zeros!Next
     \/ unit = "div_by_3" /\ Div!Next
     \/ unit = "latency" /\ Lat!Next
     \/ unit = "clk_div_by_3" /\ Clk!Next
     \/ unit = "vending_machine_dp" /\ Dp!Next
     \/ unit = "vending_machine_fsm" /\ Vend!Next
     \/ unit = "detect_sequence" /\ Detect!Next
     \/ unit = "zero_indices_slow" /\ Slow!Next
     \/ unit = "missing_duplicated_word" /\ Word!Next
     \/ unit = "pipelined_add_constant" /\ Pipe!Next
     \/ unit = "fused_multiply_add" /\ Fma!Next
     \/ unit = "count_zeros_32" /\ Count!Next
     \/ unit = "fibonacci" /\ Fib!Next
     \/ unit = "combinational" /\ Comb!Next

\* A unit has begun something.
Busy ==
  \/ unit \in {"zero_indices", "zero_indices_slow"} /\ reg.in_busy_r
  \/ unit = "missing_duplicated_word" /\ reg.cntrl_busy_r
  \/ unit = "div_by_3" /\ reg.busy
  \/ unit = "vending_machine_dp" /\ reg.fsm # "DEPOSIT"

\* The machine's agents answer, and clocks do not stop while a unit is busy.
Answered == UNCHANGED unit /\ unit = "vending_machine_dp" /\ Dp!Answered
AnsweredAlone == UNCHANGED unit /\ unit = "vending_machine_dp" /\ Dp!AnsweredAlone

Fairness ==
  /\ WF_vars(Busy /\ Next)
  /\ <>[](ENABLED <<AnsweredAlone>>_vars) => []<><<Answered>>_vars

Spec == Init /\ [][Next]_vars /\ Fairness

-----------------------------------------------------------------------------
\* Queries and operands are answered in order, exactly, and none is left out;
\* a query of a list with a key 0 may take it for an entry that is free.
AnswersAsExpected ==
  /\ unit = "sort_query" => Sort!AnswersAsExpected
  /\ unit = "div_by_3" => Div!AnswersAsExpected

\* The units that go through a vector or a table in several cycles report all
\* of what they look for and nothing else: in a vector that has a zero
\* (zero_indices_slow), a lonely word below W ** 2 (missing_duplicated_word).
ScansFindAll ==
  /\ unit = "zero_indices" => Zeros!AnswersAsExpected
  /\ unit = "zero_indices_slow" => Slow!AnswersAsExpected
  /\ unit = "missing_duplicated_word" => Word!AnswersAsExpected

\* The units that keep or pipeline a sum are exact modulo their width: operands
\* of 15 bits, no word that is not driven (count_zeros_32), and an increment of
\* B that leaves reset as INIT (pipelined_add_constant).
SumsExact ==
  /\ unit = "pipelined_add_constant" => Pipe!AnswersAsExpected
  /\ unit = "fused_multiply_add" => Fma!AnswersAsExpected
  /\ unit = "count_zeros_32" => Count!AnswersAsExpected
  /\ unit = "fibonacci" => Fib!AnswersAsExpected

\* The answers without registers are what they should be on every input that
\* has a 0 to increment, and x[6] clear for solution 0 of using_full_adders.
LogicAsExpected == unit = "combinational" => Comb!AnswersAsExpected

\* The sorting network keeps the entries of a list together and complete.
NetworkKeepsEntries == unit = "sort_query" => Sort!NetworkKeepsEntries

\* Neither latency nor money comes from nowhere or goes astray.
Conserved ==
  /\ unit = "latency" => Lat!Conserved
  /\ unit = "vending_machine_dp" => Dp!Conserved
  /\ unit = "vending_machine_fsm" => Vend!Conserved

\* The state machine of detect_sequence has no false alarm, and misses one
\* kind of overlapping sequence only.
DetectsUnlessShared == unit = "detect_sequence" => Detect!DetectsUnlessShared

\* clk_div_3 is high for half of a period of three periods of clk.
HalfOfThePeriod ==
  [][unit = "clk_div_by_3" => (Clk!clk_div_3' # Clk!clk_div_3 <=> tb \in {0, 3})]_vars

\* What a unit has begun it ends: a vector, a table, a division, and a sale.
BusyEnds == Busy ~> ~Busy
=============================================================================
