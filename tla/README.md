# A TLA+ verification of hw_interview_questions

The repository holds answers to hardware interview questions: small
SystemVerilog designs under `src/rtl/<answer>/`, each with a SystemC testbench
that drives it with random stimulus and compares it with a C++ model. This
directory holds TLA+ models of the designs, the TLC configurations that check
them on small instances, and TLAPS proofs, for every instance, about the
pipelines of `multi_counter`, `multi_counter_variants` and `sorted_lists`, the two
clock-domain crossings, and the queues with one clock: `fifo_ptr`, `fifo_sr`,
`fifo_n` and `fifo_multi_push`.

Run the tools in this directory: `tlc -config MCMultiCounter.cfg MCMultiCounter.tla`
checks a configuration, `tlapm MultiCounterProofs.tla` the proofs of a module (those
whose names end in `Proofs`, and `QueueLemmas`). The runs, their properties and a bug that each property catches are listed in
`PROJECT.json`, and so is the line of the source that each definition models.

## The system

Every answer is one module with one clock, but `fifo_async` and
`mcp_formulation` with two. The answers do not call or share anything with each
other; they interact with a client, which is their testbench. The testbenches
are therefore part of the models: what they drive, what they hold back (a push
while `full_r` is high, a query of a list under modification) and what they
expect.

| answer | state | operations | what is hard | what makes it correct |
|---|---|---|---|---|
| `multi_counter` | four pipeline stages, a RAM of counters and its output register | a command or none in every cycle, reset | results are in the pipeline for up to three cycles; a read may collide with a write-back | commands execute whole, in order, on one table |
| `multi_counter_variants` | a table of flops; an engine per counter; five stages and an SRAM | the same commands to all three solutions | the same, with forwarding at two places | the three give equal answers |
| `sorted_lists` | two copies of a table of lists, four update stages, three query stages, the sorting network (three) and a delay pipe | CLEAR, ADD, DELETE, REPLACE, query, in parallel | forwarding of whole lists; two copies; a list changes behind a query | updates execute whole, in order; a query sees the list as issued; the entry of the rank asked for |
| `fifo_async` | write and read pointer, their Gray codes, two synchronisers, RAM, read pipe | push on `wclk`, pop on `rclk` | the clocks are independent, sampled bits settle either way, each side sees the other late | order; nothing overwritten; progress |
| `mcp_formulation` | launch state machine and vector, pulse, two synchronisers, capture register | a vector on `l_clk` | the vector crosses unsynchronised; pulse and echo have lengths that depend on the clocks | each vector once, whole; every handshake ends |
| `fifo_ptr` | write, read and speculative pointer, storage, flags | push, pop, commit, replay, flush | words popped and not committed still occupy room | order, exact flags, replay from the oldest uncommitted word |
| `fifo_sr` | one-hot strobes, array, flags | push, pop | no wrap bit: the flags feed themselves | order, flags on the safe side |
| `fifo_n` | per queue pointers and flags, one RAM | push to one queue, pop from another or the same | one cycle loads two queues, or both pointers of one | order per queue, exact flags |
| `fifo_multi_push` | four queues, two one-hot indices, flags by lane | up to four pushes and a pop | each lane's flag is that of a queue that depends on this cycle's pushes | order over cycles and lanes |
| `zero_indices_fast` | an engine per slice and one that selects slices | start a vector | hand-over between engines without a lost cycle | every zero once, in order; busy ends |
| `div_by_3` | accumulator, bit counter | pass an operand | the operand is read in eight cycles | the quotient, once |
| `latency` | three counters | issue, retire, clear | no command is followed individually | the aggregate is the sum of the latencies |
| `clk_div_by_3` | two counters and flops on opposite edges | none | the phase comes from reset | a third of the frequency, half high |
| `vending_machine_dp`, `vending_machine_fsm` | count and state machine | coins, acknowledgements | several agents | money is conserved; a sale ends |
| `detect_sequence` | state machine and shift register | a bit per cycle | overlapping sequences | the two agree |
| `zero_indices_slow` | the vector and what is left of it | start a vector | it is reported while it is consumed | every zero once, in order |
| `missing_duplicated_word` | table, vector of flips, read pointer | write the table, start | a bit for every word; the last word | the word that is there once |
| `pipelined_add_constant` | two accumulators, one with its register inside the adder | none | what the registers hold as reset ends | the two agree |
| `fused_multiply_add` | a sum in two words | load, multiply and add | signed digits, carries kept for later | exact modulo the width |
| `count_zeros_32` | the two words of a tree's last stage | a word per cycle | which words a tree takes | the number of zeros |
| `fibonacci` | two registers | none | wrapping sums | the sequence |
| `count_ones`, `one_or_two`, `increment`, `multiply_by_21`, `using_full_adders`, `gates_from_MUX2X1` | none | an input per cycle | the inputs that random words never are | the answer's arithmetic |

The cells that the designs instantiate (`dpsram`, `sync_ff`, `rotate`, `ffs`,
`encoder`, `popcnt`, `delay_pipe`, `mem_egress_pipe`, `rf`) come from a submodule
that is not in the repository. They are modelled from how they are used: a
`sync_ff` is two flops; a `dpsram` reads the old word, keeps its output while it
is not read, and writes at the edge; `mem_egress_pipe` holds two words, one under
way from the RAM included.

## From the source to the models

One step is one rising edge of the clock, or of one or both of two clocks. A
register of the RTL is a variable (or a field of `reg`) with its name, a wire is a state function with its name, and the
combinational process becomes the right-hand sides. What the edge loads is
written down as a whole, so that a step is everything that happens in that
cycle. A stage whose valid bit is low is `Empty` where nothing reads its
registers without the valid bit; in `MultiCounter` the stale contents are kept,
because some wires do read them. Vectors, payloads and words are members of
small sets: no design but the arithmetic ones looks at them. A word that is
looked at bit by bit is the set of its bits that are 1 (or, for the designs that
look for zeros, 0). Reset is the initial state, as the testbenches apply it
once; `MultiCounter` can be reset at any time, the two sides of `FifoAsync`
leave reset one after the other, and in `PipelinedAddConstant` a reset lasts any
number of edges. The arrays of the queues hold anything at first.

| module | models | notes |
|---|---|---|
| `CounterTable` | what `multi_counter` promises, the testbench's `expected_` | a command executes three edges after it was issued; a reset drops those that have not |
| `MultiCounter` | `multi_counter.sv` | `mem_PROC`, `fwd_PROC`, `exe_PROC`, `ucode_PROC`; `Issue`, `Bubble`, `Reset`; the mapping to `CounterTable` |
| `MultiCounterProofs` | | the theorems about it |
| `SortedListsPkg` | the list computations of the execute stage; the testbench's list | shared by the next four |
| `ListTable` | what the update pipeline promises | |
| `SortedLists` | `sorted_lists.sv` up to the query's lookup, with `MachineModel` | an update stream and a query stream in every step |
| `SortedListsProofs` | | what an update does to a list of any length; the theorems about `SortedLists` |
| `SortQuery` | `sorting_network.sv`, the delay pipe and the selection | takes over where `SortedLists` ends, at `ucode_qry_2_r` |
| `FifoAsync` | `fifo_async.sv` | `Sampled` is what a flop may take from a register that changes at the same edge, bit by bit |
| `FifoAsyncProofs` | | bits and Gray codes; the theorems about `FifoAsync` |
| `McpFormulation` | `mcp_formulation_l.sv`, `mcp_formulation_c.sv` | clocks with periods and a phase, because correctness depends on their ratio; where two edges coincide a flop takes the old value, as in the RTL (and not old or new, as in `FifoAsync`) |
| `McpProofs` | | the theorems about `McpFormulation` |
| `Queue` | what every single-clock queue promises, the testbenches' `std::deque` | so many words a cycle in, one out; words leave when they are popped or when they are committed, and a replay goes back to the oldest |
| `FifoPtr`, `FifoSr`, `FifoN`, `FifoMultiPush` | the designs of these names, with the mapping of their registers to `Queue` (`Held`, `Taken`, `Abstract`) | composed in `MCFifos`, one at a time |
| `QueueLemmas` | | lemmas about induction, powers of two, remainders, pointers that wrap, words in a ring, pipes and shift registers, stages that hold a word or none |
| `FifosProofs` | | the theorems about the four queues and `MCFifos` |
| `MultiCounterVariants` | `multi_counter_variants.sv`, all three solutions behind one port | |
| `MultiCounterVariantsProofs` | | the theorems about it |
| `ZeroIndices`, `DivBy3`, `Latency`, `ClkDivBy3`, `VendingMachineDp`, `VendingMachineFsm`, `DetectSequence`, `ZeroIndicesSlow`, `MissingDuplicatedWord`, `PipelinedAddConstant`, `Fibonacci` | the designs of these names | composed in `MCUnits`, one at a time |
| `Compressors` | words as sets of bits, and rows of full adders | shared by the next two and `Combinational` |
| `FusedMultiplyAdd`, `CountZeros32` | the designs of these names | in `MCUnits` |
| `Combinational` | `count_ones`, `using_full_adders`, `increment`, `one_or_two`, `multiply_by_21`, `gates_from_MUX2X1` | one word drives them all, in `MCUnits` |
| `MCTestbenches` | nine testbenches whose designs depart from what they expect | one after the other, for the run `testbenches` |
| `UnitsProofs` | | the theorems about the units of `MCUnits` |

`MCFifos` and `MCUnits` exist so that one run checks several designs that have
nothing to do with each other: `unit` says which design a behaviour is about and
never changes. `tb` and the variables `queue`, `expected`, `model`, `cntrs` and
`expect` are the testbenches' scoreboards.

Each property has a mutant in `PROJECT.json`, a definition with a likely bug
that TLC must find: forwarding without one of the sources, a full flag from
last cycle's pointer, a binary pointer in place of the Gray code. The mutants
are defined next to the definition they replace.

## The runs

| run | states | shows |
|---|---|---|
| `multi_counter` | 197,798 | `ForwardingInv`: what a stage works on is what the commands before it left; `ImplementsTable`: the pipeline refines `CounterTable`, resets included |
| `multi_counter_nop` | violation | with `OP_NOP` it does not (finding 1) |
| `sorted_lists` | 57,267 | `ImplementsListTable`: updates of one list at every distance; `TablesMatchModel`: both copies settle on the testbench's list; `QueryFindsModel`: a query is not disturbed by updates around it |
| `sorted_lists_notify` | violation | the notification port (finding 2) |
| `fifo_async` | 195,232 | `PointersInOrder`: neither side sees the other ahead of where it is, from the end of the first reset on; `HoldsWhatWasPushed`: order and content of the whole path; `ReadsSettledWord`: no read of the word being written; `WordArrives`, `FullClears`: progress |
| `mcp` | 6,530 | `RetiresInOrder`, `HeldUntilRetired`, `IdleMeansRetired`: once, whole, and nothing left that could answer for the next vector; `BusyEnds` |
| `fifos` | 16,080 | `PopsInOrder` for all four; `FlagsExact` for `fifo_ptr` and `fifo_n`; `FlagsSafe` for the other two; `FullClears`; `ImplementsQueue`: the words in the registers of each are a queue, whatever the flags say |
| `fifo_multi_push_visible` | violation | a word that is alone is invisible (finding 3) |
| `multi_counter_variants` | 107,694 | `AnswersAsExpected`: three solutions, one answer; `SramCatchesUp` |
| `multi_counter_variants_init` | violation | an `OP_INIT` behind another command (finding 4) |
| `units` | 79,440 | see below |
| `testbenches` | violation | nine testbenches report (findings 5 to 13) |

In `units`, `AnswersAsExpected` is about the query side of `sorted_lists` (with
`NetworkKeepsEntries`) and `div_by_3`; `ScansFindAll` about the two forms of
`zero_indices` and `missing_duplicated_word`; `SumsExact` about
`fused_multiply_add`, `count_zeros_32`, `pipelined_add_constant` and
`fibonacci`; `LogicAsExpected` about the answers without registers;
`Conserved` about `latency` and the two vending machines; `HalfOfThePeriod`
about `clk_div_by_3`; `BusyEnds` about a vector, a table, a division and a sale;
`DetectsUnlessShared` says exactly which sequences `detect_sequence` misses.
These properties claim what the testbenches expect, and where a design departs from
that on some inputs, they claim it of the others: of vectors with a zero
(`zero_indices_slow`), a lonely word that has a bit (`missing_duplicated_word`),
operands `m` of 15 bits (`fused_multiply_add`), an undriven word that is 0
(`count_zeros_32`), an increment of the second accumulator that leaves reset as `INIT`
(`pipelined_add_constant`), a word that is not all ones (`increment`), an `x[6]` that is
0 (solution 0 of `using_full_adders`), a query that no key 0 makes ambiguous
(`AmongFree` of `SortQuery`; such a query may be answered with key 0 or an error, so
`AnswersAsExpected` does not tell whether its entry was missed).

`testbenches` asks whether these restrictions are needed. The claims without them are
`Validated`, `LonelyWordFound`, `NeverFails`, `IncrementAddsOne` and
`CountedWithFullAdders`, each what one testbench asserts or compares. The nine
testbenches are run in turn, each until it has an error to report, and one that never
had would keep the others from their turns; `NotAllReport` says that one of them
accepts its design to the end. Its counterexample is a behaviour in which all nine have
reported, so it refutes each of the claims: a vector without zeros, the word
25 of five bits alone in a table, an undriven word that is 1, 65535 for `m`, a reset that
leaves the increment registers different, a sequence that shares two bits with the one
before, a word of all ones for the combinational answers, and a list whose only entry
has key 0 and is in the last slot.

### Bounds, and why they are enough

* `multi_counter`, `multi_counter_variants`: two counters of three values.
  Forwarding compares pairs of identifiers, so one counter under test and one
  other suffice; three values tell an increment from a decrement and a wrap
  from both. Everything is issued on `c0`, and on `c1` what writes. Behaviours
  are not bounded in length. The theorems about both remove these bounds.
* `sorted_lists`: two lists of two entries, keys 0 to 2, sizes 0 and 1: a list can be empty,
  half full, full, and refuse an ADD. One list gets every kind of update, the
  other one an ADD between them. The tables start cleared: the RTL does not
  reset them, and the testbench begins with lists that it takes to be empty.
  One query is in flight at a time (`QueriesMax`): queries do not influence one
  another before the sorting network, and `SortQuery` has several.
* `SortQuery`: every list of up to four of the keys 0 to 3, in every arrangement,
  and every level, with a second stream of one repeated query before and after
  (`Repeated`), so that stages never hold only one query.
* `fifo_async`: four words, so that pointers have three bits and wrap; two
  values, for a lost or doubled word to show. Each side may leave reset first,
  by any number of edges, after both have had two edges in reset.
* `mcp`: every pair of periods of up to eight units with the capture clock no
  slower, every phase: ratios from one to eight, whole and broken. `BusyEnds` is
  claimed for the whole ones.
* `fifos`: four words for `fifo_ptr` and `fifo_sr`, two queues of two for
  `fifo_n`, two queues of two with two values and four queues of two with one
  for `fifo_multi_push`. The depths of the queues, the number of
  queues of `fifo_n` and of lanes of the first `fifo_multi_push` are constants of
  `MCFifos`, and the theorems hold for all of them.
* `latency`: delays of one to three cycles, four commands between clears, counters modulo 16;
  `vending_machine_dp`: 13 nickels, a count modulo 16;
  `vending_machine_fsm`: 27 nickels, three drinks and some change; `zero_indices_fast`: three slices of two bits, every
  vector; `zero_indices_slow`: four bits, every vector; `div_by_3`: 40 operands of the testbench's 15 bits, which include both
  ends of the range and every remainder.
* `missing_duplicated_word`: words of five bits as in the testbench, so that the
  vector has its 25 bits, tables of five of the words 0, 24, 25 and 31, which are
  at the ends of what has a bit and what has none.
* `fused_multiply_add`: words of 24 bits for 32 (TLC's integers have 32, with a
  sign), two passes; multipliers of 15 bits with each Booth digit in most places, among
  them 2^15 - 1. `count_zeros_32`: words of two different nibbles in
  every place, an undriven word of 0 and of 1. `pipelined_add_constant`: three bits, whatever the registers hold
  before reset; `fibonacci`: eight bits, the whole period. The combinational
  answers: all words of eight bits.

### Fairness, and why the code justifies it

* Clocks do not stop: `McpFormulation` has `WF_vars(Next)`, `MCUnits` has it while
  a unit is busy; `FifoAsync` has it for each clock separately, and resets end. `FifoAsync!Fairness` is written
  out so that it only demands edges: nobody is made to push or pop, an edge
  with a push counts as an edge.
* The pop sides of `fifo_sr` and `fifo_multi_push` pop whenever they can, as
  `t_popper` and `m_popper` do: `WF_vars(PopsAlone)`, where `PopsAlone` is a
  cycle that pops and does not push. The stimulus is a finite number of pushes,
  and `fifo_multi_push.cpp` pushes nothing in one cycle of five, so such a
  cycle cannot be put off for ever. Nobody has to push.
* The agents of `vending_machine_dp` answer, as `t_dispense`,
  `t_emit_serve_done` and `t_emit_change_done` do.

## Findings

1. `multi_counter.sv:275`: `~cntr_op != OP_NOP` holds for every opcode, so a
   no-operation is valid, is forwarded from, and hands the next command on that
   counter an operand that was never read.
2. `sorted_lists.sv:360`: the notification of an emptied list counts the entries
   after the deletion and asks for one; it fires one deletion too early.
3. `fifo_multi_push.sv:317`: `empty_r` is that of the queue behind the head; a word
   that is alone cannot be popped until another one follows.
4. `multi_counter_variants.sv:329`: solution 3 forwards an older value to an
   `OP_INIT`, which loses its data.
5. `detect_sequence.sv:104`: a sequence that begins with the last two bits of the
   one detected before is missed; the assertion that would notice is on a
   signal that is never driven.
6. `missing_duplicated_word.sv:64`: the vector has `W ** 2` bits where
   `missing_duplicated_word/README.md` has `2^W`; of the testbench's 32 words seven
   have no bit, and are answered with 0 if they are the lonely one.
7. `zero_indices_slow.sv:129`: a vector without zeros is reported to have one at 0.
8. `pipelined_add_constant/B.sv:91`: the second accumulator is ahead of the first by
   the increment it had as reset ended: with `INIT` 0 they agree only if reset is a
   single edge and the register was 0 before it.
9. `count_zeros_32.sv:148-150`: the word `csa_rnd_2[2]`, which nothing drives, is
   added in.
10. `fused_multiply_add.sv:181`: bit 15 of `m` is taken for a sign, beyond the "15b"
    of the comment at line 75; the port has 16 bits and the testbench's model is
    unsigned.
11. `increment.sv:41-59`: a word of all ones is left as it is.
12. `using_full_adders.sv:78`: solution 0 has no place for `x[6]`. The testbench
    draws `x` from 0 to 7.
13. `sorting_network.sv:55`: a valid entry with key 0 ties with the entries that are
    not valid, and a query can be told that it is not there. The testbench's keys are
    random words of 64 bits.

Things met while modelling that no run is about:

* `sorted_lists.sv:36-39` warns that consecutive updates of one list corrupt it
  with `DISABLE_FORWARDING`. They do not: `ImplementsListTable` holds with them,
  because `update_exe_fwd_PROC` forwards from stage 3 in any case. The comment
  at line 309 says that a REPLACE replaces the key; the code and the README of
  the design replace the size. `upt_error_vld_w` is never assigned.
* `fifo_async.sv:140`: a push while full moves the write pointer. The
  testbench's `b_push` does not look at `full_r`.
* `mcp_formulation`: where the launch period is no whole number of capture
  periods the echo can be missed, and the launch side then stays busy (periods 3
  and 2). A capture clock slower than the launch clock can miss the one-cycle
  pulse too; and one that sees it (periods 1 and 3) may echo it for so long that
  the next vector is acknowledged before it is taken, and is overwritten. `sync_c_out_valid_1_w` is computed and never loaded.
* `fifo_ptr`: a commit in the cycle of a replay pops the committed word again; a
  flush zeroes the write pointer only.
* `fifo_sr`: a push and a pop together with one word in the queue flag it empty
  until the next push, with room for one word full until the next pop.
* `fifo_n.cpp:105` and `143` assert with `|` where `&` is meant and cannot fail;
  `FlagsExact` is what they mean.
* `vending_machine_dp`: the price is never subtracted, so all money comes back as
  change; `Conserved` states what the count is. A coin in the cycle in which
  change is emitted, or as the machine returns to `DEPOSIT`, is lost.
  `vending_machine_fsm` loses a coin in the cycle in which it vends.
* `latency`: a clear with commands in flight lets the pending count underflow.
* `clk_div_by_3`: the duty cycle is a half if `rst` falls while `clk` is high; the
  counters are also clocked by that edge of `rst`.
* `div_by_3`: the quotient is wrong from 32768 on for operands of remainder two.
* `fifo_async`: the Gray coded pointers have no reset, so each side must have had
  two edges in reset before the other leaves it; otherwise words appear that
  nobody pushed. `fifo_async_tb.cpp:87-93` resets the write side for one edge and
  leaves a TODO at line 54 about pops that come too early.
* `fifo_sr`: with two slots, cycles that push and pop can leave both flags high, and
  then nothing is pushed or popped again; with three or four this does not happen. The
  run has four slots (the source has 16), and `FullClears` is claimed of that run only; the theorems about `fifo_sr` are about order
  and about flags that err on the safe side, which both do.

## The proofs

A theorem holds for every value of the constants that meets the module's
`ASSUME`s and the theorem's own hypothesis, where it has one:

| module | theorems | for every | hypothesis |
|---|---|---|---|
| `MultiCounterProofs` | `TypeCorrect`, `ForwardingCorrect`, `PipelineImplementsTable` | set of counters, modulus but 0, set of commands | the last two: no `OP_NOP` is issued (`NoNopIssued`) |
| `MultiCounterVariantsProofs` | `TypeCorrect`, `AnswersCorrect`, `SramCorrect` | set of counters, modulus but 0, set of commands | the last two: no counter is initialised twice (`InitialisedOnce`) |
| `SortedListsProofs` | `TypeCorrect`, `PipelineImplementsListTable`, `TablesFollowModel`, `QueriesFindModel` | set of lists, number of entries, keys, sizes, stimulus, number of queries | the last two: the tables power up without double keys (`PowerUpDistinct`) |
| `FifoAsyncProofs` | `TypeCorrect`, `OrderCorrect`, `ContentsCorrect`, `ReadsSettled` | depth that is a power of two, set of words | |
| `McpProofs` | `TypeCorrect`, `Retires`, `IdleIsClean`, `Held` | set of clocks, phase, set of vectors | `c_clk` is no slower than `l_clk` (`NoSlower`) |
| `FifosProofs` | `PtrTypeCorrect`, `PtrPopsCorrect`, `PtrFlagsCorrect`, `PtrRefinement` of `fifo_ptr`, with `HAS_REPLAY` and without; `SrTypeCorrect`, `SrPopsCorrect`, `SrFlagsErrSafely`, `SrRefinement` of `fifo_sr`; `VqTypeCorrect`, `VqPopsCorrect`, `VqRefinement` of `fifo_n`; `MultiCorrect` of `fifo_multi_push`; `TypeCorrect`, `PopsCorrect`, `FlagsExactCorrect`, `FlagsSafeCorrect`, `Refinement` of `MCFifos` | depths, number of queues and of lanes, set of words (`DepthAssumption`) | |
| `UnitsProofs` | `HalfOfThePeriodCorrect`, `DetectsUnlessSharedCorrect`, `ConservedCorrect`, `NetworkKeepsEntriesCorrect`, `AnswersCorrect`, `ScansFindAllCorrect`, `SumsExactCorrect`, `LogicAsExpectedCorrect` | lists of four entries without double keys, keys, sizes (`LookupsAssumption`), operand of 15 bits (`OperandsAssumption`), vector and table of a size but 0 (`ScansAssumption`), width and delays of `latency` (`LatencyAssumption`), width and purse of `vending_machine_dp` (`PurseAssumption`), purse of `vending_machine_fsm`, width and constants of `pipelined_add_constant` and `fibonacci`, width and operands of `fused_multiply_add`, word of `count_zeros_32` (`SumsAssumption`) | |

`QueueLemmas` has induction over numbers (`Onwards`) and the powers of two, the
arithmetic of remainders and of pointers that wrap, the
lemmas about sequences, those about a ring, an array with two pointers (`Ring`),
about words that are dealt to several queues in turn (`Dealt`), about what is in a
pipe and how far it has to go (`PipeSteps`), and about stages that hold a word or
none each (`FiveStages`), without reference to any design.

No hypothesis is there for the proof's sake. `multi_counter_nop` and
`multi_counter_variants_init` show what happens without `NoNopIssued` and
`InitialisedOnce`; the testbench of the variants initialises each counter once.
Two entries with one key are hit together, and the design encodes two hits as
if they were one (`sorted_lists.sv:723`); the testbench takes the lists to be
empty at first and adds no key twice. A slower capture clock misses pulses or
stretches their echo (see above). `DepthAssumption` asks `fifo_sr` for two slots:
with one the two strobes are always equal, and `full_r`, which looks at them
only, cannot rise before the word is overwritten. `PurseAssumption` is that the
customer's nickels can be counted: the count of `vending_machine_dp` has four bits
and wraps. `LookupsAssumption` describes the lists as updates leave them: an entry
that is deleted or cleared has key 0 (`sorted_lists.sv:273`, `:305`), and no key is
there twice. The testbench of `div_by_3` draws operands of 15 bits
(`OperandsAssumption`); from 32768 on some quotients would be one too large.
`SumsAssumption` says that what is added are words: initial values and increments fit
in the registers, the operands of `fused_multiply_add` have the 16 bits of its ports and `m` 15,
a word of `count_zeros_32` is eight nibbles and what nothing drives has six bits. The flush of `fifo_ptr` is off in `MCFifos`, for the theorems as for
the runs.

Each inductive invariant was an invariant of a TLC run on the run's instance
before it was proved. None of the properties above is inductive by itself.

**`multi_counter`.** The invariant is `IInv == TypeOK /\ NoNopInFlight /\
ForwardingInv`. `ForwardingInv` has one conjunct per place at which an operand
can be: looked up (stage 2), on its way to be executed (stage 3), retiring
(stage 4). Each says "unless an older stage holds a command on the same counter,
this is the counter's word in the RAM". That is what makes it inductive: as a
command moves on, either the older one moves with it, and forwarding will
replace the operand, or the older one is written back in that very step, and the
forwarded value is the word that is written. Without `NoNopInFlight` the second
half fails, because a no-operation is an older command that writes nothing.
`ForwardingPreserved` has one step per conjunct, and under it one per source of
the operand. The refinement maps the table to the RAM with stage 4's write in it
(`tableCntrs`): a command takes effect as it enters stage 4. `OperandIsTable` is
the link: what stage 3 computes from is the table's value of its counter.
`ExecuteStep` and `LineStep` then show that an edge executes the oldest command
and shifts the others, and `Reset` is `Drop`.

**`multi_counter_variants`.** Solutions 1 and 2 are tables (`TablesInv`). Of
solution 3 the invariant says what the SRAM's word becomes when the stages in
front of it have done their part, `Written`, `After2`, `After1` and `After0` in
turn. `ModelInv`: with all of them done it is the model's counter. `OperandInv`:
what the executing stage takes, forwarded or not, is `Written`. `ReadInv` and
`WrittenInv` say when the word read is good without forwarding. `OnceInv` is where
the hypothesis enters: nothing of a counter is ahead of its `OP_INIT`, so the
operand that the forwarding puts in the place of its data is never there.
`AnswersInv` is about sequences: what the testbench waits for is what stage 3, 2,
1 and 0 will answer, in that order, and it is inductive because each stage's
answer does not change as the command moves on (`Answer`). From it follow
`AnswersAsExpected` and, as nothing in front of `p3` changes a counter that none
of the stages holds, `SramCatchesUp`.

**`sorted_lists`.** `Types` is `TypeOK` with two registers that it leaves out, and
the facts that stages 1 hold a list once they hold a command (`Handed`,
`LookedUp`). `ForwardingInv` says that the list in stage 1, kept or read, and the
list in stage 2 are the table's: what they can still miss is the one write of
stage 3, and `update_exe_fwd_PROC` puts that in. This is all the refinement of
`ListTable` needs (`PipelineImplementsListTable`), whatever the tables power up
with. For the machine model, `ModelInv` says that the model is the table with the
updates of stages 3, 2, 1 and 0 done in that order (`After0`), that no list has
one key twice, and that an ADD in any stage will find its key new (`AddsAreNew`);
the last two need one another. The link between a list with slots and a set of
pairs are the lemmas of the module's first part: each update does to the pairs
what the model does, provided that keys are distinct. `LookupInv` is the same for
the query: what it will read, or has read, is the model as the query was issued.
The first free slot of a list of any length exists by the well-foundedness of the
naturals (`FirstSlot`).

**`fifo_async`.** `TypeOK` cannot stand alone: the read pipe has room for two words
because reads wait for it, and a vector of bits is a Gray code because it was
sampled from one that changes in one bit. The invariant says that there are
eight numbers (`Somewhere`), where the write pointer is, its Gray code, its two
synchroniser flops, and the same of the read pointer, which are in order:
`rw <= rs <= rg <= r <= ww <= ws <= wg <= w <= rw + N` (`Ordered`). Everything
else is an instance of that: the read side cannot pass `ww`, so it pops what is
there; the write side cannot pass `rw + N`, so it overwrites nothing. The lemma on
which it rests is `SampledPosition`: whatever mixture of bits a flop takes from a
Gray coded pointer that moves from `n` to `n + 1` is the code of one of the two,
so a sample never invents a number. That in turn rests on consecutive codes
differing in one bit, over the wrap too, and on no two positions having one code;
both are proved bit by bit from the definition by shift and exclusive or, for
every width. The flags compare codes with two bits turned, which is `N` positions
on. `Contents` relates the scoreboard to the words that have left the array
(`out`, `read`) and those between the pointers. In reset the numbers do not
exist yet (`InReset`); as one side leaves reset they are all 0, and the side that
stays behind holds its registers still.

**`mcp_formulation`.** What has to be shown is about time: when the launch side is
idle, and may pass the next vector, no flop may still hold the last pulse or its
echo. A pulse is one block (`FrontInv` before it has been taken, `BackInv` after).
`SentInv` says how long ago each flop took the pulse, in edges of `c_clk`, while
it is sent; so a pulse that spans two or three flops was a long one
(`LengthInv`), and with `c_clk` no slower its end is soon. `AckInv` is the
consequence: an echo that the launch side has seen once will have ended two of
its edges later, which is when its state machine is idle. `IdleInv` is the clean
state, and `OneVector` what the properties are about.

**`fifo_ptr`.** `IInv` adds to the properties `Counted` (the queue has at most `N`
words, of which no more than it has are popped), `Positions` (the write pointer
is the read pointer moved on by the length of the queue, the speculative one by
the words popped, modulo `2 * N`) and `Contents` (the i-th word of the queue is
in the i-th slot from the read pointer, modulo `N`). The argument: the flags are
exact, so a push finds room and a pop finds a word; then the queue has at most
`N` words after the cycle (`QueueStep`), the pointers are moved on by as much as
the queue grew and shrank (`PointersStep`), a word that is written goes to the
one slot that no word of the queue is in (`ContentsStep`), and since the
pointers' distance is the queue's length, from 0 to `N`, and not taken modulo `N`
but `2 * N`, the flags that are computed from it are exact again (`FlagsStep`).
The refinement reads `Positions` and `Contents` backwards: the words between the
pointers are the queue.

**`fifo_sr`.** The strobes have no wrap bit, so `SrPositions` is modulo `N` and
says the same of an empty and of a full queue. What tells them apart are the
flags, which are computed from the strobes before the edge and from their own
old value; therefore `FlagsSafe` is itself part of the invariant: flags that err
on the safe side by a word are what keeps the queue within `N` words, and the
queue within `N` words is what makes the next flags err on the safe side
(`SrFlagsStep`).

**`fifo_n`.** Each queue with its pointers and its slice of the RAM is a `Ring`, and
the invariant is that of all of them, with the flags exact. A cycle changes the
two queues it pushes to and pops from, which can be one; then a full queue takes
a word in the cycle in which it gives one, and the word that is written goes
where the word that is read was (`VqWordGiven`: the old one is read).
`VqScoreStep`, `VqEdgeStep` and `VqRingStep` say it per queue, so that the
refinement is one theorem for an arbitrary queue.

**`fifo_multi_push`.** The words of the queue are dealt to the queues behind the
lanes in turn. `MultiInv` says that there are such queues: the word `d` places and
`k` rounds from the head is word `k + 1` of the queue `d` places on from the pop
index (`Dealt`), each of them is a `Ring`, and the push index is the pop index
moved on by the length of the queue, modulo the number of lanes. A pop takes the
oldest word from the queue at the index and moves the index on, which leaves the
rest dealt (`DealtGone`); a push of several words gives each queue at most one and
leaves them dealt (`DealtMore`). A lane's flag is that of a queue which depends on
this cycle's pushes; it is exact because a queue `l` places from where the words
end has `K` words if and only if `l` words more would make `K` full rounds
(`DealtFull`). `empty_r` is that of the queue behind the one popped from; it errs
only on the safe side, because that queue has a word only if there are two
(`DealtSecond`), which is finding 3 seen from the other side. As the array is not
looked at but through the pointers, counting the words in it (`Fill`, for the
refinement) needs that the lengths of the queues add up to the queue's
(`DealtCount`).

**The queues together.** `FifosInv` is the invariant of whichever queue a behaviour
is about. The properties of `MCFifos` follow, and so does the refinement of `Queue`: `HeldAreQueues` says for
each of them that the words in its registers are the testbench's queue, and that
determines the abstract step whatever the design.

**The units.** `UnitsInv` has an invariant for each unit that is proved about:

* `clk_div_by_3` (`ClkInv`): the two counters follow one another half a period of
  `clk` apart, the flops are their zeros, and so the level of `clk` and the second
  counter say how long ago `clk_div_3` changed (`ClkAge`).
* `detect_sequence` (`DetectInv`): the state is the length of the longest beginning
  of the sequence that the stream ends with, of those that begin after what was
  detected last. `TransitionFalls` is the one lemma about the table: an entry is
  where that beginning goes with that bit. A sequence that is in the shift register
  and not detected began in the one before; as what was detected is still in the
  register, comparing the two bit by bit leaves one place where it can begin.
* `latency` (`LatInv`): the pending count is what is in the pipe and the aggregate,
  with the cycles that the commands in the pipe have ahead of them, is the delay
  times what was issued, all modulo the counters' width. An edge takes one cycle
  from each command in the pipe (`PipeSteps`), which is the pending count that the
  edge adds.
* `vending_machine_dp` (`DpInv`): what is counted was paid and not given back; a
  machine that has left `DEPOSIT` has been paid the price, and one that emits
  change has some. `vending_machine_fsm`: `Conserved` with the states' range.
* the queries of `sorted_lists` (`SortInv`): what the testbench waits for is what the
  five stages from the lookup to the response hold, the oldest first, each a query
  or none; and each stage of the network holds that query's list, as far sorted as
  the stages before it sort. `SwapKeeps`: an exchange keeps the set of pairs, as the
  keys are distinct. `NetworkSorts`: five exchanges sort any four entries. `LevelOfSorted`:
  in a sorted list the slot of a level has as many larger keys as its number, and
  only one pair has (`RankUnique`), so it is the pair that the testbench looks for.
  What spoils this is key 0, which an entry that is not valid has too: `Ambiguous`
  is when, and there the answer is an error or key 0.
* `div_by_3` (`DivInv`): before state `s` the accumulator is the operand times the
  bits of 0x2AAB that have been taken (`Factor`), 10923 in the end, which is a third
  of `2^15 + 1`; the excess is below one unit in the last place for an operand of
  15 bits (`Quotient`).
* the scans. `InOrder` is the sequence of a set of numbers from the least upwards, the
  way a scan goes through it: the least first, then what is left
  (`InOrderFrom`). `zero_indices_slow` (`SlowInv`): what was reported last and `InOrder`
  of what is left of the vector are what the testbench still waits for; a vector
  without zeros, which is answered with a zero at 0, is a case of its own.
  `zero_indices_fast` (`ZerosInv`): the engine that selects holds the slices that have
  something left, the engine of each slice its bits that are left, and each
  knows whether it has only one (`ZerosState`). The first zero of the first slice is
  the first zero (`FirstZero`), and the selecting engine moves on if and only if
  that was the slice's last (`SlicesLeft`).
  `missing_duplicated_word` (`WordInv`): the vector has a bit set for each word below
  its size that occurs an odd number of times among those read; a word flips
  its own bit and no other (`FlipStep`), and at the end one word is left, if it has
  a bit (`LonelyAtLast`); nothing is claimed of the answer if it has none.
* the sums. A word is the set of its bits that are 1, and `Below(x, n)` is what the bits
  of `x` below `n` are worth, the function that `Value` is recursive in. `Upto` is that
  function as far as `n`; there is one for every `n` and they agree (`UptoExists`,
  `UptoAgree`), which gives the equations of the recursion (`BelowIs`), and from these
  everything else follows bit by bit: a row of full adders loses nothing (`AddWords`), the
  bits of a number are worth the number modulo what fits (`BitsBelow`), a word that is
  moved up by `k` places is worth `2^k` times as much but for what is cut off
  (`MovedUpBy`). `Whole(P)` are the multiples of `P`: two sums are the same modulo `P` if
  they differ by a whole multiple, and the networks are followed with such an error on
  the side, one per row (`Compressed`), so that no remainder is ever taken in between.
  `fused_multiply_add` (`FmaInv`): the two words are worth the testbench's result, but for
  a whole multiple, and that result is what is waited for after a pass. `BoothDigits`: a
  digit takes two bits off and leaves a carry to the next (`BoothStep`), and the eight
  telescope to `m` with bit 15 as a sign (`Signed`), which is where the "15b" shows:
  nothing takes the last carry, and `m` is its own value if it has 15 bits (`FmaApply`). `FmaNetAdds`: the nine compressors add up eight multiples, the addend
  and the two words that are kept. `count_zeros_32` (`CountInv`): the table holds the zeros
  of a nibble (`LookedUpZeros`), those of the nibbles add up to those of the word
  (`ZerosOfWord`), and the tree adds up what it is given (`TreeAdds`); what nothing drives
  is one of the words that it is given.
  `fibonacci` (`FibInv`): the registers are the testbench's two numbers, `sel_r` says in
  which order. `pipelined_add_constant` (`PipeInv`): from the second edge on after reset
  both accumulators add `INCR` in every cycle (`PipeTogether`), so that A has the
  testbench's sum, and what B was ahead by when reset ended is what it stays ahead by.
* the answers without registers (`CombInv`: a word of eight bits, so all is in the
  lemmas): `CountWord` has the number of bits of a word as a sum of eight bits, and each
  network of full adders that counts them is followed adder by adder
  (`FullAdder`, `CsaCounts`, `SolutionOneCounts`, `SolutionZeroCounts`). `Carried`: flipping
  all bits up to the first that is 0 adds one (`Incremented`). A set has one element if
  and only if nothing is left of it without the least, which is what decrementing does
  (`SomeOf`, `OneTwoCounts`), for words of any size.

The library's induction theorems take an operator as parameter and cannot be used
here; where a proof needs induction over numbers, it takes the least
counterexample (`WFMin` of `WellFoundedInduction`): `Onwards` in `QueueLemmas`, from a
set with 0 that has the successor of each of its numbers to all numbers. This is how
the value of a word could be proved about although it is recursive: `Value` is a
recursive function, not a `RECURSIVE` operator or a fold, and its equations are proved.

Every safety invariant and every step property that a passing run checks is now
the statement of a theorem. Only model-checked are the liveness properties
(`WordArrives`, `FullClears`, `BusyEnds`) and whatever is about `ENABLED`, which the prover
does not reach.

## Not modelled

* A flush of `fifo_ptr`: it is written down, and no run takes it, for nothing says
  what it means to words that are popped and not committed, and no testbench has
  one. Likewise a commit in the cycle of a replay.
* `clk_div_by_3` without `HAS_DETFF`, which reads a wire that is not declared.
* A push to `fifo_async` while `full_r` is high, an ADD of a key that is in the
  list: the contracts of the ports, which the clients of the models keep.
* Build files, synthesis scripts, constraints, timing reports.
* Metastability as such: a sampled bit settles to one of two values before the
  next edge, which is what a two-flop synchroniser is assumed to ensure.
* Values of uninitialised registers where the valid bit hides them, resets in
  the middle of a run (but `multi_counter`).

## Plan

Done, in this order: `multi_counter` with its abstract table and proofs;
`sorted_lists`, updates then queries; the two clock-domain crossings; the
single-clock queues; the variants of the counter; the small sequential units;
the arithmetic and combinational answers; the abstract queue; the proofs about
the queues with one clock, `sorted_lists`, `fifo_async`, `mcp_formulation` and
`multi_counter_variants`, then about `clk_div_by_3`, `detect_sequence`, `latency`,
the vending machines, the queries of `sorted_lists`, `div_by_3`, the scans, the sums
and the combinational answers. With these every safety property of the plan is both
checked and proved.

Next, if the repository moves: the flush of `fifo_ptr` and a commit in the cycle of a
replay, as soon as something says what they mean; the liveness properties, when the
prover can be given fairness.
