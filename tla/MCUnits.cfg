\* Every unit, with the instances of MCUnits.
CONSTANTS
  Units = {"sort_query", "zero_indices", "div_by_3", "latency", "clk_div_by_3",
           "vending_machine_dp", "vending_machine_fsm", "detect_sequence",
           "zero_indices_slow", "missing_duplicated_word", "pipelined_add_constant",
           "fused_multiply_add", "count_zeros_32", "fibonacci", "combinational"}
  Keys = {0, 1, 2, 3}
  Sizes = {0, 1, 2, 3, 4}
  Lookups <- ListsOfFour
  Repeated <- OneQuery
  ZerosX = 3
  ZerosV = 2
  SlowW = 4
  Operands <- SomeOperands
  LatM = 16
  Delays = {1, 2, 3}
  Transactions = 4
  DpM = 16
  DpPurse = 13
  VendPurse = 27
  WordW = 5
  WordN = 5
  TableWords = {0, 24, 25, 31}
  PipeW = 3
  PipeInit = 0
  PipeIncr = 2
  FmaW = 24
  FmaM = {0, 99, 21845, 27306, 32767}
  FmaX = {3, 100, 65000}
  FmaC = {0, 65535}
  FmaInits = {0, 100}
  FmaPasses = 2
  CountWords <- NibbleWords
  CountUndriven = {0, 1}
  FibW = 8
SPECIFICATION Spec
INVARIANTS
  AnswersAsExpected ScansFindAll SumsExact LogicAsExpected NetworkKeepsEntries
  Conserved DetectsUnlessShared
PROPERTIES HalfOfThePeriod BusyEnds
