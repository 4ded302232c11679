\* c_clk as fast as l_clk, and faster by any ratio of periods of up to eight
\* units, in every phase; the testbench has two to one.
CONSTANTS
  Words = {0, 1}
  Clocks <- MCNoSlower
SPECIFICATION Spec
INVARIANTS TypeOK RetiresInOrder IdleMeansRetired
PROPERTIES HeldUntilRetired BusyEnds
