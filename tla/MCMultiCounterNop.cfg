\* Two counters of three values; every command, OP_NOP included, in every cycle.
CONSTANTS
  c0 = c0
  c1 = c1
  CntrIds <- MCCntrIds
  CNTRS_M = 3
  Issued <- MCIssuedWithNop
  Idle <- MCIdle
SPECIFICATION Spec
PROPERTY ImplementsTable
