\* Two counters of three values; any command but OP_NOP in every cycle.
CONSTANTS
  c0 = c0
  c1 = c1
  CntrIds <- MCCntrIds
  CNTRS_M = 3
  Issued <- MCIssued
  Idle <- MCIdle
SPECIFICATION Spec
INVARIANTS TypeOK ForwardingInv
PROPERTY ImplementsTable
