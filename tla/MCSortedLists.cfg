\* Two lists of two entries.
CONSTANTS
  l0 = l0
  l1 = l1
  Lists <- MCLists
  N = 2
  Keys <- MCKeys
  Sizes <- MCSizes
  PowerUp <- MCPowerUp
  Issued <- MCIssued
  Queried <- MCQueried
  QueriesMax = 1
SPECIFICATION Spec
INVARIANTS TypeOK TablesMatchModel QueryFindsModel
PROPERTY ImplementsListTable
