\* Two counters of three values, initialised once.
CONSTANTS
  c0 = c0
  c1 = c1
  CntrIds <- MCCntrIds
  M = 3
  Stimulus <- MCStimulus
  REINIT = FALSE
SPECIFICATION Spec
INVARIANTS TypeOK AnswersAsExpected SramCatchesUp
