\* Two counters of three values, initialised at any time.
CONSTANTS
  c0 = c0
  c1 = c1
  CntrIds <- MCCntrIds
  M = 3
  Stimulus <- MCStimulus
  REINIT = TRUE
SPECIFICATION Spec
INVARIANT AnswersAsExpected
