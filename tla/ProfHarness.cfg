\* Every length, every number of runs, a callback that raises and one that does not.
CONSTANTS
  MaxPackets = 4
  MaxRuns = 9
  MaxFragments = 40
SPECIFICATION Spec
INVARIANTS NeverReturns AnswersExact WorkExact
PROPERTIES Returns
CHECK_DEADLOCK FALSE
