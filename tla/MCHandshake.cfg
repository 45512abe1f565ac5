SPECIFICATION FairSpec
CONSTANTS
  MaxRetries = 1
  MaxSAInitAttempts = 3
  maxEAPRounds = 3
  Totals <- MCTotals
  MaxAnswers = 3
INVARIANTS
  AnswersInLockStep
  IdsUsedOnce
  EstablishedIsMutual
  FailureIsClean
PROPERTY
  EndsUnlessPacketsKeepComing
CHECK_DEADLOCK FALSE
