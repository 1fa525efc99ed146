SPECIFICATION FairSpec
CONSTANTS
  Ids = {1, 2}
  Tries <- MCTries
  MaxOps <- MCOps
  Leavers = {1}
  Timeout = 0
INVARIANTS AnswersMatch
 
CHECK_DEADLOCK FALSE
