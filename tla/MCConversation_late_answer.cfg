CONSTANTS
  Asks = {a1, a2}
  MaxEpoch = 2
  RecentTurns = 1
  TriggerTurns = 1
  MaxBatchTurns = 1
SPECIFICATION Spec
INVARIANTS AnswersStayHome
