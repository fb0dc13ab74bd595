CONSTANTS
  Asks = {a1, a2, a3}
  MaxEpoch = 2
  RecentTurns = 1
  TriggerTurns = 1
  MaxBatchTurns = 1
SYMMETRY Symmetric
SPECIFICATION Spec
INVARIANTS OneRefreshAtATime RefreshExtendsCurrent MispairNeedsOverlap
