CONSTANTS
  Tokens = {t1, t2, t3}
  Sessions = {s1, s2}
  Calls = {c1, c2}
  MaxCrashes = 1
SYMMETRY Symmetric
SPECIFICATION Spec
INVARIANTS TokenUsedOnce OneLiveToken OnlyOvertakenSurvive DisableCutsOff
PROPERTIES ResetIsFailClosed
