SPECIFICATION WindowSpec
CONSTANTS
  a1 = a1
  a2 = a2
  a3 = a3
  a4 = a4
  l1 = l1
  l2 = l2
  l3 = l3
  Asks <- MCAsks
  Logins <- MCLogins
  Keys <- MCKeys
  KeysOf <- MCKeysOf
  Limit <- MCLimit
  Window <- MCWindow
  MaxTicks = 3
SYMMETRY MCSymmetry
CHECK_DEADLOCK FALSE
INVARIANT LimitPerWindow
PROPERTIES RefusalIsDeserved RetryAfterSuffices
