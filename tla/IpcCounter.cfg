SPECIFICATION CounterSpec
CONSTANTS
  Holder = {p1, p2}
  UINT64_MOD = 3
  Step = {0, 1, 2}
  MaxCounterCalls = 2
INVARIANTS CounterTypeOK UndisturbedExact
CHECK_DEADLOCK FALSE
