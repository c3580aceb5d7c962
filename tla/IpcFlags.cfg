SPECIFICATION FairSpec
CONSTANTS
  w1 = w1
  w2 = w2
  Writer = {w1, w2}
  Waiter = {x1}
  INA_IPC_FLAGS_MAX = 2
  UINT32_MOD = 3
  MaxRef = 2
  Calls <- BothAndOne
INVARIANTS TypeOK RefExact ReferencedIsOn
PROPERTIES CallsReturn WaitReturns
CHECK_DEADLOCK FALSE
