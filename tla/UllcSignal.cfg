SPECIFICATION Spec
CONSTANTS
  Producer = {p1, p2}
  Consumer = {c1}
  MaxItems = 3
  MaxSems = 3
INVARIANTS TypeOK WakeUpPending
PROPERTY ItemsRead
CHECK_DEADLOCK FALSE
