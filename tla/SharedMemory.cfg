SPECIFICATION Spec
CONSTANTS
  o1 = o1
  o2 = o2
  g1 = g1
  g2 = g2
  Owner <- TwoOwners
  Guest <- TwoGuests
  MaxSegments = 3
  MaxDeaths = 1
INVARIANTS TypeOK RefExact NameKept NoLeak
SYMMETRY Processes
CHECK_DEADLOCK FALSE
