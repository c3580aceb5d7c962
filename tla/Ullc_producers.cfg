SPECIFICATION Spec
CONSTANTS
  Producer = {p1, p2}
  Consumer = {c1}
  Slots = 2
  NumConsumers = 1
  NumProducers = 2
  SeekPos <- RingPos
  MaxSeq = 3
  MaxFree = 1
INVARIANTS CommitWindow NeverAhead
