SPECIFICATION SpecStreaming
CONSTANTS
  Producer = {p1}
  Consumer = {c1}
  Slots = 2
  NumConsumers = 1
  NumProducers = 1
  SeekPos <- RingPos
  MaxSeq = 4
  MaxFree = 0
INVARIANT NoOverrun
