SPECIFICATION SpecStreaming
CONSTANTS
  Producer = {p1}
  Consumer = {c1, c2}
  Slots = 3
  NumConsumers = 2
  NumProducers = 1
  SeekPos <- RingPos
  MaxSeq = 7
  MaxFree = 0
INVARIANT ItemIntact
PROPERTIES RingMonotone ClaimReturns IsBroadcast
