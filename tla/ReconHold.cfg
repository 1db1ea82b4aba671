SPECIFICATION ReconSpec
CONSTANTS
  o1 = o1
  o2 = o2
  h1 = h1
  h2 = h2
  aapl = aapl
  pko = pko
  NoOrder = NoOrder
  Orders = {o1, o2}
  Handlers = {h1}
  Instruments = {aapl}
  InstrumentOf <- SameInstrument
  MaxOrderId = 2
  MaxCrashes = 0
  MaxRuns = 2
  Operating = FALSE
INVARIANTS
  HoldsOnlyOnAmbiguous
CHECK_DEADLOCK FALSE
