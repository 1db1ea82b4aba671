SPECIFICATION ReconSpec
CONSTANTS
  o1 = o1
  o2 = o2
  h1 = h1
  h2 = h2
  aapl = aapl
  pko = pko
  NoOrder = NoOrder
  Orders = {o1, o2}
  Handlers = {h1}
  Instruments = {aapl, pko}
  InstrumentOf <- OwnInstruments
  MaxOrderId = 2
  MaxCrashes = 1
  MaxRuns = 3
  Operating = FALSE
INVARIANTS
  RowCarriesItsOwnOrder
CHECK_DEADLOCK FALSE
