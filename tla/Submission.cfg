SPECIFICATION Spec
CONSTANTS
  o1 = o1
  o2 = o2
  o3 = o3
  h1 = h1
  h2 = h2
  aapl = aapl
  pko = pko
  NoOrder = NoOrder
  Orders = {o1, o2}
  Handlers = {h1, h2}
  Instruments = {aapl, pko}
  InstrumentOf <- MCInstrumentOf
  MaxOrderId = 3
  MaxCrashes = 1
SYMMETRY HandlerSymmetry
INVARIANTS
  TypeOK
  AtMostOneDispatch
  DispatchIsPersisted
  OneLiveOrderPerInstrument
  RowTellsTheTruth
PROPERTIES
  TerminalRowsStay
  ImplementsOrderLedger
CHECK_DEADLOCK FALSE
