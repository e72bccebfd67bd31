SPECIFICATION Spec
CONSTANTS
  None = None
  Keep = Keep
  Vehicles = {a, b}
  Traders = {x, y}
  Tabs = {t}
  Habits = {}
  MaxCalls = 2
INVARIANTS
  TypeOK
  ReceiptIsOfOneDisposal
PROPERTIES
  DisposesWhatIsShown
  DisposesForTraderEntered
  KeepsPromise
SYMMETRY Symmetry
