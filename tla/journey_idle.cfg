SPECIFICATION Spec
CONSTANTS
  None = None
  Keep = Keep
  Vehicles = {a}
  Traders = {x}
  Tabs = {t}
  Habits = {"idle"}
  MaxCalls = 1
INVARIANTS RedirectsEnd ReceiptIsHonest
