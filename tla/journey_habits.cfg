SPECIFICATION Spec
CONSTANTS
  None = None
  Keep = Keep
  Vehicles = {a}
  Traders = {x}
  Tabs = {t}
  Habits = {"address", "impatient"}
  MaxCalls = 2
INVARIANT CookiesInStep
PROPERTIES
  DisposesForTraderShown
  SuccessIsReported
