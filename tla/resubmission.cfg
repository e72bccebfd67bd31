SPECIFICATION Spec
CONSTANTS
  None = None
  Keep = Keep
  Vehicles = {a}
  Traders = {x}
  Tabs = {t}
  Habits = {"address"}
  MaxCalls = 2
PROPERTY OneCallPerLookup
