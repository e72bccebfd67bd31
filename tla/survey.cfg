SPECIFICATION Spec
CONSTANTS
  Tabs = {t}
  Interval = 4
  CookieMaxAges = {2, 9}
  MaxTime = 14
PROPERTY OpenedAtIntervals
