SPECIFICATION FairSpec
CONSTANTS
  Tabs = {t1, t2}
  CacheKeys = {k1}
  MaxSessions = 3
  MaxSecrets = 2
INVARIANTS
  HalvesMatch
  CookiesReadable
PROPERTIES
  FormStaysInSession
  EveryRequestEnds
