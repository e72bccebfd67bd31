SPECIFICATION FairSpec
CONSTANTS
  Elems <- MCElems
  Targets = {0, 1, 2}
  ScriptCalls <- MCScriptCalls
  MaxCalls = 3
INVARIANTS
  QueueGoesOn
  OneAtATime
  ScrollsToLastClicked
PROPERTIES
  AnimationsEnd
CHECK_DEADLOCK FALSE
