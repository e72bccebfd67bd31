SPECIFICATION Spec
CONSTANTS
  Document = 3
  Kinds = {"link", "submit", "disabled", "today"}
  Bindings <- MCBindings
  Removals <- MCRemovals
  Triggers <- MCTriggers
  Removed = {1, 2}
  Cloned = {1}
  WithData = {1}
  ReturnFalse = {2}
  PreventOnly = {3}
  FocusKinds = {"link"}
  MaxBinds = 2
  MaxCalls = 1
  MaxEvents = 2
INVARIANTS ListenersInStep NodesOwnTheirData CalledOnce CalledInOrder PreventedIsNotDone
PROPERTY OnlyRemovalKeepsFocus
CHECK_DEADLOCK FALSE
