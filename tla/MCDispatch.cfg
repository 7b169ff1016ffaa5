SPECIFICATION DispatchSpec
CONSTANTS
  Setups <- MCSetups
  Ages = {0, 3}
INVARIANTS
  DispatchInv
  BaseFirst
  StopsOnFailure
  NothingHidden
  DoneIsSettled
PROPERTIES
  RefreshEnds
CHECK_DEADLOCK FALSE
