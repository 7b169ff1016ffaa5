SPECIFICATION DispatchSpec
CONSTANTS
  Setups <- DefaultSetups
  Ages = {0}
INVARIANTS
  RebuiltBaseShows
CHECK_DEADLOCK FALSE
