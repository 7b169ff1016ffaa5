SPECIFICATION Spec
CONSTANTS
  Repos <- MCRepos
  NoRepo = ""
  Pres <- MCPres
  NoPre = ""
  Configs <- MCConfigs
  Listings <- MCListings
  Selectors <- MCSelectors
INVARIANTS
  SelectInv
  SelectionExact
  NewestFirst
CHECK_DEADLOCK FALSE
