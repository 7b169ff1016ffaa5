SPECIFICATION Spec
CONSTANTS
  dot = dot
  dash = dash
  word = word
  Marks <- MCMarks
  MaxInt = 9999
  Tag <- MCTag
  Listings <- MCListings
  Layouts <- MCLayouts
  Filters <- MCFilters
  Lasts <- MCLasts
INVARIANTS
  CalverInv
  ParsedExact
  CalverExact
CHECK_DEADLOCK FALSE
