CONSTANTS
  Values <- MCValues
  SearchFields <- MCSearchFields
  Inputs <- MCInputs
  SortFields <- MCSortFields
  Directions <- MCDirections
  Holders <- MCHolders
  Requests <- MCRequests
SPECIFICATION Spec
INVARIANT EqualIsStructural
