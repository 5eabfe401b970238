CONSTANTS
  Values <- MCValues
  SearchFields <- MCSearchFields
  Inputs <- MCInputs
  SortFields <- MCSortFields
  Directions <- MCDirections
  Holders <- MCHolders
  Requests <- MondayRequests
SPECIFICATION Spec
INVARIANT EqualDecidesUpToOrder
