CONSTANTS
  EventNames <- MCEventNames
  NegatedNames <- MCNegatedNames
  Filters <- MCFilters
SPECIFICATION Spec
INVARIANT
  EventSubqueryUnscoped
