CONSTANTS
  EventNames <- MCEventNames
  NegatedNames <- MCNegatedNames
  Filters <- MCFilters
SPECIFICATION Spec
INVARIANTS
  EventFilterApplied
  SessionColumnsJoined
  PeriodBucketMatches
