CONSTANTS
  Day <- MCDay
  Today <- MCToday
  Now <- MCNow
  Values <- MCValues
  Codes <- MCCodes
  Texts <- MCTexts
  Requests <- InvertedRequests
  Goroutines <- MCTwo
SPECIFICATION Spec
PROPERTY AtomicGetFilter
