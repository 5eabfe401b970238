CONSTANTS
  Day <- MCDay
  Today <- MCToday
  Now <- MCNow
  Values <- MCValues
  Codes <- MCCodes
  Texts <- MCTexts
  Requests <- PlainRequests
SPECIFICATION Spec
INVARIANT ValidatedRangeOrdered
