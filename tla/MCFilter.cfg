CONSTANTS
  Day <- MCDay
  Today <- MCToday
  Now <- MCNow
  Values <- MCValues
  Codes <- MCCodes
  Texts <- MCTexts
  Requests <- FilterRequests
SPECIFICATION Spec
INVARIANTS TypeOK PreviousPeriodBefore PreviousPeriodSameLength ListsMatchReference
PROPERTY RevalidateKeepsRange
