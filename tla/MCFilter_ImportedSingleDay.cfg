CONSTANTS
  Day <- MCDay
  Today <- MCToday
  Now <- MCNow
  Values <- MCValues
  Codes <- MCCodes
  Texts <- MCTexts
  Requests <- CutoffRequests
SPECIFICATION Spec
INVARIANT ImportedSingleDay
