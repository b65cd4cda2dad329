SPECIFICATION Spec
CONSTANTS
  ca = ca
  cb = cb
  cA = cA
  Alphabet <- Letters
  Upper <- ToUpper
  Words <- GoingOn
  Models = {TRUE}
  Calls = {"FindUntilNull"}
  MaxFindLen = 12
  MaxWords = 2
  MaxText = 3
  MaxTotal = 0
PROPERTIES
  LongerReturned
CHECK_DEADLOCK FALSE
