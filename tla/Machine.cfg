SPECIFICATION FairSpec
CONSTANTS
  ca = ca
  cb = cb
  cA = cA
  Alphabet <- Letters
  Upper <- ToUpper
  Words <- Overlapping
  Models = {TRUE, FALSE}
  Calls = {"FindUntilNull", "FindUntilLen", "FindAllUntilLen", "FindAllUntilNull", "FindAllUntilNullWithID"}
  MaxFindLen = 12
  MaxWords = 3
  MaxText = 4
  MaxTotal = 0
INVARIANTS
  ArraysFit
  WordReported
  LongestReported
PROPERTIES
  PrepareEnds
  OccurrencesCounted
CHECK_DEADLOCK FALSE
