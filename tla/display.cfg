SPECIFICATION FairSpec
CONSTANTS
  Pages = 6
  Columns = 1
  Texts <- MCTexts
  Length <- MCLength
  Blank = Blank
  QueueSize = 2
  ScrollStart = 4
  ScrollEnd = 5
  LineCap = 4
  Banner = "DM"
  Operator = "Operator"
  Phone = "Phone"
  Failure <- MCFailure
  Status <- MCStatus
INVARIANTS
  TypeOK
  LayoutKept
  ScrollReady
  HeaderShown
PROPERTIES
  FailureShown
