SPECIFICATION FairSpec
CONSTANTS
  Texts <- FewTexts
  Locations <- SomePlaces
  Numbers <- TwoNumbers
  MaxProtocolTextLength = 4
  MaxBufferedBytes = 10
  PipeCapacity = 5
  RequestRead = 3
  MaxReports = 3
INVARIANTS ReceivedAreSent VerdictAsSaid TokenIsHeard
PROPERTIES SessionEnds
CHECK_DEADLOCK FALSE
