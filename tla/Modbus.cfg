SPECIFICATION FairSpec
CONSTANTS
  Modes = {"RTU", "ASCII"}
  FrameKinds <- MCFrameKinds
  SizeMin = 1
  SizeMax = 2
  Registrations <- MCRegistrations
  BuiltIn <- MCBuiltIn
  Codes = {1, 2, 3}
  HandlersMax = 4
  MaxFrames = 2
  MaxFaults = 1
  MaxCalls = 2
INVARIANTS TypeOK Genuine AtMostOnce ReplyMatches AssertsHold
PROPERTIES NoEventLost Recovers Answered
