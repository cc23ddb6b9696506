CONSTANTS
  r1 = r1
  r2 = r2
  r3 = r3
  s1 = s1
  NoRequest = NoRequest
  Requests <- MCRequests
  InlineRequests <- MCInline
  QueueLimit = 2
SPECIFICATION LiveSpec
INVARIANTS TypeOK AnswersAreTruthful OnlyServedIsLive
PROPERTIES RunInOrder ImplementsContract  BacklogIsDrained
