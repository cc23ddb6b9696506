CONSTANTS
  c1 = c1
  c2 = c2
  v1 = v1
  p1 = p1
  x = x
  y = y
  NoCall = NoCall
  NoReceiver = NoReceiver
  Calls <- MCCalls
  Validations <- MCOneValidation
  Pings <- MCPings
  Operation <- MCFields
  PlannedValue <- MCValues
  Payloads <- MCFieldCalls
  MaxEpoch = 2
  MaxFaults = 1
SPECIFICATION LiveSpec
INVARIANTS  ReceiverOfItsRuntime AuditNamesTheRuntime 
PROPERTIES SentUnderOneEpoch KnownCatchesUp
CHECK_DEADLOCK FALSE
