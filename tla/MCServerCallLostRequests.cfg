SPECIFICATION Spec
CONSTANTS
  Forms = {"clientStreaming"}
  MaxRequests = 2
  MaxWrites = 1
  MaxReads = 2
  Window = 1
  UnreadCap = 2
  SendQueueCap = 1
  DecodeErrors = FALSE
INVARIANTS EosAfterMessages
CHECK_DEADLOCK FALSE
