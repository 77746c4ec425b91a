SPECIFICATION FairSpec
CONSTANTS
  Forms = {"unary", "unknown", "serverStreaming", "clientStreaming", "bidi"}
  MaxRequests = 3
  MaxWrites = 3
  MaxReads = 2
  Window = 3
  UnreadCap = 1
  SendQueueCap = 1
  DecodeErrors = TRUE
INVARIANTS  MessagesInOrder WritesAccounted NoLostPump CancelTold
PROPERTIES DeadlineEnds FinishCarriedOut
CHECK_DEADLOCK FALSE
