SPECIFICATION FairSpec
CONSTANTS
  Forms = {"server", "client", "bidi"}
  Msgs = {m1, m2, m3}
  NoMsg = NoMsg
  SendQueueCap = 1
  UnreadCap = 1
  MaxRequests = 2
  MaxReads = 2
INVARIANTS OkComesLast  
PROPERTIES StreamsEnd
CHECK_DEADLOCK FALSE
