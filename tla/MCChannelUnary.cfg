SPECIFICATION FairSpec
CONSTANTS
  Calls = {c1, c2}
  Streams = {}
  Msgs = {}
  NoMsg = NoMsg
  SendQueueCap = 2
  PeerStatus = {"Ok", "Internal"}
  MaxReplies = 1
  PeerAborts = TRUE
INVARIANTS Accounted NoCallWaitsInVain
PROPERTIES PromiseSpec DeadlineReported CallsComplete
CHECK_DEADLOCK FALSE
