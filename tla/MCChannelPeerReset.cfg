SPECIFICATION FairSpec
CONSTANTS
  Calls = {c1, c2}
  Streams = {}
  Msgs = {}
  NoMsg = NoMsg
  SendQueueCap = 1
  PeerStatus = {"Ok"}
  MaxReplies = 1
  PeerAborts = TRUE
PROPERTIES DoneFires
CHECK_DEADLOCK FALSE
