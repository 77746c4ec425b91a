SPECIFICATION Spec
CONSTANTS
  Calls = {}
  Streams = {s1}
  Msgs = {m1, m2}
  NoMsg = NoMsg
  SendQueueCap = 1
  PeerStatus = {"Ok"}
  MaxReplies = 1
  PeerAborts = TRUE
INVARIANTS TerminalLast WireInOrder FlushedOnce
CHECK_DEADLOCK FALSE
