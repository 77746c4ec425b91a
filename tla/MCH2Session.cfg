SPECIFICATION FairSpec
CONSTANTS
    b0 = b0
    b2 = b2
    None = None
    Streams = {"s1", "s2"}
    Bodies = {b0, b2}
    Size <- MCSize
    MaxWindow = 1
    MaxFrames = 2
INVARIANTS BodyAlive ConsumedOnce Settled
PROPERTIES NotesFire
CHECK_DEADLOCK TRUE
