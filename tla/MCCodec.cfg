SPECIFICATION Spec
CONSTANTS
  Base = 2
  LenBytes = 2
  MaxMessageSize = 2
  MaxWire = 9
INVARIANTS DecodesTheWire
CHECK_DEADLOCK FALSE
