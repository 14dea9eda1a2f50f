SPECIFICATION Spec
CONSTANTS
  Senders = {s1, s2}
  Capacity = 2
  MaxSends = 2
  BodyLen = 1
  MaxRetries = 2
  Patience = 1
  Types = {"SOCKET", "FILE", "STDOUT", "CUSTOM"}
  None = None
INVARIANTS TypeOK SenderOrder LinesWhole
PROPERTIES ImplementsChannel
SYMMETRY Symmetry
CHECK_DEADLOCK FALSE
