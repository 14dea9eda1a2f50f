SPECIFICATION FairSpec
CONSTANTS
  Senders = {s1, s2}
  Capacity = 1
  MaxSends = 1
  BodyLen = 1
  MaxRetries = 2
  Patience = 1
  Types = {"SOCKET", "FILE", "STDOUT"}
  None = None
PROPERTIES InitReturns SendReturns QueueDrains
CHECK_DEADLOCK FALSE
