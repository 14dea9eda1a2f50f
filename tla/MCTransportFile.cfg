SPECIFICATION FairSpec
CONSTANTS
  Senders = {s1}
  Capacity = 1
  MaxSends = 2
  BodyLen = 1
  MaxRetries = 2
  Patience = 1
  Types = {"FILE"}
  None = None
PROPERTIES FileOutputArrives
CHECK_DEADLOCK FALSE
