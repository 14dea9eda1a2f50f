SPECIFICATION FairSpec
CONSTANTS
  Old = Old
  New = New
  Nobody = Nobody
  Size = 4
  MaxRetries = 2
  MaxBytes = 5
CHECK_DEADLOCK FALSE
INVARIANTS TypeOK EachLineOnce DisconnectIsTheEnd FollowsTheLaunched
PROPERTIES ReceivingEnds
