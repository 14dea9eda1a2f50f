SPECIFICATION EventSpec
CONSTANTS
  a1 = a1
  a2 = a2
  A = A
  x = x
  y = y
  t1 = t1
  t2 = t2
  Threads = {t1, t2}
  Addresses = {a1, a2}
  Value = Value
  Objects <- Objs
  NoText = NoText
  Signatures <- Sigs
  MaxArgs = 2
  CacheSize = 2
  MaxEvents = 2
  PoolSize = 1
  Nobody = Nobody
SYMMETRY Symmetry
CHECK_DEADLOCK FALSE
INVARIANTS TypeOK OneEntryPerAddress TextOfSomeMoment NothingLeaks BuffersHaveOneOwner
PROPERTIES CacheLearnsWhatIsSaid
