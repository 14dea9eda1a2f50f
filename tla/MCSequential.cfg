SPECIFICATION Spec
CONSTANTS
  a = a
  b = b
  star = star
  t1 = t1
  t2 = t2
  t3 = t3
  Star = star
  Chars = {a, b, star}
  PatternTexts <- Texts
  Names <- Strings
  SkipList <- Hashes
  Selectors <- Sels
  Encoded <- Types
  Traced = {t1, t2, t3}
  NoThread = NoThread
  MaxViews = 2
  Rows = 2
  Capacity = 4
  Early = 2
  Threshold = 2
  Size = 2
  Events <- Lines
  MaxEvents = 5
CHECK_DEADLOCK FALSE
INVARIANTS TypeOK AnswersAsGlob DeniedIffListed CoversLayout ViewsKeepUp
PROPERTIES KeepsPlace SearchesEnd LinesArrive
