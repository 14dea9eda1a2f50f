SPECIFICATION Spec
CONSTANTS
  A = A
  B = B
  x = x
  y = y
  I = I
  Threads = {t1}
  MaxFilters = 1
  Classes = {A, B}
  Methods = {x, y}
  Images = {I}
  ClassPatterns <- Star
  MethodPatterns <- Xs
  ImagePatterns <- Ims
  Structs <- Given
  Null = Null
INVARIANTS ExcludesMatchingMethods
