SPECIFICATION Spec
CONSTANTS
  SEGV = SEGV
  BUS = BUS
  KILL = KILL
  ILL = ILL
  Threads = {t1, t2}
  Signals <- Chain
  Uncatchable = {KILL}
  App = App
  Guard = Guard
  Junk = Junk
SYMMETRY Symmetry
INVARIANTS TypeOK LoneGuardCatches DispositionsComeBack
