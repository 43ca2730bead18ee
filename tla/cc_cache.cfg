SPECIFICATION Spec
CONSTANTS
  Files = {f1, f2}
  Threads = {t1, t2}
  None = None
  Size <- MCSize
  MaxBytes = 2
  MaxFiles = 1
  MaxPuts = 3
  MaxErrors = 1
  MaxCrashes = 1
INVARIANT TypeOK
INVARIANT NeverUndercounts
INVARIANT BudgetKept
INVARIANT CountExact
INVARIANT SidecarsAgree
INVARIANT HitsFresh
SYMMETRY MCSymmetry
