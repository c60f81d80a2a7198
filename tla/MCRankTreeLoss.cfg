SPECIFICATION Spec
CONSTANTS
  t1 = t1 t2 = t2
  Trees = {t1}
  MaxKey = 8
  MaxPromoted = 0
  MergeSizes = {}
INVARIANTS Contents
