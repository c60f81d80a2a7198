SPECIFICATION Spec
CONSTANTS
  t1 = t1 t2 = t2
  Trees = {t1, t2}
  MaxKey = 7
  MaxPromoted = 1
  MergeSizes = {2, 4, 7}
SYMMETRY Symmetric
INVARIANTS Contents FieldsExact AnswersExact
