SPECIFICATION Spec
CONSTANTS
  c1 = c1 c2 = c2 c3 = c3 c4 = c4 w1 = w1 w2 = w2 f1 = f1 f2 = f2 f3 = f3
  Ids = {c1, c2, c3}
  Workplaces = {w1, w2}
  Faculties = {f1, f2, f3}
  WorkersSalary <- MCWorkersSalary
  ManagersSalary <- MCManagersSalary
  SkillOf <- MCSkillOf
  RequiredPoints <- MCRequiredPoints
  AddedPoints <- MCAddedPoints
INVARIANTS SalaryExact SalaryTellsPost PointsEarned
PROPERTIES ImplementsEmployment
SYMMETRY Symmetric
