SPECIFICATION Spec
CONSTANTS
  e1 = e1 e2 = e2
  NumCompanies = 4
  Employees = {e1, e2}
  Factors = {1}
  MaxSalary = 1
  MaxGrade = 1
  MaxCrowded = 3
SYMMETRY Symmetric
INVARIANTS Acyclic RootValueExact StaffExact CountersExact
PROPERTIES ImplementsCorporations
