SPECIFICATION Spec
CONSTANTS
  c1 = c1 c2 = c2 c3 = c3
  CompanyIds = {c1, c2, c3}
  Employees = {1, 2, 3}
  Values = {1, 10}
  Rises = {10}
  Factors = {1}
  MaxValue = 12
  MaxSalary = 2
SYMMETRY Symmetric
INVARIANTS TypeOK TreesAgree EarnersTop
