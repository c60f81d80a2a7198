SPECIFICATION Spec
CONSTANTS
  Width = 3
  Size = 8
  Registers = {1, 2}
  Cells = 2
  Programs <- MCPrograms
  InitialData <- MCData
  Alu <- AluOf
INVARIANTS StagesHold
PROPERTIES ImplementsISA Retires
