SPECIFICATION Spec
CONSTANTS
  NumNodes = 4
  MaxSets = 2
  MaxAmount = 1
  NumNames = 3
  MaxLinked = 3
INVARIANTS HeapExact
PROPERTIES ImplementsAmountSet
VIEW View
