SPECIFICATION Spec
CONSTANTS
  Products = {1, 2}
  Scales = {"INTEGER", "HALF_INTEGER"}
  Prices = {"linear"}
  Amounts <- Mixed
  One = 10 Slack = 1
  MaxAmount = 10
  MaxOrder = 2
INVARIANTS TypeOK OrderedExist NeverNegative
PROPERTIES FailureChangesNothing OrderAdded ShipAnswers
