CONSTANTS
  Value = {v1, v2}
SPECIFICATION Spec
INVARIANTS IInv ReportIsHonest NothingLeaks
PROPERTIES KeepsTransactions
