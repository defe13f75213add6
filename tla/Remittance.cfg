SPECIFICATION MCSpec
CONSTANTS
  Payments = {p1}
  Workers = {w1, w2}
  Amount = 2
  Dates = {6, 7, 10}
  MaxChanges = 1
SYMMETRY RemittanceSymmetry
INVARIANTS
  OnlyClosedPeriodsDue
  TotalsAreListed
  RevenueTellsLedger
  
PROPERTY StatementsFinal
CHECK_DEADLOCK FALSE
