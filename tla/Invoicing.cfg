SPECIFICATION Spec
CONSTANTS
  Keys = {"room", "add_on"}
  MaxCharge = 1
  PmsRate = 0
  OtaRate = 1
  Manuals <- MCManuals
  Requests = {q1, q2}
  MaxInvoices = 3
  MaxReceipts = 2
  MaxForms = 2
SYMMETRY InvoicingSymmetry
INVARIANTS
  BalancesMatch
  EveryChargeInvoiced
  RecordedOnce
PROPERTIES
  PaidInvoicesFrozen
  ManualRowsKept
  RefundsWithinPolicy
CHECK_DEADLOCK FALSE
