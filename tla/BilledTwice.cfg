SPECIFICATION Spec
CONSTANTS
  Keys = {"room", "add_on"}
  MaxCharge = 1
  PmsRate = 0
  OtaRate = 0
  Manuals = {1}
  Requests = {q1}
  MaxInvoices = 3
  MaxReceipts = 2
  MaxForms = 2
INVARIANT ChargesInvoicedOnce
CHECK_DEADLOCK FALSE
