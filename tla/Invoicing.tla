------------------------------ MODULE Invoicing ------------------------------
(***************************************************************************)
(* The bill of one booking (booking/services.py): its charges, the         *)
(* invoices they are billed on, the receipts and refunds, and the requests *)
(* that change them until the guest checks out.                            *)
(*                                                                         *)
(* A charge has a key (room, extra bed, meal plan, add-on).  Service       *)
(* charges and taxes are one fee, a multiple of the invoiced base.  Manual *)
(* charges, taxes, discount and adjustment are one signed amount.          *)
(***************************************************************************)
EXTENDS Integers, Sequences, FiniteSets, FiniteSetsExt, Functions

CONSTANTS
  Keys,         \* what is charged for; a booking always has "room"
  MaxCharge,    \* the highest charge of a key
  PmsRate,      \* the hotel's fee on PMS invoices, per unit of the base
  OtaRate,      \* and on OTA bookings
  Manuals,      \* the sums of the manual rows a check-in form may send
  Requests,     \* refund requests that are served side by side
  MaxInvoices,  \* bound: no request is served that would write one more invoice
  MaxReceipts,  \* bound: likewise for receipts
  MaxForms      \* bound: how often the check-in form is saved

ASSUME InvoicingAssumption ==
  /\ IsFiniteSet(Keys) /\ "room" \in Keys
  /\ MaxCharge \in Nat \ {0}
  /\ PmsRate \in Nat /\ OtaRate \in Nat
  /\ Manuals \subseteq Int
  /\ IsFiniteSet(Requests)
  /\ MaxInvoices \in Nat \ {0}
  /\ {MaxReceipts, MaxForms} \subseteq Nat

VARIABLES
  bill,     \* Booking with its Invoices and Payments
  late,     \* the cut-off of the cancellation policy has passed
  charged,  \* what the guest has paid at the gateway, 0 before
  refund,   \* the refund each request is about to write
  forms     \* how often the check-in form was saved

vars == <<bill, late, charged, refund, forms>>

-----------------------------------------------------------------------------
(* Rows. *)

Charges == {c \in [Keys -> 0 .. MaxCharge] : c["room"] > 0}
NoLines == [k \in Keys |-> 0]
Sum(lines) == SumFunctionOnSet(lines, Keys)

Invoice(kind, scope, lines, other, rate, discount) ==
  [kind |-> kind, scope |-> scope, status |-> "OPEN", lines |-> lines, other |-> other,
   adjusted |-> FALSE, manual |-> 0, rate |-> rate, discount |-> discount,
   total |-> (Sum(lines) + other) * (1 + rate) - discount]

Invoices(b) == DOMAIN b.invoices
Live(b) == {i \in Invoices(b) : b.invoices[i].status # "VOID"}
ReceiptsOf(b, i) == {r \in DOMAIN b.receipts : b.receipts[r].invoice = i}
Net(receipt) == receipt.amount - receipt.refunded

\* Invoice.paid_amount and Invoice.balance
Nets(b) == [r \in DOMAIN b.receipts |-> Net(b.receipts[r])]
PaidAmount(b, i) == SumFunctionOnSet(Nets(b), ReceiptsOf(b, i))
Balance(b, i) == Max({b.invoices[i].total - PaidAmount(b, i), 0})

\* The first invoice with a balance, as the payment code looks for it.
Outstanding(b) == {i \in Live(b) : Balance(b, i) > 0}

\* The invoices whose charges may still be changed at check-in.
Editable(b) == {i \in Invoices(b) : /\ b.invoices[i].scope = "PMS"
                                    /\ b.invoices[i].status \in {"OPEN", "PARTIALLY_PAID"}}

Refunded(b) == SumFunction([r \in DOMAIN b.receipts |-> b.receipts[r].refunded])

-----------------------------------------------------------------------------
(* The helpers of the handlers.  Each maps a bill to the set of bills that  *)
(* may follow: the empty set when a ValidationError rolls the request back. *)

\* Seeded fault: an invoice stays paid when its payment is refunded.
SyncedUpwards(b, i) ==
  LET paid == PaidAmount(b, i)
  IN  CASE b.invoices[i].status \in {"VOID", "PAID"} -> b
        [] OTHER -> [b EXCEPT !.invoices[i].status =
             IF b.invoices[i].total <= paid THEN "PAID"
             ELSE IF paid > 0 THEN "PARTIALLY_PAID" ELSE "OPEN"]

\* _sync_invoice_status
Synced(b, i) ==
  LET paid == PaidAmount(b, i)
  IN  IF b.invoices[i].status = "VOID" THEN b
      ELSE [b EXCEPT !.invoices[i].status =
             IF b.invoices[i].total <= paid THEN "PAID"
             ELSE IF paid > 0 THEN "PARTIALLY_PAID" ELSE "OPEN"]

\* create_invoice
Added(b, invoice) ==
  {x \in {[b EXCEPT !.invoices = Append(@, invoice)]} :
     invoice.total >= 0 /\ Len(x.invoices) <= MaxInvoices}

\* _replace_invoice_lines: manual rows go too, and the snapshot they were in.
Replaced(b, i, lines, rate, discount) ==
  Synced([b EXCEPT !.invoices[i] = Invoice(@.kind, @.scope, lines, 0, rate, discount)], i)

\* An invoice with manual rows, at the rates frozen on it.
WithManual(old, manual) ==
  [old EXCEPT !.adjusted = TRUE, !.manual = manual, !.discount = 0,
              !.total = (Sum(old.lines) + old.other + manual) * (1 + old.rate)]

\* Manual rows are written to invoice i, unless its base becomes negative or
\* more is paid than the invoice is then worth.
Written(b, i, manual) ==
  LET old == b.invoices[i]
      new == WithManual(old, manual)
  IN  {Synced([b EXCEPT !.invoices[j] = new, !.grand = @ + new.total - old.total], j) :
         j \in {k \in {i} : Sum(old.lines) + old.other + manual >= 0 /\ new.total >= PaidAmount(b, k)}}

\* apply_check_in_invoice_adjustments: manual rows go to the only editable
\* invoice, or to a new one.
Adjusted(b, manual) ==
  CASE Cardinality(Editable(b)) > 1 -> {}
    [] Editable(b) = {} -> UNION {Written(x, Len(x.invoices), manual) :
                                    x \in Added(b, Invoice("additional", "PMS", NoLines, 0, 0, 0))}
    [] OTHER -> Written(b, CHOOSE i \in Editable(b) : TRUE, manual)

\* The supplemental invoice is the last that is neither paid nor void.
Supplemental(b) == {i \in Live(b) : /\ b.invoices[i].kind = "additional"
                                    /\ b.invoices[i].status # "PAID"}

\* What is billed on the other invoices.  Lines of other kinds have no key.
Billed(b, supplemental, k) ==
  SumFunctionOnSet([i \in Invoices(b) |-> b.invoices[i].lines[k]], Live(b) \ supplemental)

\* Seeded fault: what the supplemental bills itself is taken off as well.
DeltaOfAll(b, supplemental) == [k \in Keys |-> b.charges[k] - Billed(b, {}, k)]

\* What the supplemental is to bill.
Delta(b, supplemental) == [k \in Keys |-> b.charges[k] - Billed(b, supplemental, k)]

\* Seeded fault: a paid original invoice is priced anew.
RepriceablePaid(b) == b.invoices[1].scope = "PMS"

Repriceable(b) == b.invoices[1].scope = "PMS" /\ b.invoices[1].status # "PAID"

\* Seeded fault: the manual rows are dropped with the lines they stood beside.
SupplementedPlain(b) ==
  LET latest == IF Supplemental(b) = {} THEN {} ELSE {Max(Supplemental(b))}
      delta  == Delta(b, latest)
  IN  IF \E k \in Keys : delta[k] < 0 THEN {}
      ELSE CASE latest # {} -> {Replaced(b, i, delta, PmsRate, 0) : i \in latest}
             [] latest = {} /\ delta = NoLines -> {b}
             [] latest = {} /\ delta # NoLines ->
                  Added(b, Invoice("additional", "PMS", delta, 0, PmsRate, 0))

\* Charges added since the original invoice was locked go to the supplemental.
Supplemented(b) ==
  LET latest == IF Supplemental(b) = {} THEN {} ELSE {Max(Supplemental(b))}
      delta  == Delta(b, latest)
      rebuilt(i) == Replaced(b, i, delta, PmsRate, 0)
      voided(i)  == IF ReceiptsOf(b, i) = {} THEN [b EXCEPT !.invoices[i].status = "VOID"] ELSE b
      after(i)   == IF b.invoices[i].adjusted THEN Adjusted(rebuilt(i), b.invoices[i].manual)
                    ELSE {IF delta = NoLines THEN voided(i) ELSE rebuilt(i)}
  IN  IF \E k \in Keys : delta[k] < 0 THEN {}
      ELSE CASE latest # {} -> UNION {after(i) : i \in latest}
             [] latest = {} /\ delta = NoLines -> {b}
             [] latest = {} /\ delta # NoLines ->
                  Added(b, Invoice("additional", "PMS", delta, 0, PmsRate, 0))

\* sync_booking_charge_invoices
ChargesSynced(b) ==
  IF Repriceable(b) THEN {Replaced(b, 1, b.charges, b.rate, b.discount)} ELSE Supplemented(b)

\* record_payment on invoice i, which may be void when the request names it.
Recorded(b, i, amount, ref) ==
  {Synced([b EXCEPT
             !.receipts = Append(@, [invoice |-> i, amount |-> amount, refunded |-> 0, ref |-> ref]),
             !.paid = @ + amount,
             !.status = IF @ = "PENDING_PAYMENT" THEN "CONFIRMED" ELSE @], j) :
     j \in {k \in {i} : 0 < amount /\ amount <= Balance(b, k) /\ Len(b.receipts) < MaxReceipts}}

\* replace_booking_payment_snapshot: the whole balance, or a deposit.
PaidAtDesk(b, deposit) ==
  IF Outstanding(b) = {} THEN {b}
  ELSE LET i == Min(Outstanding(b))
       IN  Recorded(b, i, IF deposit = 0 THEN Balance(b, i) ELSE deposit, "desk")

-----------------------------------------------------------------------------
(* Requests.  All of them lock the booking. *)

Idle == [receipt |-> 0, amount |-> 0, late |-> FALSE]

\* The row lock of the booking is free.
Unlocked == \A q \in Requests : refund[q] = Idle

NoForm == [supplied |-> FALSE, manual |-> 0]
Adjustments == {NoForm} \cup [supplied : {TRUE}, manual : Manuals]
NoPayment == -1

\* update_reservation_for_check_in: the stay is priced anew.
Repriced(b, charges) ==
  [b EXCEPT !.charges = charges, !.grand = Sum(charges) * (1 + b.rate) - b.discount]

\* The manual rows kept when the form sends none: those of the first editable
\* invoice.
KeptRows(b) ==
  IF Editable(b) = {} THEN NoForm
  ELSE LET first == b.invoices[Min(Editable(b))]
       IN  [supplied |-> first.adjusted, manual |-> IF first.adjusted THEN first.manual ELSE 0]

\* The check-in form: charges, then manual rows, then the payment.
SaveCheckInForm(charges, adjustments, deposit) ==
  LET rows == IF adjustments.supplied THEN adjustments ELSE KeptRows(bill)
      priced == Repriced(bill, charges)
      adjusted(b) == IF rows.supplied THEN Adjusted(b, rows.manual) ELSE {b}
      settled(b) == IF deposit = NoPayment THEN {b} ELSE PaidAtDesk(b, deposit)
  IN  /\ Unlocked
      /\ forms < MaxForms
      /\ bill.status \in {"PENDING_PAYMENT", "CONFIRMED"}
      /\ deposit # NoPayment \/ bill.paid <= priced.grand
      /\ \E b \in ChargesSynced(priced) : \E c \in adjusted(b) : bill' \in settled(c)
      /\ forms' = forms + 1
      /\ UNCHANGED <<late, charged, refund>>

\* The payment action, which may name the invoice.
RecordPayment(i, amount) ==
  /\ Unlocked
  /\ bill' \in Recorded(bill, i, amount, "desk")
  /\ UNCHANGED <<late, charged, refund, forms>>

\* create_booking_invoice, of the hotel's extra services.
CreateBookingInvoice(amount, discount) ==
  /\ Unlocked
  /\ \E b \in Added(bill, Invoice("service", "PMS", NoLines, amount, PmsRate, discount)) :
       bill' = [b EXCEPT !.grand = @ + b.invoices[Len(b.invoices)].total,
                         !.discount = @ + discount]
  /\ UNCHANGED <<late, charged, refund, forms>>

Move(from, to) ==
  /\ Unlocked
  /\ bill.status \in from
  /\ bill' = [bill EXCEPT !.status = to]
  /\ UNCHANGED <<late, charged, refund, forms>>

Cancel == Move({"PENDING_PAYMENT", "CONFIRMED"}, "CANCELED")
Expire == Move({"PENDING_PAYMENT"}, "EXPIRED")
CheckIn == Move({"CONFIRMED"}, "CHECKED_IN")
CheckOut == Outstanding(bill) = {} /\ Move({"CHECKED_IN"}, "CHECKED_OUT")

-----------------------------------------------------------------------------
(* The payment gateway, which Core speaks to. *)

\* PublicAYAPaymentView, and the guest pays.
PayAtGateway ==
  /\ charged = 0
  /\ bill.status = "PENDING_PAYMENT"
  /\ bill.grand > bill.paid
  /\ charged' = bill.grand - bill.paid
  /\ UNCHANGED <<bill, late, refund, forms>>

\* A payment the gateway has reported before and that is still there.
AlreadyRecorded == \E r \in DOMAIN bill.receipts : /\ bill.receipts[r].ref = "gateway"
                                                   /\ bill.receipts[r].refunded = 0

\* Seeded fault: any booking can be marked paid.
ReportAnyStatus ==
  /\ Unlocked
  /\ charged > 0
  /\ ~AlreadyRecorded
  /\ Outstanding(bill) # {}
  /\ bill' \in Recorded(bill, Min(Outstanding(bill)), charged, "gateway")
  /\ UNCHANGED <<late, charged, refund, forms>>

\* CorePaymentSuccessView, called once or several times for one payment.
ReportPayment ==
  /\ Unlocked
  /\ charged > 0
  /\ ~AlreadyRecorded
  /\ bill.status = "PENDING_PAYMENT"
  /\ Outstanding(bill) # {}
  /\ bill' \in Recorded(bill, Min(Outstanding(bill)), charged, "gateway")
  /\ UNCHANGED <<late, charged, refund, forms>>

-----------------------------------------------------------------------------
(* Refunds. *)

\* refund_quote under a policy of full refunds before the cut-off, at a moment
\* when it has passed or not.
Eligible(b, passed) == Min({IF passed THEN 0 ELSE b.charges["room"], b.paid + Refunded(b)})
Allowance(b, passed) == Max({Eligible(b, passed) - Refunded(b), 0})

\* Seeded fault: the query locks the payment and not the booking it joins.
PaymentLockable(r) == \A q \in Requests : refund[q].receipt # r

\* select_for_update with select_related: both rows are locked.
Lockable(r) == Unlocked

\* refund_payment: the rows are locked, and the refund is held against the
\* allowance of this moment and the payment ...
StartRefund(q, r, amount) ==
  /\ refund[q] = Idle
  /\ Lockable(r)
  /\ amount <= Allowance(bill, late)
  /\ amount <= Net(bill.receipts[r])
  /\ refund' = [refund EXCEPT ![q] = [receipt |-> r, amount |-> amount, late |-> late]]
  /\ UNCHANGED <<bill, late, charged, forms>>

\* ... and then written, as it was quoted.
WriteRefund(q) ==
  /\ refund[q] # Idle
  /\ bill' = Synced([bill EXCEPT !.receipts[refund[q].receipt].refunded = @ + refund[q].amount,
                                 !.paid = Max({@ - refund[q].amount, 0})],
                    bill.receipts[refund[q].receipt].invoice)
  /\ refund' = [refund EXCEPT ![q] = Idle]
  /\ UNCHANGED <<late, charged, forms>>

\* Time does not wait for the locks.
PassCutOff ==
  /\ ~late
  /\ late' = TRUE
  /\ UNCHANGED <<bill, charged, refund, forms>>

-----------------------------------------------------------------------------
\* create_booking, and for a reservation at the desk create_admin_reservation.
NewBill(source, status, charges) ==
  LET rate == IF source = "OTA" THEN OtaRate ELSE PmsRate
      original == Invoice("initial", source, charges, 0, rate, 0)
  IN  [status |-> status, charges |-> charges, rate |-> rate, discount |-> 0,
       grand |-> original.total, paid |-> 0, invoices |-> <<original>>, receipts |-> <<>>]

Init ==
  /\ \E c \in Charges :
       bill \in {NewBill("OTA", "PENDING_PAYMENT", c), NewBill("PMS", "CONFIRMED", c)}
  /\ late = FALSE
  /\ charged = 0
  /\ refund = [q \in Requests |-> Idle]
  /\ forms = 0

MaxAmount == MaxCharge * Cardinality(Keys) * (1 + Max({PmsRate, OtaRate}))

SaveForm == \E c \in Charges, a \in Adjustments, deposit \in {NoPayment, 0, 1} :
              SaveCheckInForm(c, a, deposit)
Pay == \E i \in Invoices(bill) : \E amount \in {1, Balance(bill, i)} : RecordPayment(i, amount)
Bill == \E discount \in {0, 1} : CreateBookingInvoice(1, discount)
Refunds(q) ==
  \/ \E r \in DOMAIN bill.receipts, amount \in 1 .. MaxAmount : StartRefund(q, r, amount)
  \/ WriteRefund(q)

Next ==
  \/ SaveForm \/ Pay \/ Bill
  \/ Cancel \/ Expire \/ CheckIn \/ CheckOut
  \/ PayAtGateway \/ ReportPayment
  \/ \E q \in Requests : Refunds(q)
  \/ PassCutOff

Spec == Init /\ [][Next]_vars

-----------------------------------------------------------------------------
(* Properties. *)

\* The rows keep their types, and no receipt is refunded beyond its amount.
InvoicingTypeOK ==
  /\ bill.charges \in Charges
  /\ Len(bill.invoices) \in 1 .. MaxInvoices
  /\ \A r \in DOMAIN bill.receipts :
       /\ bill.receipts[r].invoice \in Invoices(bill)
       /\ bill.receipts[r].refunded \in 0 .. bill.receipts[r].amount
  /\ \A i \in Invoices(bill) :
       bill.invoices[i].status \in {"OPEN", "PARTIALLY_PAID", "PAID", "VOID"}

\* The books agree: the booking's amount paid is what its receipts hold, and an
\* invoice is open, partly paid or paid as its receipts say, after every mix of
\* repricing, payments and refunds.
BalancesMatch ==
  /\ InvoicingTypeOK
  /\ bill.paid = SumFunction(Nets(bill))
  /\ \A i \in Live(bill) :
       LET paid == PaidAmount(bill, i)
       IN  CASE bill.invoices[i].status = "PAID" -> paid >= bill.invoices[i].total
             [] bill.invoices[i].status = "PARTIALLY_PAID" ->
                  0 < paid /\ paid < bill.invoices[i].total
             [] OTHER -> paid = 0

\* No charge of the stay is dropped: all of it is on invoices that count.
EveryChargeInvoiced ==
  \A k \in Keys : Billed(bill, {}, k) >= bill.charges[k]

\* Nor is a charge billed twice.
ChargesInvoicedOnce ==
  \A k \in Keys : Billed(bill, {}, k) <= bill.charges[k]

\* An invoice that is paid stays as it is, whatever the check-in form changes:
\* only a refund opens it again.
PaidInvoicesFrozen ==
  [][\A i \in Invoices(bill) : bill.invoices[i].status = "PAID" =>
       [bill'.invoices[i] EXCEPT !.status = "PAID"] = bill.invoices[i]]_bill

\* Saving the form without manual rows keeps those that were entered before,
\* even as the invoices they stand on are rebuilt, paid or left behind.  The
\* form keeps the rows of one invoice: where a refund has opened a second one
\* with rows of its own, these may be lost.
ManualTotal(b) == SumFunctionOnSet([i \in Invoices(b) |-> b.invoices[i].manual], Live(b))
ManualRowsKept ==
  [][\A c \in Charges, deposit \in {NoPayment, 0, 1} :
       /\ Cardinality({i \in Editable(bill) : bill.invoices[i].adjusted}) <= 1
       /\ SaveCheckInForm(c, NoForm, deposit)
       => ManualTotal(bill') = ManualTotal(bill)]_vars

\* However many payments are refunded side by side, and while the clock passes
\* the cut-off, each refund is written by a request that was quoted for it, and
\* with it no more is refunded than the cancellation policy allowed at the
\* moment of the quote: what others refunded meanwhile counts.
RefundsWithinPolicy ==
  [][Refunded(bill') > Refunded(bill) =>
       \E q \in Requests : /\ refund[q] # Idle /\ refund'[q] = Idle
                          /\ Refunded(bill') <= Eligible(bill, refund[q].late)]_vars

\* One payment at the gateway, reported any number of times, is one receipt,
\* also when it has been refunded in between.
RecordedOnce ==
  Cardinality({r \in DOMAIN bill.receipts : bill.receipts[r].ref = "gateway"}) <= 1
=============================================================================
