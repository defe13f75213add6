-------------------------- MODULE Invoicing_proofs --------------------------
(***************************************************************************)
(* Proofs about Invoicing, for every set of charges, rates, manual rows    *)
(* and refund requests: the books of a booking agree, no charge of the     *)
(* stay is dropped, invoices that are paid stay as they are, a payment at  *)
(* the gateway is recorded once, and refunds keep to the policy.           *)
(*                                                                         *)
(* The helpers of the handlers take bills to bills, and so do the lemmas:  *)
(* each says that a Good bill stays one, and what the helper leaves alone. *)
(***************************************************************************)
EXTENDS Invoicing, Sums_proofs, SequenceTheorems

-----------------------------------------------------------------------------
(* Bills. *)

Statuses == {"OPEN", "PARTIALLY_PAID", "PAID", "VOID"}

Kinds == {"initial", "additional", "service"}
Scopes == {"OTA", "PMS"}

InvoiceRecord ==
    [kind : Kinds, scope : Scopes, status : Statuses,
     lines : [Keys -> Nat], other : Nat, adjusted : BOOLEAN, manual : Int, rate : Nat,
     discount : Nat, total : Int]

\* The total is that of the rows, and manual rows are told from none.
Priced(row) ==
    /\ row.total = (Sum(row.lines) + row.other + row.manual) * (1 + row.rate) - row.discount
    /\ row.kind = "additional" => row.scope = "PMS"
    /\ ~row.adjusted => row.manual = 0

InvoiceRow == {row \in InvoiceRecord : Priced(row)}

ReceiptRow == [invoice : Nat, amount : Int, refunded : Int, ref : {"desk", "gateway"}]

BillRow ==
    [status : {"PENDING_PAYMENT", "CONFIRMED", "CHECKED_IN", "CHECKED_OUT", "CANCELED", "EXPIRED"},
     charges : Charges, rate : Nat, discount : Nat, grand : Int, paid : Int,
     invoices : Seq(InvoiceRow), receipts : Seq(ReceiptRow)]

\* The original invoice is never void, and receipts are for invoices of the bill.
BillRows(b) ==
    /\ b \in BillRow
    /\ Len(b.invoices) \in 1 .. MaxInvoices
    /\ b.invoices[1].kind = "initial" /\ b.invoices[1].status # "VOID"
    /\ \A r \in DOMAIN b.receipts :
         b.receipts[r].invoice \in Invoices(b) /\ b.receipts[r].refunded \in 0 .. b.receipts[r].amount

\* An invoice is open, partly paid or paid as its receipts say.
Matches(b, i) ==
    CASE b.invoices[i].status = "PAID" -> PaidAmount(b, i) >= b.invoices[i].total
      [] b.invoices[i].status = "PARTIALLY_PAID" ->
           0 < PaidAmount(b, i) /\ PaidAmount(b, i) < b.invoices[i].total
      [] OTHER -> PaidAmount(b, i) = 0

\* A booking that waits for its payment has none from the gateway.
GatewayOnce(b) ==
    /\ \A r, s \in DOMAIN b.receipts :
         b.receipts[r].ref = "gateway" /\ b.receipts[s].ref = "gateway" => r = s
    /\ b.status = "PENDING_PAYMENT" => \A r \in DOMAIN b.receipts : b.receipts[r].ref = "desk"

Good(b) ==
    /\ BillRows(b)
    /\ b.paid = SumFunction(Nets(b))
    /\ \A i \in Live(b) : Matches(b, i)
    /\ GatewayOnce(b)

\* All charges are on invoices that count.
Covered(b) == \A k \in Keys : Billed(b, {}, k) >= b.charges[k]

\* What no request changes: invoices that are paid, and what was refunded.
Follows(b, c) ==
    /\ Invoices(b) \subseteq Invoices(c)
    /\ \A i \in Invoices(b) : b.invoices[i].status = "PAID" => c.invoices[i] = b.invoices[i]
    /\ Refunded(c) = Refunded(b)
    /\ c.charges = b.charges

\* Invoices that count still do, with the lines they had.
LinesKept(b, c) ==
    /\ Invoices(b) \subseteq Invoices(c)
    /\ \A i \in Live(b) : c.invoices[i].status # "VOID" /\ c.invoices[i].lines = b.invoices[i].lines

LEMMA RateTypes ==
    /\ IsFiniteSet(Keys) /\ "room" \in Keys
    /\ MaxCharge \in Nat /\ PmsRate \in Nat /\ OtaRate \in Nat /\ Manuals \subseteq Int
    /\ MaxInvoices \in Nat /\ MaxInvoices # 0 /\ MaxReceipts \in Nat /\ MaxForms \in Nat
<1>1. IsFiniteSet(Keys) /\ "room" \in Keys
  BY InvoicingAssumption, Zenon
<1>2. MaxCharge \in Nat \ {0} /\ PmsRate \in Nat /\ OtaRate \in Nat /\ Manuals \subseteq Int
  BY InvoicingAssumption, Zenon
<1>3. MaxInvoices \in Nat \ {0} /\ {MaxReceipts, MaxForms} \subseteq Nat
  BY InvoicingAssumption, Zenon
<1>4. QED
  BY <1>1, <1>2, <1>3

LEMMA SumOfLines == \A lines \in [Keys -> Nat] : Sum(lines) \in Int
<1> TAKE lines \in [Keys -> Nat]
<1>1. IsFiniteSet(Keys) /\ \A k \in Keys : lines[k] \in Int
  BY RateTypes
<1>2. QED
  BY <1>1, SumInt DEF Sum

LEMMA InvoiceFields ==
    \A row \in InvoiceRow :
        /\ row.kind \in Kinds /\ row.scope \in Scopes
        /\ row.status \in Statuses /\ row.lines \in [Keys -> Nat] /\ row.other \in Nat
        /\ row.adjusted \in BOOLEAN /\ row.manual \in Int /\ row.rate \in Nat
        /\ row.discount \in Nat /\ row.total \in Int
        /\ row \in InvoiceRecord /\ Priced(row)
BY DEF InvoiceRow, InvoiceRecord

LEMMA InvoiceTyped ==
    ASSUME NEW kind \in Kinds, NEW scope \in Scopes, kind = "additional" => scope = "PMS",
           NEW lines \in [Keys -> Nat], NEW other \in Nat, NEW rate \in Nat, NEW discount \in Nat
    PROVE  /\ Invoice(kind, scope, lines, other, rate, discount) \in InvoiceRow
           /\ Invoice(kind, scope, lines, other, rate, discount).status = "OPEN"
           /\ Invoice(kind, scope, lines, other, rate, discount).kind = kind
           /\ Invoice(kind, scope, lines, other, rate, discount).lines = lines
           /\ Invoice(kind, scope, lines, other, rate, discount).scope = scope
           /\ Invoice(kind, scope, lines, other, rate, discount).manual = 0
           /\ ~Invoice(kind, scope, lines, other, rate, discount).adjusted
<1> DEFINE total == (Sum(lines) + other) * (1 + rate) - discount
<1>1. Sum(lines) \in Int
  BY SumOfLines
<1>2. total \in Int /\ total = (Sum(lines) + other + 0) * (1 + rate) - discount
  <2>1. Sum(lines) + other + 0 = Sum(lines) + other
    BY <1>1
  <2>2. QED
    BY <1>1, <2>1
<1> HIDE DEF total
<1>3. PICK row :
        row = [kind |-> kind, scope |-> scope, status |-> "OPEN", lines |-> lines, other |-> other,
               adjusted |-> FALSE, manual |-> 0, rate |-> rate, discount |-> discount, total |-> total]
  OBVIOUS
<1>4. Invoice(kind, scope, lines, other, rate, discount) = row
  BY <1>3 DEF Invoice, total
<1>5. row \in InvoiceRecord
  BY <1>2, <1>3 DEF InvoiceRecord, Statuses
<1>6. Priced(row)
  BY <1>2, <1>3 DEF Priced
<1>7. QED
  BY <1>3, <1>4, <1>5, <1>6 DEF InvoiceRow

\* A status is not what an invoice costs.
LEMMA StatusTyped ==
    ASSUME NEW row \in InvoiceRow, NEW status \in Statuses, NEW new, new = [row EXCEPT !.status = status]
    PROVE  /\ new \in InvoiceRow /\ new.status = status
           /\ new.kind = row.kind /\ new.scope = row.scope /\ new.lines = row.lines /\ new.other = row.other
           /\ new.adjusted = row.adjusted /\ new.manual = row.manual /\ new.rate = row.rate
           /\ new.discount = row.discount /\ new.total = row.total
<1>1. row \in InvoiceRecord /\ Priced(row)
  BY DEF InvoiceRow
<1>2. /\ new \in InvoiceRecord /\ new.status = status
      /\ new.kind = row.kind /\ new.scope = row.scope /\ new.lines = row.lines /\ new.other = row.other
      /\ new.adjusted = row.adjusted /\ new.manual = row.manual /\ new.rate = row.rate
      /\ new.discount = row.discount /\ new.total = row.total
  BY <1>1 DEF InvoiceRecord
<1>3. Priced(new)
  BY <1>1, <1>2 DEF Priced
<1>4. QED
  BY <1>2, <1>3 DEF InvoiceRow

LEMMA AdjustedFields ==
    ASSUME NEW old \in InvoiceRow, NEW total \in Int, NEW manual \in Int,
           NEW new, new = [old EXCEPT !.adjusted = TRUE, !.manual = manual, !.discount = 0, !.total = total]
    PROVE  new = [kind |-> old.kind, scope |-> old.scope, status |-> old.status, lines |-> old.lines,
                  other |-> old.other, adjusted |-> TRUE, manual |-> manual, rate |-> old.rate,
                  discount |-> 0, total |-> total]
<1>1. old \in InvoiceRecord
  BY DEF InvoiceRow
<1>2. QED
  BY <1>1 DEF InvoiceRecord

LEMMA WithManualTyped ==
    ASSUME NEW old \in InvoiceRow, NEW manual \in Int
    PROVE  LET new == WithManual(old, manual)
           IN  /\ new \in InvoiceRow
               /\ new.status = old.status /\ new.kind = old.kind /\ new.scope = old.scope
               /\ new.lines = old.lines /\ new.other = old.other /\ new.rate = old.rate
               /\ new.adjusted /\ new.manual = manual /\ new.discount = 0
               /\ new.total = (Sum(old.lines) + old.other + manual) * (1 + old.rate)
<1> DEFINE new == WithManual(old, manual)
<1>1. PICK kind, scope, status, lines, other, rate, total :
        /\ kind = old.kind /\ scope = old.scope /\ status = old.status
        /\ lines = old.lines /\ other = old.other /\ rate = old.rate
        /\ total = (Sum(old.lines) + old.other + manual) * (1 + old.rate)
  OBVIOUS
<1>2. /\ kind \in Kinds /\ scope \in Scopes /\ status \in Statuses
      /\ lines \in [Keys -> Nat] /\ other \in Nat /\ rate \in Nat
      /\ kind = "additional" => scope = "PMS"
  BY <1>1, InvoiceFields DEF Priced
<1>3. total \in Int /\ total = (Sum(lines) + other + manual) * (1 + rate) - 0
  <2>1. Sum(lines) \in Int
    BY <1>2, SumOfLines
  <2>2. total = (Sum(lines) + other + manual) * (1 + rate)
    BY <1>1
  <2>3. QED
    BY <1>2, <2>1, <2>2
<1> DEFINE changed == [old EXCEPT !.adjusted = TRUE, !.manual = manual, !.discount = 0, !.total = total]
<1>4. changed = [kind |-> old.kind, scope |-> old.scope, status |-> old.status, lines |-> old.lines,
                 other |-> old.other, adjusted |-> TRUE, manual |-> manual, rate |-> old.rate,
                 discount |-> 0, total |-> total]
  BY <1>3, AdjustedFields
<1>5. new = [kind |-> kind, scope |-> scope, status |-> status, lines |-> lines,
             other |-> other, adjusted |-> TRUE, manual |-> manual, rate |-> rate,
             discount |-> 0, total |-> total]
  BY <1>1, <1>4 DEF WithManual
<1> HIDE DEF new
<1>6. new \in InvoiceRecord
  BY <1>2, <1>3, <1>5 DEF InvoiceRecord
<1>7. Priced(new)
  BY <1>2, <1>3, <1>5 DEF Priced
<1>8. /\ new \in InvoiceRow
      /\ new.status = old.status /\ new.kind = old.kind /\ new.scope = old.scope
      /\ new.lines = old.lines /\ new.other = old.other /\ new.rate = old.rate
      /\ new.adjusted /\ new.manual = manual /\ new.discount = 0
      /\ new.total = (Sum(old.lines) + old.other + manual) * (1 + old.rate)
  BY <1>1, <1>5, <1>6, <1>7 DEF InvoiceRow
<1>9. QED
  BY <1>8 DEF new

\* Receipts hold sums that are at least nothing.
LEMMA NetsTyped ==
    ASSUME NEW b, BillRows(b)
    PROVE  /\ DOMAIN b.receipts = 1 .. Len(b.receipts) /\ Len(b.receipts) \in Nat
           /\ IsFiniteSet(DOMAIN b.receipts)
           /\ DOMAIN Nets(b) = DOMAIN b.receipts
           /\ \A r \in DOMAIN b.receipts : Nets(b)[r] = b.receipts[r].amount - b.receipts[r].refunded
                                           /\ Nets(b)[r] \in Nat
           /\ \A i : PaidAmount(b, i) \in Nat
           /\ SumFunction(Nets(b)) = SumFunctionOnSet(Nets(b), DOMAIN b.receipts)
           /\ \A r \in DOMAIN b.receipts : Nets(b)[r] <= SumFunctionOnSet(Nets(b), DOMAIN b.receipts)
<1>1. b.receipts \in Seq(ReceiptRow)
  BY DEF BillRows, BillRow
<1>2. DOMAIN b.receipts = 1 .. Len(b.receipts) /\ Len(b.receipts) \in Nat
  BY <1>1
<1>3. IsFiniteSet(DOMAIN b.receipts)
  BY <1>2, FS_Interval
<1>4. \A r \in DOMAIN b.receipts : b.receipts[r] \in ReceiptRow
  BY <1>1
<1>5. \A r \in DOMAIN b.receipts : Nets(b)[r] = b.receipts[r].amount - b.receipts[r].refunded
                                   /\ Nets(b)[r] \in Nat
  BY <1>4 DEF Nets, Net, BillRows, ReceiptRow
<1>6. DOMAIN Nets(b) = DOMAIN b.receipts
  BY DEF Nets
<1> DEFINE f == Nets(b)
           S == DOMAIN b.receipts
<1>7. ASSUME NEW i PROVE PaidAmount(b, i) \in Nat
  <2>1. ReceiptsOf(b, i) \subseteq S
    BY DEF ReceiptsOf
  <2>2. IsFiniteSet(ReceiptsOf(b, i)) /\ \A r \in ReceiptsOf(b, i) : f[r] \in Nat
    BY <1>3, <1>5, <2>1, FS_Subset
  <2> HIDE DEF f
  <2>3. SumFunctionOnSet(f, ReceiptsOf(b, i)) \in Nat
    BY <2>2, SumBounds
  <2>4. QED
    BY <2>3 DEF PaidAmount, f
<1>8. \A r \in S : f[r] <= SumFunctionOnSet(f, S)
  <2> HIDE DEF f, S
  <2>1. IsFiniteSet(S) /\ \A r \in S : f[r] \in Nat
    BY <1>3, <1>5 DEF f, S
  <2>2. QED
    BY <2>1, SumBounds
<1>9. QED
  BY <1>2, <1>3, <1>5, <1>6, <1>7, <1>8 DEF SumFunction

\* What is paid on invoices depends on receipts alone.
LEMMA PaidByReceipts ==
    \A b, c : b.receipts = c.receipts =>
        Nets(b) = Nets(c) /\ Refunded(b) = Refunded(c) /\ \A i : PaidAmount(b, i) = PaidAmount(c, i)
BY DEF Nets, Refunded, PaidAmount, ReceiptsOf

LEMMA InvoicesTyped ==
    ASSUME NEW b \in BillRow
    PROVE  /\ Invoices(b) = 1 .. Len(b.invoices) /\ Len(b.invoices) \in Nat
           /\ b.invoices \in [Invoices(b) -> InvoiceRow]
           /\ \A i \in Invoices(b) : b.invoices[i] \in InvoiceRow /\ i \in Nat /\ i >= 1
           /\ IsFiniteSet(Invoices(b))
<1>1. b.invoices \in Seq(InvoiceRow)
  BY DEF BillRow
<1>2. Invoices(b) = 1 .. Len(b.invoices) /\ Len(b.invoices) \in Nat
  BY <1>1 DEF Invoices
<1>3. IsFiniteSet(Invoices(b))
  BY <1>2, FS_Interval
<1>4. QED
  BY <1>1, <1>2, <1>3

-----------------------------------------------------------------------------
(* _sync_invoice_status. *)

\* Only the status of invoice i changes, to the one its receipts call for.
LEMMA SyncedInvoice ==
    ASSUME NEW b, BillRows(b), NEW i \in Invoices(b), NEW c, c = Synced(b, i)
    PROVE  /\ c \in BillRow
           /\ c.invoices = [b.invoices EXCEPT ![i] = [b.invoices[i] EXCEPT !.status = c.invoices[i].status]]
           /\ c.invoices[i] \in InvoiceRow
           /\ c.invoices[i].status = "VOID" <=> b.invoices[i].status = "VOID"
           /\ c.receipts = b.receipts /\ c.paid = b.paid /\ c.status = b.status /\ c.charges = b.charges
           /\ c.invoices[i].status # "VOID" => Matches(c, i)
<1> DEFINE paid == PaidAmount(b, i)
           next == IF b.invoices[i].total <= paid THEN "PAID"
                   ELSE IF paid > 0 THEN "PARTIALLY_PAID" ELSE "OPEN"
<1>1. /\ b \in BillRow /\ b.invoices \in Seq(InvoiceRow) /\ b.invoices[i] \in InvoiceRow
      /\ b.invoices \in [Invoices(b) -> InvoiceRow] /\ Invoices(b) = 1 .. Len(b.invoices)
  BY InvoicesTyped DEF BillRows, BillRow
<1>2. paid \in Nat /\ b.invoices[i].total \in Int
  BY <1>1, NetsTyped DEF InvoiceRow, InvoiceRecord
<1> HIDE DEF paid
<1>3. next \in Statuses /\ next # "VOID"
  BY DEF Statuses
<1>4. CASE b.invoices[i].status = "VOID"
  <2>1. c = b
    BY <1>4 DEF Synced
  <2>2. b.invoices[i] = [b.invoices[i] EXCEPT !.status = b.invoices[i].status]
    BY <1>1 DEF InvoiceRow, InvoiceRecord
  <2>3. b.invoices = [b.invoices EXCEPT ![i] = b.invoices[i]]
    BY <1>1
  <2>4. QED
    BY <1>1, <1>4, <2>1, <2>2, <2>3
<1>5. CASE b.invoices[i].status # "VOID"
  <2>1. c = [b EXCEPT !.invoices = [b.invoices EXCEPT ![i] = [b.invoices[i] EXCEPT !.status = next]]]
    BY <1>5 DEF Synced, paid
  <2> DEFINE row == [b.invoices[i] EXCEPT !.status = next]
             rows == [b.invoices EXCEPT ![i] = row]
  <2>2. row \in InvoiceRow /\ row.status = next /\ row.total = b.invoices[i].total
    <3>1. b.invoices[i] \in InvoiceRow /\ next \in Statuses
      BY <1>1, <1>3
    <3> HIDE DEF next
    <3>2. QED
      BY <3>1, StatusTyped
  <2> HIDE DEF next, row
  <2>3. rows \in Seq(InvoiceRow) /\ rows[i] = row
    BY <1>1, <2>2 DEF Invoices
  <2>4. /\ c \in BillRow /\ c.invoices = rows
        /\ c.receipts = b.receipts /\ c.paid = b.paid /\ c.status = b.status /\ c.charges = b.charges
    <3>1. c = [b EXCEPT !.invoices = rows]
      BY <2>1 DEF row
    <3> HIDE DEF rows
    <3>2. QED
      BY <1>1, <2>3, <3>1 DEF BillRow
  <2>5. PaidAmount(c, i) = paid
    BY <2>4, PaidByReceipts DEF paid
  <2>6. Matches(c, i)
    <3>1. c.invoices[i].status = next /\ c.invoices[i].total = b.invoices[i].total
      BY <2>2, <2>3, <2>4
    <3>2. QED
      BY <1>2, <2>5, <3>1 DEF Matches, next
  <2>7. c.invoices[i] = row /\ row.status # "VOID"
    BY <1>3, <2>2, <2>3, <2>4
  <2>8. c.invoices = [b.invoices EXCEPT ![i] = [b.invoices[i] EXCEPT !.status = c.invoices[i].status]]
    <3>1. row = [b.invoices[i] EXCEPT !.status = row.status]
      BY <2>2 DEF row
    <3>2. QED
      BY <2>4, <2>7, <3>1
  <2> HIDE DEF rows
  <2>9. QED
    BY <1>5, <2>2, <2>4, <2>6, <2>7, <2>8
<1>6. QED
  BY <1>4, <1>5

\* An invoice is as it was written, but for its status.
Restated(row, new) == row = [new EXCEPT !.status = row.status]

LEMMA RestatedFields ==
    ASSUME NEW row, row.status \in Statuses, NEW new \in InvoiceRow, Restated(row, new)
    PROVE  /\ row.kind = new.kind /\ row.scope = new.scope /\ row.lines = new.lines
           /\ row.adjusted = new.adjusted /\ row.manual = new.manual /\ row.total = new.total
<1>1. row = [new EXCEPT !.status = row.status]
  BY DEF Restated
<1>2. PICK status \in Statuses : status = row.status
  OBVIOUS
<1>3. QED
  BY <1>1, <1>2, StatusTyped

\* The invoice whose receipts or sums have changed is the one to sync.
LEMMA SyncedGood ==
    ASSUME NEW d, BillRows(d), d.paid = SumFunction(Nets(d)), GatewayOnce(d),
           NEW i \in Invoices(d), \A j \in Live(d) \ {i} : Matches(d, j),
           NEW c, c = Synced(d, i)
    PROVE  /\ Good(c)
           /\ Invoices(c) = Invoices(d) /\ Live(c) = Live(d)
           /\ \A j \in Invoices(d) \ {i} : c.invoices[j] = d.invoices[j]
           /\ Restated(c.invoices[i], d.invoices[i])
           /\ c.receipts = d.receipts /\ c.status = d.status /\ c.charges = d.charges
<1>1. /\ c \in BillRow
      /\ c.invoices = [d.invoices EXCEPT ![i] = [d.invoices[i] EXCEPT !.status = c.invoices[i].status]]
      /\ c.invoices[i] \in InvoiceRow
      /\ c.invoices[i].status = "VOID" <=> d.invoices[i].status = "VOID"
      /\ c.receipts = d.receipts /\ c.paid = d.paid /\ c.status = d.status /\ c.charges = d.charges
      /\ c.invoices[i].status # "VOID" => Matches(c, i)
  BY SyncedInvoice
<1>2. d \in BillRow
  BY DEF BillRows
<1>3. /\ Invoices(d) = 1 .. Len(d.invoices) /\ Len(d.invoices) \in Nat
      /\ d.invoices \in [Invoices(d) -> InvoiceRow]
  BY <1>2, InvoicesTyped
<1>4. Invoices(c) = Invoices(d) /\ Len(c.invoices) = Len(d.invoices)
  <2>1. DOMAIN c.invoices = DOMAIN d.invoices
    BY <1>1, <1>3
  <2>2. Invoices(c) = 1 .. Len(c.invoices) /\ Len(c.invoices) \in Nat
    BY <1>1, InvoicesTyped
  <2>3. QED
    BY <1>3, <2>1, <2>2 DEF Invoices
<1>5. \A j \in Invoices(d) \ {i} : c.invoices[j] = d.invoices[j]
  BY <1>1, <1>3
<1>6. c.invoices[i].kind = d.invoices[i].kind
  BY <1>1, <1>3 DEF InvoiceRow, InvoiceRecord
<1>7. Live(c) = Live(d)
  BY <1>1, <1>4, <1>5 DEF Live
<1>8. BillRows(c)
  <2>1. 1 \in Invoices(d)
    BY <1>3 DEF BillRows
  <2>2. c.invoices[1].kind = "initial" /\ c.invoices[1].status # "VOID"
    BY <1>1, <1>5, <1>6, <2>1 DEF BillRows
  <2>3. QED
    BY <1>1, <1>4, <2>2 DEF BillRows
<1>9. c.paid = SumFunction(Nets(c)) /\ \A j : PaidAmount(c, j) = PaidAmount(d, j)
  BY <1>1, PaidByReceipts
<1>10. ASSUME NEW j \in Live(c) PROVE Matches(c, j)
  <2>1. CASE j = i
    BY <1>1, <1>10, <2>1 DEF Live
  <2>2. CASE j # i
    <3>1. Matches(d, j) /\ c.invoices[j] = d.invoices[j]
      BY <1>5, <1>7, <2>2 DEF Live
    <3>2. QED
      BY <1>9, <3>1 DEF Matches
  <2>3. QED
    BY <2>1, <2>2
<1>11. GatewayOnce(c)
  BY <1>1 DEF GatewayOnce
<1>12. Good(c)
  BY <1>1, <1>8, <1>9, <1>10, <1>11 DEF Good
<1>13. Restated(c.invoices[i], d.invoices[i])
  BY <1>1, <1>3 DEF Restated
<1>14. QED
  BY <1>1, <1>4, <1>5, <1>7, <1>12, <1>13

\* Invoice i of the bill has been written anew.
Rewritten(b, d, i, new) ==
    /\ d.invoices = [b.invoices EXCEPT ![i] = new]
    /\ d.receipts = b.receipts /\ d.paid = b.paid /\ d.status = b.status /\ d.charges = b.charges

\* An invoice that is not paid may be.
LEMMA RewrittenGood ==
    ASSUME NEW b, Good(b), NEW i \in Invoices(b), b.invoices[i].status \in {"OPEN", "PARTIALLY_PAID"},
           NEW new \in InvoiceRow, new.status # "VOID", new.kind = b.invoices[i].kind,
           NEW d \in BillRow, Rewritten(b, d, i, new),
           NEW c, c = Synced(d, i)
    PROVE  /\ Good(c) /\ Follows(b, c)
           /\ Invoices(c) = Invoices(b) /\ Live(c) = Live(b)
           /\ \A j \in Invoices(b) \ {i} : c.invoices[j] = b.invoices[j]
           /\ Restated(c.invoices[i], new)
           /\ c.invoices[i].lines = new.lines
           /\ c.status = b.status /\ c.receipts = b.receipts
<1>1. /\ b \in BillRow /\ BillRows(b) /\ GatewayOnce(b) /\ b.paid = SumFunction(Nets(b))
      /\ \A j \in Live(b) : Matches(b, j)
  BY DEF Good, BillRows
<1>2. /\ Invoices(b) = 1 .. Len(b.invoices) /\ Len(b.invoices) \in Nat
      /\ b.invoices \in [Invoices(b) -> InvoiceRow]
  BY <1>1, InvoicesTyped
<1>3. Invoices(d) = Invoices(b) /\ Len(d.invoices) = Len(b.invoices)
  <2>1. DOMAIN d.invoices = DOMAIN b.invoices
    BY <1>2 DEF Rewritten
  <2>2. Invoices(d) = 1 .. Len(d.invoices) /\ Len(d.invoices) \in Nat
    BY InvoicesTyped
  <2>3. QED
    BY <1>2, <2>1, <2>2 DEF Invoices
<1>4. /\ d.invoices[i] = new /\ \A j \in Invoices(b) \ {i} : d.invoices[j] = b.invoices[j]
      /\ d.receipts = b.receipts /\ d.paid = b.paid /\ d.status = b.status /\ d.charges = b.charges
  BY <1>2 DEF Rewritten
<1>5. Live(d) = Live(b)
  BY <1>3, <1>4 DEF Live
<1>6. BillRows(d)
  <2>1. 1 \in Invoices(b)
    BY <1>1, <1>2 DEF BillRows
  <2>2. d.invoices[1].kind = "initial" /\ d.invoices[1].status # "VOID"
    BY <1>1, <1>4, <2>1 DEF BillRows
  <2>3. QED
    BY <1>1, <1>3, <1>4, <2>2 DEF BillRows
<1>7. Nets(d) = Nets(b) /\ Refunded(d) = Refunded(b) /\ \A j : PaidAmount(d, j) = PaidAmount(b, j)
  BY <1>4, PaidByReceipts
<1>8. d.paid = SumFunction(Nets(d)) /\ GatewayOnce(d)
  BY <1>1, <1>4, <1>7 DEF GatewayOnce
<1>9. \A j \in Live(d) \ {i} : Matches(d, j)
  <2> TAKE j \in Live(d) \ {i}
  <2>1. Matches(b, j) /\ d.invoices[j] = b.invoices[j]
    BY <1>1, <1>4, <1>5 DEF Live
  <2>2. QED
    BY <1>7, <2>1 DEF Matches
<1>10. /\ Good(c)
       /\ Invoices(c) = Invoices(d) /\ Live(c) = Live(d)
       /\ \A j \in Invoices(d) \ {i} : c.invoices[j] = d.invoices[j]
       /\ Restated(c.invoices[i], d.invoices[i])
       /\ c.receipts = d.receipts /\ c.status = d.status /\ c.charges = d.charges
  <2>1. i \in Invoices(d)
    BY <1>3
  <2>2. c = Synced(d, i)
    OBVIOUS
  <2>3. QED
    BY ONLY <1>6, <1>8, <1>9, <2>1, <2>2, SyncedGood
<1>11. Restated(c.invoices[i], new) /\ c.invoices[i].lines = new.lines
  <2>1. Restated(c.invoices[i], new)
    BY <1>4, <1>10
  <2>2. [new EXCEPT !.status = c.invoices[i].status].lines = new.lines
    BY DEF InvoiceRow, InvoiceRecord
  <2>3. QED
    BY <2>1, <2>2 DEF Restated
<1>12. Refunded(c) = Refunded(b)
  BY <1>4, <1>7, <1>10, PaidByReceipts
<1>13. Follows(b, c)
  BY <1>3, <1>4, <1>10, <1>12 DEF Follows
<1>14. QED
  BY <1>3, <1>4, <1>5, <1>10, <1>11, <1>13

-----------------------------------------------------------------------------
(* create_invoice. *)

LEMMA AddedGood ==
    ASSUME NEW b, Good(b), NEW invoice \in InvoiceRow, invoice.status = "OPEN", NEW c \in Added(b, invoice)
    PROVE  /\ Good(c) /\ Follows(b, c) /\ LinesKept(b, c)
           /\ c = [b EXCEPT !.invoices = Append(@, invoice)]
           /\ Len(c.invoices) = Len(b.invoices) + 1 /\ Len(c.invoices) \notin Invoices(b)
           /\ Invoices(c) = Invoices(b) \cup {Len(c.invoices)} /\ Live(c) = Live(b) \cup {Len(c.invoices)}
           /\ c.invoices[Len(c.invoices)] = invoice
           /\ \A j \in Invoices(b) : c.invoices[j] = b.invoices[j]
           /\ c.status = b.status
<1>1. /\ b \in BillRow /\ BillRows(b) /\ GatewayOnce(b) /\ b.paid = SumFunction(Nets(b))
      /\ \A j \in Live(b) : Matches(b, j)
  BY DEF Good, BillRows
<1> DEFINE n == Len(b.invoices)
           rows == Append(b.invoices, invoice)
<1>2. Invoices(b) = 1 .. n /\ n \in Nat /\ b.invoices \in Seq(InvoiceRow)
  BY <1>1, InvoicesTyped DEF BillRow
<1>3. /\ rows \in Seq(InvoiceRow) /\ Len(rows) = n + 1 /\ DOMAIN rows = 1 .. n + 1
      /\ rows[n + 1] = invoice /\ \A j \in 1 .. n : rows[j] = b.invoices[j]
  BY <1>2
<1>4. c = [b EXCEPT !.invoices = rows] /\ Len(c.invoices) <= MaxInvoices
  BY DEF Added
<1> HIDE DEF rows
<1>5. /\ c \in BillRow /\ c.invoices = rows /\ c.receipts = b.receipts /\ c.paid = b.paid
      /\ c.status = b.status /\ c.charges = b.charges
  BY <1>1, <1>3, <1>4 DEF BillRow
<1>6. Invoices(c) = Invoices(b) \cup {n + 1} /\ Invoices(b) \subseteq Invoices(c) /\ n + 1 \notin Invoices(b)
  BY <1>2, <1>3, <1>5 DEF Invoices
<1>7. \A j \in Invoices(b) : c.invoices[j] = b.invoices[j]
  BY <1>2, <1>3, <1>5
<1>8. Live(c) = Live(b) \cup {n + 1}
  BY <1>3, <1>5, <1>6, <1>7 DEF Live
<1>9. BillRows(c)
  <2>1. 1 \in Invoices(b)
    BY <1>1, <1>2 DEF BillRows
  <2>2. c.invoices[1].kind = "initial" /\ c.invoices[1].status # "VOID"
    BY <1>1, <1>7, <2>1 DEF BillRows
  <2>3. Len(c.invoices) \in 1 .. MaxInvoices
    BY <1>2, <1>3, <1>4, <1>5, RateTypes
  <2>4. QED
    BY <1>1, <1>5, <1>6, <2>2, <2>3 DEF BillRows
<1>10. Nets(c) = Nets(b) /\ Refunded(c) = Refunded(b) /\ \A j : PaidAmount(c, j) = PaidAmount(b, j)
  BY <1>5, PaidByReceipts
<1>11. PaidAmount(b, n + 1) = 0
  <2>1. ReceiptsOf(b, n + 1) = {}
    BY <1>1, <1>6 DEF ReceiptsOf, BillRows
  <2>2. QED
    BY <2>1, SumEmpty DEF PaidAmount
<1>12. \A j \in Live(c) : Matches(c, j)
  <2> TAKE j \in Live(c)
  <2>1. CASE j = n + 1
    BY <1>3, <1>5, <1>10, <1>11, <2>1 DEF Matches
  <2>2. CASE j \in Live(b)
    <3>1. Matches(b, j) /\ c.invoices[j] = b.invoices[j]
      BY <1>1, <1>7, <2>2 DEF Live
    <3>2. QED
      BY <1>10, <3>1 DEF Matches
  <2>3. QED
    BY <1>8, <2>1, <2>2
<1>13. GatewayOnce(c)
  BY <1>1, <1>5 DEF GatewayOnce
<1>14. Good(c)
  BY <1>1, <1>5, <1>9, <1>10, <1>12, <1>13 DEF Good
<1>15. Follows(b, c) /\ LinesKept(b, c)
  BY <1>5, <1>6, <1>7, <1>10 DEF Follows, LinesKept, Live
<1>16. QED
  BY <1>3, <1>4, <1>5, <1>6, <1>7, <1>8, <1>14, <1>15 DEF rows

-----------------------------------------------------------------------------
(* _replace_invoice_lines and apply_check_in_invoice_adjustments. *)

LEMMA ReplacedGood ==
    ASSUME NEW b, Good(b), NEW i \in Live(b), b.invoices[i].status # "PAID",
           NEW lines \in [Keys -> Nat], NEW rate \in Nat, NEW discount \in Nat,
           NEW c, c = Replaced(b, i, lines, rate, discount)
    PROVE  /\ Good(c) /\ Follows(b, c)
           /\ Invoices(c) = Invoices(b) /\ Live(c) = Live(b)
           /\ \A j \in Invoices(b) \ {i} : c.invoices[j] = b.invoices[j]
           /\ c.invoices[i].lines = lines
           /\ c.invoices[i].scope = b.invoices[i].scope /\ c.invoices[i].manual = 0
           /\ c.status = b.status
<1> DEFINE old == b.invoices[i]
<1>1. b \in BillRow /\ i \in Invoices(b) /\ old.status # "VOID"
  BY DEF Good, BillRows, Live
<1>2. b.invoices \in Seq(InvoiceRow) /\ old \in InvoiceRow
  BY <1>1, InvoicesTyped DEF BillRow
<1>3. old.kind \in Kinds /\ old.scope \in Scopes /\ old.status \in {"OPEN", "PARTIALLY_PAID"}
  BY <1>1, <1>2, InvoiceFields DEF Statuses
<1>4. PICK kind, scope, new :
        /\ kind \in Kinds /\ scope \in Scopes
        /\ kind = old.kind /\ scope = old.scope /\ new = Invoice(kind, scope, lines, 0, rate, discount)
        /\ kind = "additional" => scope = "PMS"
  BY <1>2, <1>3, InvoiceFields DEF Priced
<1>5. new \in InvoiceRow /\ new.status = "OPEN" /\ new.kind = old.kind /\ new.lines = lines
      /\ new.scope = old.scope /\ new.manual = 0
  <2>1. 0 \in Nat
    OBVIOUS
  <2>2. QED
    BY <1>4, <2>1, InvoiceTyped
<1> DEFINE rows == [b.invoices EXCEPT ![i] = new]
           d == [b EXCEPT !.invoices = rows]
<1>6. c = Synced(d, i)
  BY <1>4 DEF Replaced
<1>7. rows \in Seq(InvoiceRow)
  BY <1>1, <1>2, <1>5 DEF Invoices
<1>8. d \in BillRow /\ Rewritten(b, d, i, new)
  <2> HIDE DEF rows
  <2>1. d \in BillRow /\ d.invoices = rows /\ d.receipts = b.receipts
        /\ d.paid = b.paid /\ d.status = b.status /\ d.charges = b.charges
    BY <1>1, <1>7 DEF BillRow
  <2>2. QED
    BY <2>1 DEF rows, Rewritten
<1> HIDE DEF d, rows
<1>9. /\ b.invoices[i].status \in {"OPEN", "PARTIALLY_PAID"}
      /\ new \in InvoiceRow /\ new.kind = b.invoices[i].kind /\ new.status # "VOID"
  BY <1>3, <1>5
<1>10. /\ Good(c) /\ Follows(b, c)
       /\ Invoices(c) = Invoices(b) /\ Live(c) = Live(b)
       /\ \A j \in Invoices(b) \ {i} : c.invoices[j] = b.invoices[j]
       /\ c.invoices[i].lines = new.lines /\ Restated(c.invoices[i], new)
       /\ c.status = b.status
  BY <1>1, <1>6, <1>8, <1>9, RewrittenGood
<1>11. c.invoices[i].scope = new.scope /\ c.invoices[i].manual = new.manual
  <2>1. c.invoices[i].status \in Statuses
    BY <1>1, <1>10, InvoicesTyped, InvoiceFields DEF Good, BillRows
  <2>2. QED
    BY <1>5, <1>10, <2>1, RestatedFields
<1>12. QED
  BY <1>5, <1>10, <1>11

\* Manual rows, fees and total of one editable invoice, and the booking's total.
LEMMA WrittenGood ==
    ASSUME NEW b, Good(b), NEW i \in Invoices(b), b.invoices[i].status \in {"OPEN", "PARTIALLY_PAID"},
           NEW manual \in Int, NEW c \in Written(b, i, manual)
    PROVE  /\ Good(c) /\ Follows(b, c) /\ LinesKept(b, c)
           /\ Invoices(c) = Invoices(b) /\ Live(c) = Live(b)
           /\ \A j \in Invoices(b) \ {i} : c.invoices[j] = b.invoices[j]
           /\ Restated(c.invoices[i], WithManual(b.invoices[i], manual))
           /\ c.status = b.status /\ c.receipts = b.receipts
<1> DEFINE old == b.invoices[i]
<1>1. b \in BillRow /\ b.invoices \in Seq(InvoiceRow) /\ old \in InvoiceRow
  BY InvoicesTyped DEF Good, BillRows, BillRow
<1>2. PICK new : new = WithManual(old, manual)
  OBVIOUS
<1>3. new \in InvoiceRow /\ new.status = old.status /\ new.kind = old.kind /\ new.lines = old.lines
  BY <1>1, <1>2, WithManualTyped
<1> DEFINE rows == [b.invoices EXCEPT ![i] = new]
           grand == b.grand + new.total - old.total
           d == [b EXCEPT !.invoices = rows, !.grand = grand]
<1>4. c = Synced(d, i)
  BY <1>2 DEF Written
<1>5. rows \in Seq(InvoiceRow)
  BY <1>1, <1>3 DEF Invoices
<1>6. grand \in Int
  <2>1. old.total \in Int /\ new.total \in Int /\ b.grand \in Int
    BY <1>1, <1>3, InvoiceFields DEF BillRow
  <2>2. QED
    BY <2>1
<1>7. d \in BillRow /\ Rewritten(b, d, i, new)
  <2> HIDE DEF rows, grand
  <2>1. d \in BillRow /\ d.invoices = rows /\ d.receipts = b.receipts
        /\ d.paid = b.paid /\ d.status = b.status /\ d.charges = b.charges
    BY <1>1, <1>5, <1>6 DEF BillRow
  <2>2. QED
    BY <2>1 DEF rows, Rewritten
<1> HIDE DEF d
<1>8. new.status # "VOID"
  BY <1>3
<1>9. /\ Good(c) /\ Follows(b, c)
      /\ Invoices(c) = Invoices(b) /\ Live(c) = Live(b)
      /\ \A j \in Invoices(b) \ {i} : c.invoices[j] = b.invoices[j]
      /\ Restated(c.invoices[i], new)
      /\ c.invoices[i].lines = new.lines
      /\ c.status = b.status /\ c.receipts = b.receipts
  BY <1>3, <1>4, <1>7, <1>8, RewrittenGood
<1>10. LinesKept(b, c)
  BY <1>3, <1>9 DEF LinesKept, Live
<1>11. QED
  BY <1>2, <1>9, <1>10

LEMMA FollowsTwice ==
    ASSUME NEW a, NEW b, NEW c, Follows(a, b), Follows(b, c)
    PROVE  Follows(a, c)
<1>1. \A i \in Invoices(a) : a.invoices[i].status = "PAID" => c.invoices[i] = a.invoices[i]
  BY DEF Follows
<1>2. QED
  BY <1>1 DEF Follows

LEMMA LinesKeptTwice ==
    ASSUME NEW a, NEW b, NEW c, LinesKept(a, b), LinesKept(b, c)
    PROVE  LinesKept(a, c)
<1>1. Live(a) \subseteq Live(b)
  BY DEF LinesKept, Live
<1>2. QED
  BY <1>1 DEF LinesKept

LEMMA AdjustedGood ==
    ASSUME NEW b, Good(b), NEW manual \in Int, NEW c \in Adjusted(b, manual)
    PROVE  Good(c) /\ Follows(b, c) /\ LinesKept(b, c) /\ c.status = b.status
<1> DEFINE blank == Invoice("additional", "PMS", NoLines, 0, 0, 0)
<1>1. \/ Editable(b) = {} /\ \E x \in Added(b, blank) : c \in Written(x, Len(x.invoices), manual)
      \/ Editable(b) # {} /\ \E i \in Editable(b) : c \in Written(b, i, manual)
  BY DEF Adjusted
<1>2. CASE Editable(b) # {}
  <2>1. PICK i \in Editable(b) : c \in Written(b, i, manual)
    BY <1>1, <1>2
  <2>2. i \in Invoices(b) /\ b.invoices[i].status \in {"OPEN", "PARTIALLY_PAID"}
    BY <2>1 DEF Editable
  <2>3. QED
    BY <2>1, <2>2, WrittenGood
<1>3. CASE Editable(b) = {}
  <2>1. PICK x \in Added(b, blank) : c \in Written(x, Len(x.invoices), manual)
    BY <1>1, <1>3
  <2>2. blank \in InvoiceRow /\ blank.status = "OPEN"
    <3>1. NoLines \in [Keys -> Nat] /\ "additional" \in Kinds /\ "PMS" \in Scopes
      BY DEF NoLines, Kinds, Scopes
    <3>2. QED
      BY <3>1, InvoiceTyped
  <2> HIDE DEF blank
  <2>3. /\ Good(x) /\ Follows(b, x) /\ LinesKept(b, x) /\ x.status = b.status
        /\ Len(x.invoices) \in Invoices(x) /\ x.invoices[Len(x.invoices)].status = "OPEN"
    BY <2>1, <2>2, AddedGood
  <2>4. Good(c) /\ Follows(x, c) /\ LinesKept(x, c) /\ c.status = x.status
    BY <2>1, <2>3, WrittenGood
  <2>5. QED
    BY <2>3, <2>4, FollowsTwice, LinesKeptTwice
<1>4. QED
  BY <1>2, <1>3

-----------------------------------------------------------------------------
(* sync_booking_charge_invoices. *)

LEMMA LiveTyped ==
    ASSUME NEW b, BillRows(b), NEW k \in Keys
    PROVE  /\ IsFiniteSet(Live(b)) /\ Live(b) \subseteq Invoices(b)
           /\ \A i \in Invoices(b) : b.invoices[i].lines[k] \in Nat
           /\ \A D : Billed(b, D, k) \in Nat
<1> DEFINE f == [i \in Invoices(b) |-> b.invoices[i].lines[k]]
<1>1. b \in BillRow /\ IsFiniteSet(Invoices(b)) /\ \A i \in Invoices(b) : b.invoices[i] \in InvoiceRow
  BY InvoicesTyped DEF BillRows
<1>2. \A i \in Invoices(b) : b.invoices[i].lines[k] \in Nat
  BY <1>1, InvoiceFields
<1>3. Live(b) \subseteq Invoices(b)
  BY DEF Live
<1>4. IsFiniteSet(Live(b))
  BY <1>1, <1>3, FS_Subset
<1>5. \A i \in Invoices(b) : f[i] \in Nat
  BY <1>2
<1>6. ASSUME NEW D PROVE Billed(b, D, k) \in Nat
  <2>1. IsFiniteSet(Live(b) \ D) /\ Live(b) \ D \subseteq Invoices(b)
    BY <1>3, <1>4, FS_Subset
  <2> HIDE DEF f
  <2>2. \A i \in Live(b) \ D : f[i] \in Nat
    BY <1>5, <2>1
  <2>3. SumFunctionOnSet(f, Live(b) \ D) \in Nat
    BY <2>1, <2>2, SumBounds
  <2>4. QED
    BY <2>3 DEF Billed, f
<1>7. QED
  BY <1>2, <1>3, <1>4, <1>6

\* What is billed is billed on invoice i or on the others.
LEMMA BilledSplit ==
    ASSUME NEW b, BillRows(b), NEW k \in Keys, NEW i \in Live(b)
    PROVE  Billed(b, {}, k) = b.invoices[i].lines[k] + Billed(b, {i}, k)
<1> DEFINE f == [j \in Invoices(b) |-> b.invoices[j].lines[k]]
<1>1. /\ IsFiniteSet(Live(b)) /\ Live(b) \subseteq Invoices(b)
      /\ \A j \in Invoices(b) : f[j] \in Nat
  BY LiveTyped
<1>2. f[i] = b.invoices[i].lines[k]
  BY <1>1
<1>3. Billed(b, {}, k) = SumFunctionOnSet(f, Live(b)) /\ Billed(b, {i}, k) = SumFunctionOnSet(f, Live(b) \ {i})
  <2>1. Live(b) \ {} = Live(b)
    OBVIOUS
  <2>2. QED
    BY <2>1 DEF Billed
<1> HIDE DEF f
<1>4. \A j \in Live(b) : f[j] \in Int
  BY <1>1
<1>5. SumFunctionOnSet(f, Live(b)) = f[i] + SumFunctionOnSet(f, Live(b) \ {i})
  BY <1>1, <1>4, SumTerm
<1>6. QED
  BY <1>2, <1>3, <1>5

\* The other invoices bill what they did.
LEMMA BilledRest ==
    ASSUME NEW b, NEW c, NEW D, NEW k \in Keys, Live(c) \ D = Live(b) \ D, Invoices(b) \subseteq Invoices(c),
           \A j \in Live(b) \ D : c.invoices[j].lines[k] = b.invoices[j].lines[k]
    PROVE  Billed(c, D, k) = Billed(b, D, k)
<1> DEFINE f == [j \in Invoices(b) |-> b.invoices[j].lines[k]]
           g == [j \in Invoices(c) |-> c.invoices[j].lines[k]]
<1>1. \A j \in Live(b) \ D : f[j] = g[j]
  BY DEF Live
<1>2. SumFunctionOnSet(f, Live(b) \ D) = SumFunctionOnSet(g, Live(b) \ D)
  <2> HIDE DEF f, g
  <2>1. QED
    BY <1>1, SumSame
<1>3. QED
  BY <1>2 DEF Billed

\* Where lines are kept, no less is billed.
LEMMA BilledKept ==
    ASSUME NEW b, NEW c, BillRows(b), BillRows(c), LinesKept(b, c), NEW k \in Keys
    PROVE  Billed(c, {}, k) >= Billed(b, {}, k)
<1> DEFINE f == [j \in Invoices(b) |-> b.invoices[j].lines[k]]
           g == [j \in Invoices(c) |-> c.invoices[j].lines[k]]
<1>1. Live(b) \subseteq Live(c) /\ \A j \in Live(b) : f[j] = g[j]
  BY DEF LinesKept, Live
<1>2. /\ IsFiniteSet(Live(c)) /\ \A j \in Live(c) : g[j] \in Nat
      /\ Billed(b, {}, k) \in Nat /\ Billed(c, {}, k) \in Nat
  BY LiveTyped
<1>3. Billed(b, {}, k) = SumFunctionOnSet(f, Live(b)) /\ Billed(c, {}, k) = SumFunctionOnSet(g, Live(c))
  <2>1. Live(b) \ {} = Live(b) /\ Live(c) \ {} = Live(c)
    OBVIOUS
  <2>2. QED
    BY <2>1 DEF Billed
<1> HIDE DEF f, g
<1>4. SumFunctionOnSet(f, Live(b)) = SumFunctionOnSet(g, Live(b))
  BY <1>1, SumSame
<1>5. SumFunctionOnSet(g, Live(b)) <= SumFunctionOnSet(g, Live(c))
  BY <1>1, <1>2, SumGrows
<1>6. QED
  BY <1>2, <1>3, <1>4, <1>5

LEMMA CoveredKept ==
    ASSUME NEW b, NEW c, BillRows(b), BillRows(c), LinesKept(b, c), c.charges = b.charges, Covered(b)
    PROVE  Covered(c)
<1> SUFFICES ASSUME NEW k \in Keys PROVE Billed(c, {}, k) >= c.charges[k]
  BY DEF Covered
<1>1. Billed(c, {}, k) >= Billed(b, {}, k) /\ Billed(b, {}, k) >= b.charges[k]
  BY BilledKept DEF Covered
<1>2. Billed(c, {}, k) \in Nat /\ Billed(b, {}, k) \in Nat
  BY LiveTyped
<1>3. b.charges[k] \in Int
  BY RateTypes DEF BillRows, BillRow, Charges
<1>4. QED
  BY <1>1, <1>2, <1>3

\* An invoice rewritten with the charges that other invoices do not have.
LEMMA CoveredByReplaced ==
    ASSUME NEW b, Good(b), NEW i \in Live(b), b.invoices[i].status # "PAID",
           NEW lines \in [Keys -> Nat], NEW rate \in Nat, NEW discount \in Nat,
           NEW c, c = Replaced(b, i, lines, rate, discount),
           \A k \in Keys : lines[k] >= b.charges[k] - Billed(b, {i}, k)
    PROVE  Covered(c)
<1>1. /\ Good(c) /\ Follows(b, c) /\ Invoices(c) = Invoices(b) /\ Live(c) = Live(b)
      /\ \A j \in Invoices(b) \ {i} : c.invoices[j] = b.invoices[j]
      /\ c.invoices[i].lines = lines
  <2>1. /\ Good(b) /\ i \in Live(b) /\ b.invoices[i].status # "PAID" /\ lines \in [Keys -> Nat]
        /\ rate \in Nat /\ discount \in Nat /\ c = Replaced(b, i, lines, rate, discount)
    OBVIOUS
  <2>2. QED
    BY ONLY <2>1, ReplacedGood
<1> SUFFICES ASSUME NEW k \in Keys PROVE Billed(c, {}, k) >= c.charges[k]
  BY DEF Covered
<1>2. BillRows(b) /\ BillRows(c) /\ c.charges = b.charges
  BY <1>1 DEF Good, Follows
<1>3. Billed(c, {i}, k) = Billed(b, {i}, k)
  <2>1. \A j \in Live(b) \ {i} : c.invoices[j].lines[k] = b.invoices[j].lines[k]
    BY <1>1 DEF Live
  <2>2. QED
    BY <1>1, <2>1, BilledRest
<1>4. Billed(c, {}, k) = lines[k] + Billed(c, {i}, k)
  BY <1>1, <1>2, BilledSplit
<1>5. Billed(b, {i}, k) \in Nat
  BY <1>2, LiveTyped
<1>6. lines[k] \in Nat /\ b.charges[k] \in Int
  BY <1>2, RateTypes DEF BillRows, BillRow, Charges
<1>7. lines[k] >= b.charges[k] - Billed(b, {i}, k)
  OBVIOUS
<1>8. QED
  BY <1>2, <1>3, <1>4, <1>5, <1>6, <1>7

\* A new invoice with the charges that no invoice has.
LEMMA CoveredByAdded ==
    ASSUME NEW b, Good(b), NEW invoice \in InvoiceRow, invoice.status = "OPEN",
           NEW c \in Added(b, invoice),
           \A k \in Keys : invoice.lines[k] >= b.charges[k] - Billed(b, {}, k)
    PROVE  Covered(c)
<1> DEFINE n == Len(c.invoices)
<1>1. /\ Good(c) /\ Follows(b, c) /\ n \notin Invoices(b)
      /\ Invoices(c) = Invoices(b) \cup {n} /\ Live(c) = Live(b) \cup {n}
      /\ c.invoices[n] = invoice /\ \A j \in Invoices(b) : c.invoices[j] = b.invoices[j]
  BY AddedGood
<1> HIDE DEF n
<1> SUFFICES ASSUME NEW k \in Keys PROVE Billed(c, {}, k) >= c.charges[k]
  BY DEF Covered
<1>2. BillRows(b) /\ BillRows(c) /\ c.charges = b.charges
  BY <1>1 DEF Good, Follows
<1>3. Live(b) \ {n} = Live(b) \ {} /\ Live(c) \ {n} = Live(b) \ {n} /\ n \in Live(c)
  BY <1>1 DEF Live
<1>4. Billed(b, {n}, k) = Billed(b, {}, k)
  BY <1>3 DEF Billed
<1>5. Billed(c, {n}, k) = Billed(b, {n}, k)
  <2>1. \A j \in Live(b) \ {n} : c.invoices[j].lines[k] = b.invoices[j].lines[k]
    BY <1>1 DEF Live
  <2>2. QED
    BY <1>1, <1>3, <2>1, BilledRest
<1>6. Billed(c, {}, k) = invoice.lines[k] + Billed(c, {n}, k)
  BY <1>1, <1>2, <1>3, BilledSplit
<1>7. Billed(b, {}, k) \in Nat
  BY <1>2, LiveTyped
<1>8. invoice.lines[k] \in Nat /\ b.charges[k] \in Int
  <2>1. invoice.lines \in [Keys -> Nat]
    BY InvoiceFields
  <2>2. b.charges \in Charges
    BY <1>2 DEF BillRows, BillRow
  <2>3. b.charges[k] \in Int
    BY <2>2, RateTypes DEF Charges
  <2>4. QED
    BY <2>1, <2>3
<1>9. invoice.lines[k] >= b.charges[k] - Billed(b, {}, k)
  OBVIOUS
<1>10. QED
  BY <1>2, <1>4, <1>5, <1>6, <1>7, <1>8, <1>9

\* A supplemental with nothing left to bill, and no receipts, is voided.
LEMMA VoidedGood ==
    ASSUME NEW b, Good(b), NEW i \in Live(b), b.invoices[i].status # "PAID",
           b.invoices[i].kind = "additional",
           NEW c, c = [b EXCEPT !.invoices[i].status = "VOID"],
           \A k \in Keys : Billed(b, {i}, k) >= b.charges[k]
    PROVE  /\ Good(c) /\ Follows(b, c) /\ Covered(c) /\ c.status = b.status
           /\ Invoices(c) = Invoices(b) /\ Live(c) = Live(b) \ {i}
           /\ \A j \in Invoices(b) \ {i} : c.invoices[j] = b.invoices[j]
<1> DEFINE old == b.invoices[i]
           row == [old EXCEPT !.status = "VOID"]
           rows == [b.invoices EXCEPT ![i] = row]
<1>1. /\ b \in BillRow /\ BillRows(b) /\ GatewayOnce(b) /\ b.paid = SumFunction(Nets(b))
      /\ \A j \in Live(b) : Matches(b, j)
      /\ i \in Invoices(b)
  BY DEF Good, BillRows, Live
<1>2. /\ Invoices(b) = 1 .. Len(b.invoices) /\ b.invoices \in Seq(InvoiceRow) /\ old \in InvoiceRow
      /\ Len(b.invoices) \in Nat
  BY <1>1, InvoicesTyped DEF BillRow
<1>3. row \in InvoiceRow /\ row.status = "VOID" /\ row.kind = old.kind
  BY <1>2, StatusTyped DEF Statuses
<1> HIDE DEF row
<1>4. /\ rows \in Seq(InvoiceRow) /\ Len(rows) = Len(b.invoices)
      /\ rows[i] = row /\ \A j \in Invoices(b) \ {i} : rows[j] = b.invoices[j]
  BY <1>1, <1>2, <1>3 DEF Invoices
<1>5. c = [b EXCEPT !.invoices = rows]
  BY DEF row
<1> HIDE DEF rows
<1>6. /\ c \in BillRow /\ c.invoices = rows /\ c.receipts = b.receipts /\ c.paid = b.paid
      /\ c.status = b.status /\ c.charges = b.charges
  BY <1>1, <1>4, <1>5 DEF BillRow
<1>7. Invoices(c) = Invoices(b)
  <2>1. Invoices(c) = 1 .. Len(c.invoices)
    BY <1>6, InvoicesTyped
  <2>2. QED
    BY <1>2, <1>4, <1>6, <2>1
<1>8. Live(c) = Live(b) \ {i}
  BY <1>3, <1>4, <1>6, <1>7 DEF Live
<1>9. BillRows(c)
  <2>1. 1 \in Invoices(b) /\ 1 # i
    BY <1>1, <1>2 DEF BillRows
  <2>2. c.invoices[1].kind = "initial" /\ c.invoices[1].status # "VOID"
    BY <1>1, <1>4, <1>6, <2>1 DEF BillRows
  <2>3. QED
    BY <1>1, <1>4, <1>6, <1>7, <2>2 DEF BillRows
<1>10. Nets(c) = Nets(b) /\ Refunded(c) = Refunded(b) /\ \A j : PaidAmount(c, j) = PaidAmount(b, j)
  BY ONLY <1>6, PaidByReceipts
<1>11. \A j \in Live(c) : Matches(c, j)
  <2> TAKE j \in Live(c)
  <2>1. Matches(b, j) /\ c.invoices[j] = b.invoices[j]
    BY <1>1, <1>4, <1>6, <1>8 DEF Live
  <2>2. QED
    BY <1>10, <2>1 DEF Matches
<1>12. GatewayOnce(c)
  BY <1>1, <1>6 DEF GatewayOnce
<1>13. Good(c)
  BY <1>1, <1>6, <1>9, <1>10, <1>11, <1>12 DEF Good
<1>14. Follows(b, c)
  BY <1>4, <1>6, <1>7, <1>10 DEF Follows
<1>15. ASSUME NEW k \in Keys PROVE Billed(c, {}, k) >= c.charges[k]
  <2>1. Live(c) \ {} = Live(c) \ {i} /\ Live(c) \ {i} = Live(b) \ {i}
    BY <1>8
  <2>2. Billed(c, {}, k) = Billed(c, {i}, k)
    BY <2>1 DEF Billed
  <2>3. \A j \in Live(b) \ {i} : c.invoices[j].lines[k] = b.invoices[j].lines[k]
    BY <1>4, <1>6 DEF Live
  <2>4. Billed(c, {i}, k) = Billed(b, {i}, k)
    BY ONLY <1>7, <1>15, <2>1, <2>3, BilledRest
  <2>5. QED
    BY <1>6, <2>2, <2>4
<1>16. QED
  BY <1>4, <1>6, <1>7, <1>8, <1>13, <1>14, <1>15 DEF Covered

\* The ways a bill may follow, given what the supplemental is to bill.
Follower(b, c, latest, delta, invoice) ==
    /\ latest = IF Supplemental(b) = {} THEN {} ELSE {Max(Supplemental(b))}
    /\ delta \in [Keys -> Nat] /\ \A k \in Keys : delta[k] = b.charges[k] - Billed(b, latest, k)
    /\ \A k \in Keys : delta[k] = 0 => Billed(b, latest, k) >= b.charges[k]
    /\ invoice = Invoice("additional", "PMS", delta, 0, PmsRate, 0)
    /\ invoice \in InvoiceRow /\ invoice.status = "OPEN" /\ invoice.lines = delta
    /\ \A i \in latest : /\ i \in Live(b) /\ b.invoices[i].status # "PAID"
                         /\ b.invoices[i].kind = "additional" /\ latest = {i}
    /\ \/ latest = {} /\ delta = NoLines /\ c = b
       \/ latest = {} /\ c \in Added(b, invoice)
       \/ \E i \in latest :
            IF b.invoices[i].adjusted
            THEN c \in Adjusted(Replaced(b, i, delta, PmsRate, 0), b.invoices[i].manual)
            ELSE c = IF delta = NoLines
                     THEN IF ReceiptsOf(b, i) = {} THEN [b EXCEPT !.invoices[i].status = "VOID"] ELSE b
                     ELSE Replaced(b, i, delta, PmsRate, 0)

LEMMA SupplementedCases ==
    ASSUME NEW b, Good(b), NEW c \in Supplemented(b)
    PROVE  \E latest, delta, invoice : Follower(b, c, latest, delta, invoice)
<1> DEFINE latest == IF Supplemental(b) = {} THEN {} ELSE {Max(Supplemental(b))}
           delta == Delta(b, latest)
           invoice == Invoice("additional", "PMS", delta, 0, PmsRate, 0)
           rebuilt(i) == Replaced(b, i, delta, PmsRate, 0)
           voided(i) == IF ReceiptsOf(b, i) = {} THEN [b EXCEPT !.invoices[i].status = "VOID"] ELSE b
           after(i) == IF b.invoices[i].adjusted THEN Adjusted(rebuilt(i), b.invoices[i].manual)
                       ELSE {IF delta = NoLines THEN voided(i) ELSE rebuilt(i)}
<1>1. /\ \A k \in Keys : ~(delta[k] < 0)
      /\ \/ latest = {} /\ delta = NoLines /\ c = b
         \/ latest = {} /\ c \in Added(b, invoice)
         \/ \E i \in latest : IF b.invoices[i].adjusted THEN c \in Adjusted(rebuilt(i), b.invoices[i].manual)
                              ELSE c = IF delta = NoLines THEN voided(i) ELSE rebuilt(i)
  <2>1. /\ c \in IF \E k \in Keys : delta[k] < 0 THEN {}
                 ELSE CASE latest # {} -> UNION {after(i) : i \in latest}
                        [] latest = {} /\ delta = NoLines -> {b}
                        [] latest = {} /\ delta # NoLines -> Added(b, invoice)
        /\ \A i : after(i) = IF b.invoices[i].adjusted THEN Adjusted(rebuilt(i), b.invoices[i].manual)
                             ELSE {IF delta = NoLines THEN voided(i) ELSE rebuilt(i)}
    BY DEF Supplemented
  <2> HIDE DEF latest, delta, invoice, rebuilt, voided, after
  <2>2. CASE latest = {}
    BY <2>1, <2>2
  <2>3. CASE latest # {}
    <3>1. PICK i \in latest : c \in after(i)
      BY <2>1, <2>3
    <3>2. c \in IF b.invoices[i].adjusted THEN Adjusted(rebuilt(i), b.invoices[i].manual)
               ELSE {IF delta = NoLines THEN voided(i) ELSE rebuilt(i)}
      BY <2>1, <3>1
    <3>3. QED
      BY <2>1, <3>1, <3>2
  <2>4. QED
    BY <2>2, <2>3
<1>2. BillRows(b) /\ b \in BillRow /\ b.charges \in Charges
  BY DEF Good, BillRows, BillRow
<1>3. /\ \A k \in Keys : delta[k] = b.charges[k] - Billed(b, latest, k)
      /\ delta \in [Keys -> Nat]
  <2>1. \A k \in Keys : delta[k] = b.charges[k] - Billed(b, latest, k)
    BY DEF Delta
  <2>2. \A k \in Keys : b.charges[k] \in Int /\ Billed(b, latest, k) \in Nat
    BY <1>2, LiveTyped, RateTypes DEF Charges
  <2> HIDE DEF latest
  <2>3. \A k \in Keys : delta[k] \in Nat
    BY <1>1, <2>1, <2>2
  <2>4. QED
    BY <2>1, <2>3 DEF Delta
<1>4. /\ invoice \in InvoiceRow /\ invoice.status = "OPEN" /\ invoice.lines = delta
  <2>1. 0 \in Int /\ PmsRate \in Nat /\ "additional" \in Kinds /\ "PMS" \in Scopes
    BY RateTypes DEF Kinds, Scopes
  <2> HIDE DEF delta
  <2>2. QED
    BY <1>3, <2>1, InvoiceTyped
<1>5. \A i \in latest : /\ i \in Live(b) /\ b.invoices[i].status # "PAID" /\ b.invoices[i].kind = "additional"
                        /\ latest = {i}
  <2>1. Supplemental(b) \subseteq Live(b) /\ Live(b) \subseteq Int /\ IsFiniteSet(Live(b))
    <3>1. "room" \in Keys
      BY RateTypes
    <3>2. IsFiniteSet(Live(b)) /\ Live(b) \subseteq Invoices(b)
      BY <1>2, <3>1, LiveTyped
    <3>3. QED
      BY <1>2, <3>2, InvoicesTyped DEF Supplemental
  <2>2. IsFiniteSet(Supplemental(b)) /\ Supplemental(b) \subseteq Int
    BY <2>1, FS_Subset
  <2>3. Supplemental(b) # {} => Max(Supplemental(b)) \in Supplemental(b)
    BY <2>2, GreatestOne
  <2>4. QED
    BY <2>1, <2>3 DEF Supplemental
<1>6. Follower(b, c, latest, delta, invoice)
  <2>1. latest = IF Supplemental(b) = {} THEN {} ELSE {Max(Supplemental(b))}
    OBVIOUS
  <2>2. invoice = Invoice("additional", "PMS", delta, 0, PmsRate, 0)
    OBVIOUS
  <2> HIDE DEF latest, delta, invoice
  <2>3. \A k \in Keys : b.charges[k] \in Int /\ Billed(b, latest, k) \in Nat
    BY <1>2, LiveTyped, RateTypes DEF Charges
  <2>4. \A k \in Keys : delta[k] = 0 => Billed(b, latest, k) >= b.charges[k]
    BY <1>3, <2>3
  <2>5. QED
    BY <1>1, <1>3, <1>4, <1>5, <2>1, <2>2, <2>4 DEF Follower
<1>7. QED
  BY <1>6

LEMMA SupplementedGood ==
    ASSUME NEW b, Good(b), NEW c \in Supplemented(b)
    PROVE  Good(c) /\ Follows(b, c) /\ Covered(c) /\ c.status = b.status
<1> DEFINE voided(i) == IF ReceiptsOf(b, i) = {} THEN [b EXCEPT !.invoices[i].status = "VOID"] ELSE b
<1>2. BillRows(b) /\ b \in BillRow /\ b.charges \in Charges
  BY DEF Good, BillRows, BillRow
<1>1. PICK latest, delta, invoice : Follower(b, c, latest, delta, invoice)
  BY SupplementedCases
<1>3. /\ delta \in [Keys -> Nat] /\ \A k \in Keys : delta[k] = b.charges[k] - Billed(b, latest, k)
      /\ invoice \in InvoiceRow /\ invoice.status = "OPEN" /\ invoice.lines = delta
      /\ \A i \in latest : /\ i \in Live(b) /\ b.invoices[i].status # "PAID"
                           /\ b.invoices[i].kind = "additional" /\ latest = {i}
      /\ \/ latest = {} /\ delta = NoLines /\ c = b
         \/ latest = {} /\ c \in Added(b, invoice)
         \/ \E i \in latest : IF b.invoices[i].adjusted
                              THEN c \in Adjusted(Replaced(b, i, delta, PmsRate, 0), b.invoices[i].manual)
                              ELSE c = IF delta = NoLines THEN voided(i)
                                       ELSE Replaced(b, i, delta, PmsRate, 0)
  BY <1>1 DEF Follower
<1> DEFINE rebuilt(i) == Replaced(b, i, delta, PmsRate, 0)
<1>6. CASE latest = {} /\ delta = NoLines /\ c = b
  <2>1. Follows(b, b)
    BY DEF Follows
  <2>2. ASSUME NEW k \in Keys PROVE Billed(b, {}, k) >= b.charges[k]
    <3>1. Billed(b, {}, k) \in Nat /\ b.charges[k] \in Int
      BY <1>2, LiveTyped, RateTypes DEF Charges
    <3>2. b.charges[k] - Billed(b, {}, k) = 0
      BY <1>3, <1>6 DEF NoLines
    <3>3. QED
      BY <3>1, <3>2
  <2>3. QED
    BY <1>6, <2>1, <2>2 DEF Covered
<1>7. CASE latest = {} /\ c \in Added(b, invoice)
  <2>1. \A k \in Keys : invoice.lines[k] >= b.charges[k] - Billed(b, {}, k)
    <3> TAKE k \in Keys
    <3>1. delta[k] = b.charges[k] - Billed(b, {}, k) /\ delta[k] \in Nat
      BY <1>3, <1>7
    <3>2. QED
      BY <1>3, <3>1
  <2>2. Covered(c)
    BY <1>3, <1>7, <2>1, CoveredByAdded
  <2>3. Good(c) /\ Follows(b, c) /\ c.status = b.status
    BY <1>3, <1>7, AddedGood
  <2>4. QED
    BY <2>2, <2>3
<1>8. ASSUME NEW i \in latest,
             IF b.invoices[i].adjusted THEN c \in Adjusted(rebuilt(i), b.invoices[i].manual)
             ELSE c = IF delta = NoLines THEN voided(i) ELSE rebuilt(i)
      PROVE  Good(c) /\ Follows(b, c) /\ Covered(c) /\ c.status = b.status
  <2>1. /\ i \in Live(b) /\ b.invoices[i].status # "PAID" /\ b.invoices[i].kind = "additional"
        /\ \A k \in Keys : delta[k] = b.charges[k] - Billed(b, {i}, k)
    BY <1>3
  <2>2. \A k \in Keys : /\ delta[k] >= b.charges[k] - Billed(b, {i}, k)
                        /\ delta[k] = 0 => Billed(b, {i}, k) >= b.charges[k]
    <3> TAKE k \in Keys
    <3>1. Billed(b, {i}, k) \in Nat /\ b.charges[k] \in Int /\ delta[k] \in Nat
      BY <1>2, <1>3, LiveTyped, RateTypes DEF Charges
    <3>2. delta[k] = b.charges[k] - Billed(b, {i}, k)
      BY <2>1
    <3>3. QED
      BY <3>1, <3>2
  <2>3. PICK x : x = rebuilt(i)
    OBVIOUS
  <2>4. PmsRate \in Nat /\ 0 \in Int
    BY RateTypes
  <2>5. Good(x) /\ Follows(b, x) /\ x.status = b.status
    BY <1>3, <2>1, <2>3, <2>4, ReplacedGood
  <2>6. Covered(x)
    BY <1>3, <2>1, <2>2, <2>3, <2>4, CoveredByReplaced
  <2>7. CASE b.invoices[i].adjusted
    <3>1. b.invoices[i].manual \in Int
      BY <1>2, <2>1, InvoicesTyped, InvoiceFields DEF Live
    <3>2. Good(c) /\ Follows(x, c) /\ LinesKept(x, c) /\ c.status = x.status
      BY <1>8, <2>3, <2>5, <2>7, <3>1, AdjustedGood
    <3>3. Covered(c)
      BY <2>5, <2>6, <3>2, CoveredKept DEF Good, Follows
    <3>4. QED
      BY <2>5, <3>2, <3>3, FollowsTwice
  <2>8. CASE ~b.invoices[i].adjusted /\ delta # NoLines
    BY <1>8, <2>3, <2>5, <2>6, <2>8
  <2>9. CASE ~b.invoices[i].adjusted /\ delta = NoLines
    <3>1. c = voided(i)
      BY <1>8, <2>9
    <3>2. \A k \in Keys : Billed(b, {i}, k) >= b.charges[k]
      BY <2>2, <2>9 DEF NoLines
    <3>3. CASE ReceiptsOf(b, i) = {}
      <4>1. c = [b EXCEPT !.invoices[i].status = "VOID"]
        BY <3>1, <3>3
      <4>2. QED
        BY <2>1, <3>2, <4>1, VoidedGood
    <3>4. CASE ReceiptsOf(b, i) # {}
      <4>1. c = b
        BY <3>1, <3>4
      <4>2. Follows(b, b)
        BY DEF Follows
      <4>3. ASSUME NEW k \in Keys PROVE Billed(b, {}, k) >= b.charges[k]
        <5>1. Billed(b, {}, k) = b.invoices[i].lines[k] + Billed(b, {i}, k)
          BY <1>2, <2>1, BilledSplit
        <5>2. b.invoices[i].lines[k] \in Nat /\ Billed(b, {i}, k) \in Nat
          <6>1. i \in Invoices(b)
            BY <2>1 DEF Live
          <6>2. QED
            BY <1>2, <4>3, <6>1, LiveTyped
        <5>3. b.charges[k] \in Int
          BY <1>2, RateTypes DEF Charges
        <5>4. Billed(b, {i}, k) >= b.charges[k]
          BY <3>2
        <5>5. QED
          BY <5>1, <5>2, <5>3, <5>4
      <4>4. QED
        BY <4>1, <4>2, <4>3 DEF Covered
    <3>5. QED
      BY <3>3, <3>4
  <2>10. QED
    BY <2>7, <2>8, <2>9
<1>9. QED
  BY <1>3, <1>6, <1>7, <1>8

LEMMA ChargesSyncedGood ==
    ASSUME NEW b, Good(b), NEW c \in ChargesSynced(b)
    PROVE  Good(c) /\ Follows(b, c) /\ Covered(c) /\ c.status = b.status
<1>1. CASE Repriceable(b)
  <2>1. /\ c = Replaced(b, 1, b.charges, b.rate, b.discount) /\ b.invoices[1].status # "PAID"
    BY <1>1 DEF ChargesSynced, Repriceable
  <2>2. /\ BillRows(b) /\ b \in BillRow /\ b.charges \in Charges /\ b.rate \in Nat /\ b.discount \in Nat
    BY DEF Good, BillRows, BillRow
  <2>3. b.charges \in [Keys -> Nat]
    <3>1. b.charges \in [Keys -> 0 .. MaxCharge] /\ MaxCharge \in Nat
      BY <2>2, RateTypes DEF Charges
    <3>2. \A k \in Keys : b.charges[k] \in Nat
      BY <3>1
    <3>3. QED
      BY <3>1, <3>2
  <2>4. 1 \in Live(b)
    BY <2>2, InvoicesTyped DEF Live, BillRows
  <2>5. \A k \in Keys : b.charges[k] >= b.charges[k] - Billed(b, {1}, k)
    <3> TAKE k \in Keys
    <3>1. Billed(b, {1}, k) \in Nat /\ b.charges[k] \in Nat
      BY <2>2, <2>3, LiveTyped
    <3>2. QED
      BY <3>1
  <2>6. Good(c) /\ Follows(b, c) /\ c.status = b.status
    BY <2>1, <2>2, <2>3, <2>4, ReplacedGood
  <2>7. Covered(c)
    BY <2>1, <2>2, <2>3, <2>4, <2>5, CoveredByReplaced
  <2>8. QED
    BY <2>6, <2>7
<1>2. CASE ~Repriceable(b)
  BY <1>2, SupplementedGood DEF ChargesSynced
<1>3. QED
  BY <1>1, <1>2

-----------------------------------------------------------------------------
(* Payments and refunds. *)

\* What an invoice is paid depends on its own receipts alone.
LEMMA PaidElsewhere ==
    ASSUME NEW b, NEW d, NEW j, ReceiptsOf(d, j) = ReceiptsOf(b, j),
           \A r \in ReceiptsOf(b, j) : Nets(d)[r] = Nets(b)[r]
    PROVE  PaidAmount(d, j) = PaidAmount(b, j)
<1>1. SumFunctionOnSet(Nets(b), ReceiptsOf(b, j)) = SumFunctionOnSet(Nets(d), ReceiptsOf(b, j))
  BY SumSame
<1>2. QED
  BY <1>1 DEF PaidAmount

RefundedBy(b) == [r \in DOMAIN b.receipts |-> b.receipts[r].refunded]

LEMMA RefundedTyped ==
    ASSUME NEW b, BillRows(b)
    PROVE  /\ Refunded(b) = SumFunctionOnSet(RefundedBy(b), DOMAIN b.receipts)
           /\ Refunded(b) \in Nat
           /\ \A r \in DOMAIN b.receipts :
                /\ RefundedBy(b)[r] = b.receipts[r].refunded /\ RefundedBy(b)[r] \in Nat
                /\ b.receipts[r] \in ReceiptRow
<1>1. /\ IsFiniteSet(DOMAIN b.receipts) /\ b.receipts \in Seq(ReceiptRow)
  BY NetsTyped DEF BillRows, BillRow
<1>2. \A r \in DOMAIN b.receipts : b.receipts[r] \in ReceiptRow
  BY <1>1
<1>3. \A r \in DOMAIN b.receipts : RefundedBy(b)[r] = b.receipts[r].refunded /\ RefundedBy(b)[r] \in Nat
  BY <1>2 DEF RefundedBy, BillRows, ReceiptRow
<1>4. Refunded(b) = SumFunctionOnSet(RefundedBy(b), DOMAIN b.receipts)
  BY DEF Refunded, RefundedBy, SumFunction
<1>5. SumFunctionOnSet(RefundedBy(b), DOMAIN b.receipts) \in Nat
  BY <1>1, <1>3, SumBounds
<1>6. QED
  BY <1>2, <1>3, <1>4, <1>5

\* An invoice with a balance is not paid.
LEMMA BalanceTyped ==
    ASSUME NEW b, Good(b), NEW i \in Invoices(b)
    PROVE  /\ Balance(b, i) \in Nat
           /\ Balance(b, i) > 0 => b.invoices[i].status # "PAID"
<1>1. BillRows(b) /\ b \in BillRow
  BY DEF Good, BillRows
<1>2. b.invoices[i].total \in Int /\ PaidAmount(b, i) \in Nat
  BY <1>1, InvoicesTyped, InvoiceFields, NetsTyped
<1>3. Balance(b, i) = IF b.invoices[i].total - PaidAmount(b, i) >= 0
                      THEN b.invoices[i].total - PaidAmount(b, i) ELSE 0
  BY <1>2, GreaterOfTwo DEF Balance
<1>4. ASSUME b.invoices[i].status = "PAID" PROVE PaidAmount(b, i) >= b.invoices[i].total
  BY <1>4 DEF Good, Live, Matches
<1>5. QED
  BY <1>2, <1>3, <1>4

\* The bill with one more receipt.
WithReceipt(b, d, receipt) ==
    /\ d.receipts = Append(b.receipts, receipt) /\ d.paid = b.paid + receipt.amount
    /\ d.invoices = b.invoices /\ d.charges = b.charges

LEMMA ReceiptSums ==
    ASSUME NEW b, BillRows(b), NEW d, NEW receipt \in ReceiptRow, receipt.refunded = 0,
           receipt.amount \in Nat, WithReceipt(b, d, receipt), b.paid = SumFunction(Nets(b))
    PROVE  /\ d.receipts \in Seq(ReceiptRow)
           /\ DOMAIN d.receipts = DOMAIN b.receipts \cup {Len(b.receipts) + 1}
           /\ d.receipts[Len(b.receipts) + 1] = receipt
           /\ \A r \in DOMAIN b.receipts : d.receipts[r] = b.receipts[r]
           /\ d.paid = SumFunction(Nets(d))
           /\ Refunded(d) = Refunded(b)
           /\ \A j : j # receipt.invoice => PaidAmount(d, j) = PaidAmount(b, j)
<1> DEFINE n == Len(b.receipts)
<1>1. b.receipts \in Seq(ReceiptRow) /\ n \in Nat /\ DOMAIN b.receipts = 1 .. n
  BY DEF BillRows, BillRow
<1>2. /\ d.receipts \in Seq(ReceiptRow) /\ DOMAIN d.receipts = 1 .. n + 1
      /\ d.receipts[n + 1] = receipt /\ \A r \in 1 .. n : d.receipts[r] = b.receipts[r]
  BY <1>1 DEF WithReceipt
<1>3. 1 .. n + 1 = (1 .. n) \cup {n + 1}
  BY <1>1
<1>4. /\ \A r \in 1 .. n : Nets(b)[r] \in Nat /\ Nets(d)[r] = Nets(b)[r]
      /\ Nets(d)[n + 1] = receipt.amount
  <2>1. \A r \in 1 .. n : Nets(b)[r] \in Nat
    BY <1>1, NetsTyped
  <2>2. \A r \in 1 .. n : Nets(d)[r] = Nets(b)[r]
    BY <1>1, <1>2, <1>3 DEF Nets
  <2>3. Nets(d)[n + 1] = receipt.amount
    BY <1>2, <1>3 DEF Nets, Net
  <2>4. QED
    BY <2>1, <2>2, <2>3
<1>5. /\ \A r \in 1 .. n : RefundedBy(b)[r] \in Nat /\ RefundedBy(d)[r] = RefundedBy(b)[r]
      /\ RefundedBy(d)[n + 1] = 0
  <2>1. \A r \in 1 .. n : RefundedBy(b)[r] \in Nat
    BY <1>1, RefundedTyped
  <2>2. \A r \in 1 .. n : RefundedBy(d)[r] = RefundedBy(b)[r]
    BY <1>1, <1>2, <1>3 DEF RefundedBy
  <2>3. RefundedBy(d)[n + 1] = 0
    BY <1>2, <1>3 DEF RefundedBy
  <2>4. QED
    BY <2>1, <2>2, <2>3
<1>6. SumFunctionOnSet(Nets(d), 1 .. n + 1) = SumFunctionOnSet(Nets(b), 1 .. n) + receipt.amount
  <2>1. \A r \in 1 .. n + 1 : Nets(d)[r] \in Int
    BY <1>3, <1>4
  <2> HIDE DEF n
  <2>2. SumFunctionOnSet(Nets(d), 1 .. n + 1) = SumFunctionOnSet(Nets(b), 1 .. n) + Nets(d)[n + 1]
    BY <1>1, <1>4, <2>1, SumAppended
  <2>3. QED
    BY <1>4, <2>2
<1>7. SumFunctionOnSet(RefundedBy(d), 1 .. n + 1) = SumFunctionOnSet(RefundedBy(b), 1 .. n)
  <2>1. \A r \in 1 .. n + 1 : RefundedBy(d)[r] \in Int
    BY <1>3, <1>5
  <2>2. SumFunctionOnSet(RefundedBy(b), 1 .. n) \in Nat
    BY <1>1, RefundedTyped
  <2> HIDE DEF n
  <2>3. SumFunctionOnSet(RefundedBy(d), 1 .. n + 1) = SumFunctionOnSet(RefundedBy(b), 1 .. n) + RefundedBy(d)[n + 1]
    BY <1>1, <1>5, <2>1, SumAppended
  <2>4. QED
    BY <1>5, <2>2, <2>3
<1>8. d.paid = SumFunction(Nets(d))
  <2>1. SumFunction(Nets(d)) = SumFunctionOnSet(Nets(d), 1 .. n + 1)
    BY <1>2 DEF Nets, SumFunction
  <2>2. SumFunction(Nets(b)) = SumFunctionOnSet(Nets(b), 1 .. n)
    BY <1>1, NetsTyped
  <2>3. QED
    BY <1>6, <2>1, <2>2 DEF WithReceipt
<1>9. Refunded(d) = Refunded(b)
  <2>1. Refunded(d) = SumFunctionOnSet(RefundedBy(d), 1 .. n + 1)
    BY <1>2 DEF Refunded, RefundedBy, SumFunction
  <2>2. Refunded(b) = SumFunctionOnSet(RefundedBy(b), 1 .. n)
    BY <1>1, RefundedTyped
  <2>3. QED
    BY <1>7, <2>1, <2>2
<1>10. ASSUME NEW j, j # receipt.invoice PROVE PaidAmount(d, j) = PaidAmount(b, j)
  <2>1. ReceiptsOf(d, j) = ReceiptsOf(b, j) /\ ReceiptsOf(b, j) \subseteq 1 .. n
    BY <1>1, <1>2, <1>3, <1>10 DEF ReceiptsOf
  <2>2. \A r \in ReceiptsOf(b, j) : Nets(d)[r] = Nets(b)[r]
    BY <1>4, <2>1
  <2>3. QED
    BY <2>1, <2>2, PaidElsewhere
<1>11. QED
  BY <1>1, <1>2, <1>3, <1>8, <1>9, <1>10

\* The same invoices count, with the manual rows they had.
ManualKept(b, c) ==
    /\ Invoices(c) = Invoices(b) /\ Live(c) = Live(b)
    /\ \A j \in Invoices(b) : c.invoices[j].manual = b.invoices[j].manual

LEMMA RecordedGood ==
    ASSUME NEW b, Good(b), NEW i \in Invoices(b), NEW amount \in Int, NEW ref \in {"desk", "gateway"},
           ref = "gateway" => b.status = "PENDING_PAYMENT",
           NEW c \in Recorded(b, i, amount, ref)
    PROVE  Good(c) /\ Follows(b, c) /\ LinesKept(b, c) /\ ManualKept(b, c)
<1>1. /\ b \in BillRow /\ BillRows(b) /\ GatewayOnce(b) /\ b.paid = SumFunction(Nets(b))
      /\ \A j \in Live(b) : Matches(b, j)
  BY DEF Good, BillRows
<1>2. PICK receipt, status :
        /\ receipt = [invoice |-> i, amount |-> amount, refunded |-> 0, ref |-> ref]
        /\ status = IF b.status = "PENDING_PAYMENT" THEN "CONFIRMED" ELSE b.status
  OBVIOUS
<1> DEFINE rows == Append(b.receipts, receipt)
           paid == b.paid + amount
           d == [b EXCEPT !.receipts = rows, !.paid = paid, !.status = status]
<1>3. c = Synced(d, i) /\ 0 < amount /\ amount <= Balance(b, i)
  BY <1>2 DEF Recorded
<1>4. Balance(b, i) \in Nat /\ b.invoices[i].status # "PAID"
  BY <1>3, BalanceTyped
<1>5. /\ receipt \in ReceiptRow /\ receipt.refunded = 0 /\ receipt.amount = amount /\ amount \in Nat
      /\ receipt.invoice = i /\ receipt.ref = ref
  <2>1. i \in Nat
    BY <1>1, InvoicesTyped
  <2>2. QED
    BY <1>2, <1>3, <2>1 DEF ReceiptRow
<1>6. rows \in Seq(ReceiptRow) /\ paid \in Int
  BY <1>1, <1>5 DEF BillRow
<1>7. /\ d \in BillRow /\ d.receipts = rows /\ d.paid = paid /\ d.status = status
      /\ d.invoices = b.invoices /\ d.charges = b.charges
  <2> HIDE DEF rows, paid
  <2>1. status \in {"CONFIRMED", "CHECKED_IN", "CHECKED_OUT", "CANCELED", "EXPIRED"}
    BY <1>1, <1>2 DEF BillRow
  <2>2. QED
    BY <1>1, <1>6, <2>1 DEF BillRow
<1> HIDE DEF d
<1>8. WithReceipt(b, d, receipt) /\ receipt.amount \in Nat
  BY <1>5, <1>7 DEF WithReceipt
<1> HIDE DEF rows, paid
<1> DEFINE n == Len(b.receipts)
<1>9. /\ DOMAIN d.receipts = DOMAIN b.receipts \cup {n + 1}
      /\ d.receipts[n + 1] = receipt
      /\ \A r \in DOMAIN b.receipts : d.receipts[r] = b.receipts[r]
      /\ d.paid = SumFunction(Nets(d)) /\ Refunded(d) = Refunded(b)
      /\ \A j : j # i => PaidAmount(d, j) = PaidAmount(b, j)
  BY <1>1, <1>5, <1>8, ReceiptSums
<1> HIDE DEF n
<1>10. Invoices(d) = Invoices(b) /\ Live(d) = Live(b)
  BY <1>7 DEF Invoices, Live
<1>11. BillRows(d)
  <2>1. \A r \in DOMAIN d.receipts :
          d.receipts[r].invoice \in Invoices(d) /\ d.receipts[r].refunded \in 0 .. d.receipts[r].amount
    <3> TAKE r \in DOMAIN d.receipts
    <3>1. CASE r = n + 1
      BY <1>5, <1>9, <1>10, <3>1
    <3>2. CASE r \in DOMAIN b.receipts
      BY <1>1, <1>9, <1>10, <3>2 DEF BillRows
    <3>3. QED
      BY <1>9, <3>1, <3>2
  <2>2. QED
    BY <1>1, <1>7, <2>1 DEF BillRows
<1>12. \A j \in Live(d) \ {i} : Matches(d, j)
  <2> TAKE j \in Live(d) \ {i}
  <2>1. Matches(b, j) /\ PaidAmount(d, j) = PaidAmount(b, j) /\ d.invoices[j] = b.invoices[j]
    BY <1>1, <1>7, <1>9, <1>10
  <2>2. QED
    BY <2>1 DEF Matches
<1>13. GatewayOnce(d)
  <2>1. d.status # "PENDING_PAYMENT"
    BY <1>2, <1>7
  <2>2. \A r, s \in DOMAIN d.receipts :
          d.receipts[r].ref = "gateway" /\ d.receipts[s].ref = "gateway" => r = s
    <3>1. CASE ref = "gateway"
      <4>1. \A r \in DOMAIN b.receipts : d.receipts[r].ref = "desk"
        BY <1>1, <1>9, <3>1 DEF GatewayOnce
      <4>2. QED
        BY <1>9, <4>1
    <3>2. CASE ref = "desk"
      <4>1. d.receipts[n + 1].ref = "desk"
        BY <1>5, <1>9, <3>2
      <4>2. \A r, s \in DOMAIN b.receipts :
              d.receipts[r].ref = "gateway" /\ d.receipts[s].ref = "gateway" => r = s
        BY <1>1, <1>9 DEF GatewayOnce
      <4>3. QED
        BY <1>9, <4>1, <4>2
    <3>3. QED
      BY <3>1, <3>2
  <2>3. QED
    BY <2>1, <2>2 DEF GatewayOnce
<1>14. /\ Good(c)
       /\ Invoices(c) = Invoices(d) /\ Live(c) = Live(d)
       /\ \A j \in Invoices(d) \ {i} : c.invoices[j] = d.invoices[j]
       /\ Restated(c.invoices[i], d.invoices[i])
       /\ c.receipts = d.receipts /\ c.status = d.status /\ c.charges = d.charges
  <2>1. i \in Invoices(d)
    BY <1>10
  <2>2. QED
    BY ONLY <1>3, <1>9, <1>11, <1>12, <1>13, <2>1, SyncedGood
<1>15. Refunded(c) = Refunded(b)
  BY ONLY <1>9, <1>14, PaidByReceipts
<1>16. Follows(b, c)
  BY <1>4, <1>7, <1>10, <1>14, <1>15 DEF Follows
<1>17. LinesKept(b, c) /\ ManualKept(b, c)
  <2>1. b.invoices[i] \in InvoiceRow /\ c.invoices[i].status \in Statuses
    BY <1>1, <1>10, <1>14, InvoicesTyped, InvoiceFields DEF Good, BillRows
  <2>2. c.invoices[i].lines = b.invoices[i].lines /\ c.invoices[i].manual = b.invoices[i].manual
    BY <1>7, <1>14, <2>1, RestatedFields
  <2>3. QED
    BY <1>7, <1>10, <1>14, <2>2 DEF LinesKept, ManualKept, Live
<1>18. QED
  BY <1>14, <1>16, <1>17

LEMMA OutstandingOne ==
    ASSUME NEW b, Good(b), Outstanding(b) # {}
    PROVE  Min(Outstanding(b)) \in Outstanding(b) /\ Outstanding(b) \subseteq Invoices(b)
<1>1. BillRows(b) /\ b \in BillRow
  BY DEF Good, BillRows
<1>2. Outstanding(b) \subseteq Invoices(b)
  BY DEF Outstanding, Live
<1>3. IsFiniteSet(Invoices(b)) /\ Invoices(b) \subseteq Int
  BY <1>1, InvoicesTyped
<1>4. IsFiniteSet(Outstanding(b)) /\ Outstanding(b) \subseteq Int
  BY <1>2, <1>3, FS_Subset
<1>5. QED
  BY <1>2, <1>4, LeastOne

LEMMA PaidAtDeskGood ==
    ASSUME NEW b, Good(b), NEW deposit \in Int, NEW c \in PaidAtDesk(b, deposit)
    PROVE  Good(c) /\ Follows(b, c) /\ LinesKept(b, c) /\ ManualKept(b, c)
<1>1. CASE Outstanding(b) = {}
  <2>1. c = b
    BY <1>1 DEF PaidAtDesk
  <2>2. Follows(b, b) /\ LinesKept(b, b) /\ ManualKept(b, b)
    BY DEF Follows, LinesKept, ManualKept, Live
  <2>3. QED
    BY <2>1, <2>2
<1>2. CASE Outstanding(b) # {}
  <2>1. PICK i, amount : i = Min(Outstanding(b)) /\ amount = IF deposit = 0 THEN Balance(b, i) ELSE deposit
    OBVIOUS
  <2>2. c \in Recorded(b, i, amount, "desk")
    BY <1>2, <2>1 DEF PaidAtDesk
  <2>3. i \in Invoices(b)
    BY <1>2, <2>1, OutstandingOne
  <2>4. amount \in Int
    BY <2>1, <2>3, BalanceTyped
  <2>5. QED
    BY <2>2, <2>3, <2>4, RecordedGood
<1>3. QED
  BY <1>1, <1>2

\* Requests that change prices or the status of the booking leave its books alone.
LEMMA SameBooks ==
    ASSUME NEW b, Good(b), NEW c \in BillRow,
           c.invoices = b.invoices, c.receipts = b.receipts, c.paid = b.paid,
           c.status = b.status \/ c.status # "PENDING_PAYMENT"
    PROVE  Good(c) /\ Invoices(c) = Invoices(b) /\ Refunded(c) = Refunded(b) /\ LinesKept(b, c)
<1>1. Invoices(c) = Invoices(b) /\ Live(c) = Live(b)
  BY DEF Invoices, Live
<1>2. Nets(c) = Nets(b) /\ Refunded(c) = Refunded(b) /\ \A j : PaidAmount(c, j) = PaidAmount(b, j)
  BY PaidByReceipts
<1>3. BillRows(c)
  BY <1>1 DEF Good, BillRows
<1>4. \A j \in Live(c) : Matches(c, j)
  BY <1>1, <1>2 DEF Good, Matches
<1>5. GatewayOnce(c)
  BY DEF Good, GatewayOnce
<1>6. QED
  BY <1>1, <1>2, <1>3, <1>4, <1>5 DEF Good, LinesKept, Live

\* Paid invoices stay as they are, but that a refund may open them again.
Frozen(b, c) ==
    \A i \in Invoices(b) : b.invoices[i].status = "PAID" =>
        [c.invoices[i] EXCEPT !.status = "PAID"] = b.invoices[i]

LEMMA FollowsFrozen ==
    ASSUME NEW b, NEW c, b \in BillRow, Follows(b, c)
    PROVE  Frozen(b, c)
<1>1. \A i \in Invoices(b) : b.invoices[i] \in InvoiceRow
  BY InvoicesTyped
<1>2. \A row \in InvoiceRow : row.status = "PAID" => [row EXCEPT !.status = "PAID"] = row
  BY DEF InvoiceRow, InvoiceRecord
<1>3. QED
  BY <1>1, <1>2 DEF Follows, Frozen

\* The bill with an amount refunded of receipt r.
WithRefund(b, d, r, amount) ==
    /\ d.receipts = [b.receipts EXCEPT ![r] = [b.receipts[r] EXCEPT !.refunded = b.receipts[r].refunded + amount]]
    /\ d.paid = b.paid - amount
    /\ d.invoices = b.invoices /\ d.charges = b.charges /\ d.status = b.status

LEMMA RefundSums ==
    ASSUME NEW b, BillRows(b), b.paid = SumFunction(Nets(b)), NEW d, NEW r \in DOMAIN b.receipts,
           NEW amount \in Nat, amount <= Net(b.receipts[r]), WithRefund(b, d, r, amount)
    PROVE  /\ d.receipts \in Seq(ReceiptRow) /\ DOMAIN d.receipts = DOMAIN b.receipts
           /\ \A s \in DOMAIN b.receipts :
                /\ d.receipts[s].invoice = b.receipts[s].invoice /\ d.receipts[s].ref = b.receipts[s].ref
                /\ d.receipts[s].refunded \in 0 .. d.receipts[s].amount
           /\ d.paid = SumFunction(Nets(d))
           /\ Refunded(d) = Refunded(b) + amount
           /\ \A j : j # b.receipts[r].invoice => PaidAmount(d, j) = PaidAmount(b, j)
<1> DEFINE S == DOMAIN b.receipts
           old == b.receipts[r]
           row == [old EXCEPT !.refunded = old.refunded + amount]
<1>1. /\ b.receipts \in Seq(ReceiptRow) /\ S = 1 .. Len(b.receipts) /\ old \in ReceiptRow
      /\ IsFiniteSet(S) /\ \A s \in S : b.receipts[s] \in ReceiptRow
  BY NetsTyped, RefundedTyped DEF BillRows, BillRow
<1>2. old.amount \in Int /\ old.refunded \in 0 .. old.amount /\ amount <= old.amount - old.refunded
  BY <1>1 DEF BillRows, ReceiptRow, Net
<1>3. /\ row \in ReceiptRow /\ row.invoice = old.invoice /\ row.ref = old.ref
      /\ row.amount = old.amount /\ row.refunded = old.refunded + amount
      /\ row.refunded \in 0 .. row.amount
  <2>1. old.refunded + amount \in Int /\ old.refunded + amount \in 0 .. old.amount
    BY <1>2
  <2>2. QED
    BY <1>1, <2>1 DEF ReceiptRow
<1>4. d.receipts = [b.receipts EXCEPT ![r] = row]
  BY DEF WithRefund
<1> HIDE DEF row
<1>5. /\ d.receipts \in Seq(ReceiptRow) /\ DOMAIN d.receipts = S
      /\ d.receipts[r] = row /\ \A s \in S \ {r} : d.receipts[s] = b.receipts[s]
  BY <1>1, <1>3, <1>4
<1>6. \A s \in S : /\ d.receipts[s].invoice = b.receipts[s].invoice /\ d.receipts[s].ref = b.receipts[s].ref
                   /\ d.receipts[s].refunded \in 0 .. d.receipts[s].amount
  <2> TAKE s \in S
  <2>1. CASE s = r
    BY <1>3, <1>5, <2>1
  <2>2. CASE s # r
    BY <1>5, <2>2 DEF BillRows
  <2>3. QED
    BY <2>1, <2>2
<1>7. /\ \A s \in S \ {r} : Nets(d)[s] = Nets(b)[s] /\ RefundedBy(d)[s] = RefundedBy(b)[s]
      /\ Nets(d)[r] = Nets(b)[r] - amount /\ RefundedBy(d)[r] = RefundedBy(b)[r] + amount
  <2>1. \A s \in S \ {r} : Nets(d)[s] = Nets(b)[s] /\ RefundedBy(d)[s] = RefundedBy(b)[s]
    BY <1>5 DEF Nets, RefundedBy
  <2>2. Nets(d)[r] = row.amount - row.refunded /\ Nets(b)[r] = old.amount - old.refunded
    BY <1>5 DEF Nets, Net
  <2>3. RefundedBy(d)[r] = row.refunded /\ RefundedBy(b)[r] = old.refunded
    BY <1>5 DEF RefundedBy
  <2>4. QED
    BY <1>2, <1>3, <2>1, <2>2, <2>3
<1>8. \A s \in S : Nets(b)[s] \in Nat /\ RefundedBy(b)[s] \in Nat
  BY NetsTyped, RefundedTyped
<1>9. \A s \in S : Nets(d)[s] \in Int /\ RefundedBy(d)[s] \in Int
  BY <1>7, <1>8
<1>10. /\ SumFunction(Nets(b)) = SumFunctionOnSet(Nets(b), S)
       /\ SumFunctionOnSet(Nets(b), S) \in Int
       /\ Refunded(b) = SumFunctionOnSet(RefundedBy(b), S) /\ Refunded(b) \in Nat
  BY <1>1, <1>8, NetsTyped, RefundedTyped, SumInt
<1>11. SumFunction(Nets(d)) = SumFunctionOnSet(Nets(d), S) /\ Refunded(d) = SumFunctionOnSet(RefundedBy(d), S)
  BY <1>5 DEF SumFunction, Nets, Refunded, RefundedBy
<1> HIDE DEF S
<1>12. r \in S
  BY DEF S
<1>13. SumFunctionOnSet(Nets(d), S) = SumFunctionOnSet(Nets(b), S) + Nets(d)[r] - Nets(b)[r]
  <2>1. IsFiniteSet(S)
    BY <1>1
  <2>2. \A s \in S : Nets(b)[s] \in Int /\ Nets(d)[s] \in Int
    BY <1>8, <1>9
  <2>3. \A s \in S \ {r} : Nets(d)[s] = Nets(b)[s]
    BY <1>7
  <2>4. QED
    BY ONLY <1>12, <2>1, <2>2, <2>3, SumChanged
<1>14. SumFunctionOnSet(RefundedBy(d), S) = SumFunctionOnSet(RefundedBy(b), S) + RefundedBy(d)[r] - RefundedBy(b)[r]
  <2>1. IsFiniteSet(S)
    BY <1>1
  <2>2. \A s \in S : RefundedBy(b)[s] \in Int /\ RefundedBy(d)[s] \in Int
    BY <1>8, <1>9
  <2>3. \A s \in S \ {r} : RefundedBy(d)[s] = RefundedBy(b)[s]
    BY <1>7
  <2>4. QED
    BY ONLY <1>12, <2>1, <2>2, <2>3, SumChanged
<1>15. d.paid = SumFunction(Nets(d))
  BY <1>7, <1>8, <1>10, <1>11, <1>12, <1>13 DEF WithRefund
<1>16. Refunded(d) = Refunded(b) + amount
  BY <1>7, <1>8, <1>10, <1>11, <1>12, <1>14
<1>17. ASSUME NEW j, j # old.invoice PROVE PaidAmount(d, j) = PaidAmount(b, j)
  <2>1. ReceiptsOf(d, j) = ReceiptsOf(b, j) /\ ReceiptsOf(b, j) \subseteq S \ {r}
    BY <1>5, <1>6, <1>17 DEF ReceiptsOf, S
  <2>2. \A s \in ReceiptsOf(b, j) : Nets(d)[s] = Nets(b)[s]
    BY <1>7, <2>1
  <2>3. QED
    BY <2>1, <2>2, PaidElsewhere
<1>18. QED
  BY <1>5, <1>6, <1>15, <1>16, <1>17 DEF S

LEMMA RefundedGood ==
    ASSUME NEW b, Good(b), NEW d \in BillRow, NEW r \in DOMAIN b.receipts,
           NEW amount \in Nat, amount <= Net(b.receipts[r]), WithRefund(b, d, r, amount),
           NEW c, c = Synced(d, b.receipts[r].invoice)
    PROVE  /\ Good(c) /\ Frozen(b, c) /\ LinesKept(b, c)
           /\ Refunded(c) = Refunded(b) + amount /\ c.charges = b.charges
<1>1. /\ b \in BillRow /\ BillRows(b) /\ GatewayOnce(b) /\ b.paid = SumFunction(Nets(b))
      /\ \A j \in Live(b) : Matches(b, j)
  BY DEF Good, BillRows
<1>2. PICK i : i = b.receipts[r].invoice
  OBVIOUS
<1>3. i \in Invoices(b) /\ c = Synced(d, i)
  BY <1>1, <1>2 DEF BillRows
<1>4. /\ d.receipts \in Seq(ReceiptRow) /\ DOMAIN d.receipts = DOMAIN b.receipts
      /\ \A s \in DOMAIN b.receipts :
           /\ d.receipts[s].invoice = b.receipts[s].invoice /\ d.receipts[s].ref = b.receipts[s].ref
           /\ d.receipts[s].refunded \in 0 .. d.receipts[s].amount
      /\ d.paid = SumFunction(Nets(d))
      /\ Refunded(d) = Refunded(b) + amount
      /\ \A j : j # i => PaidAmount(d, j) = PaidAmount(b, j)
  BY <1>1, <1>2, RefundSums
<1>5. d.invoices = b.invoices /\ d.charges = b.charges /\ d.status = b.status
  BY DEF WithRefund
<1>6. Invoices(d) = Invoices(b) /\ Live(d) = Live(b)
  BY <1>5 DEF Invoices, Live
<1>7. BillRows(d)
  <2>1. \A s \in DOMAIN d.receipts :
          d.receipts[s].invoice \in Invoices(d) /\ d.receipts[s].refunded \in 0 .. d.receipts[s].amount
    BY <1>1, <1>4, <1>6 DEF BillRows
  <2>2. QED
    BY <1>1, <1>5, <2>1 DEF BillRows
<1>8. GatewayOnce(d)
  BY <1>1, <1>4, <1>5 DEF GatewayOnce
<1>9. \A j \in Live(d) \ {i} : Matches(d, j)
  <2> TAKE j \in Live(d) \ {i}
  <2>1. Matches(b, j) /\ PaidAmount(d, j) = PaidAmount(b, j) /\ d.invoices[j] = b.invoices[j]
    BY <1>1, <1>4, <1>5, <1>6
  <2>2. QED
    BY <2>1 DEF Matches
<1>10. /\ Good(c)
       /\ Invoices(c) = Invoices(d) /\ Live(c) = Live(d)
       /\ \A j \in Invoices(d) \ {i} : c.invoices[j] = d.invoices[j]
       /\ Restated(c.invoices[i], d.invoices[i])
       /\ c.receipts = d.receipts /\ c.status = d.status /\ c.charges = d.charges
  <2>1. i \in Invoices(d)
    BY <1>3, <1>6
  <2>2. QED
    BY ONLY <1>3, <1>4, <1>7, <1>8, <1>9, <2>1, SyncedGood
<1>11. Refunded(c) = Refunded(b) + amount
  <2>1. Refunded(c) = Refunded(d)
    BY ONLY <1>10, PaidByReceipts
  <2>2. QED
    BY <1>4, <2>1
<1>12. /\ b.invoices[i] \in InvoiceRow /\ c.invoices[i] = [b.invoices[i] EXCEPT !.status = c.invoices[i].status]
       /\ \A j \in Invoices(b) \ {i} : c.invoices[j] = b.invoices[j] /\ b.invoices[j] \in InvoiceRow
  BY <1>1, <1>3, <1>5, <1>6, <1>10, InvoicesTyped DEF Restated
<1>13. Frozen(b, c)
  <2>1. \A row \in InvoiceRow : \A status : row.status = "PAID" =>
          [[row EXCEPT !.status = status] EXCEPT !.status = "PAID"] = row
    BY DEF InvoiceRow, InvoiceRecord
  <2>2. \A row \in InvoiceRow : row.status = "PAID" => [row EXCEPT !.status = "PAID"] = row
    BY DEF InvoiceRow, InvoiceRecord
  <2> SUFFICES ASSUME NEW j \in Invoices(b), b.invoices[j].status = "PAID"
               PROVE  [c.invoices[j] EXCEPT !.status = "PAID"] = b.invoices[j]
    BY DEF Frozen
  <2>3. CASE j = i
    BY <1>12, <2>1, <2>3
  <2>4. CASE j # i
    BY <1>12, <2>2, <2>4
  <2>5. QED
    BY <2>3, <2>4
<1>14. LinesKept(b, c)
  <2>1. [b.invoices[i] EXCEPT !.status = c.invoices[i].status].lines = b.invoices[i].lines
    BY <1>12 DEF InvoiceRow, InvoiceRecord
  <2>2. \A j \in Live(b) : c.invoices[j].lines = b.invoices[j].lines
    BY <1>12, <2>1 DEF Live
  <2>3. QED
    BY <1>6, <1>10, <2>2 DEF LinesKept, Live
<1>15. QED
  BY <1>5, <1>10, <1>11, <1>13, <1>14

-----------------------------------------------------------------------------
(* The bill between two requests. *)

\* At most one refund is about to be written: it holds the booking's lock, and
\* its receipt and the policy it was quoted under still allow the amount.
RefundsHeld ==
    /\ refund \in [Requests -> [receipt : Nat, amount : Int, late : BOOLEAN]]
    /\ late \in BOOLEAN
    /\ \A q, p \in Requests : refund[q] # Idle /\ refund[p] # Idle => q = p
    /\ \A q \in Requests : refund[q] # Idle =>
         /\ refund[q].receipt \in DOMAIN bill.receipts
         /\ 0 < refund[q].amount
         /\ refund[q].amount <= Net(bill.receipts[refund[q].receipt])
         /\ refund[q].amount <= Allowance(bill, refund[q].late)

InvoicingInv ==
    /\ Good(bill)
    /\ Covered(bill)
    /\ charged \in Nat
    /\ RefundsHeld

\* A request writes the refund it was quoted for, within that quote.
WrittenAsQuoted ==
    \E q \in Requests : /\ refund[q] # Idle /\ refund'[q] = Idle
                       /\ Refunded(bill') <= Eligible(bill, refund[q].late)

\* What a step may never do to paid invoices and to refunds.
Lawful ==
    /\ Frozen(bill, bill')
    /\ Refunded(bill') > Refunded(bill) => WrittenAsQuoted

\* A request that holds no refund back and refunds nothing.
LEMMA RequestStep ==
    ASSUME Unlocked, RefundsHeld, UNCHANGED <<refund, late>>, charged' \in Nat,
           Good(bill'), Covered(bill'), Good(bill), Frozen(bill, bill'), Refunded(bill') = Refunded(bill)
    PROVE  InvoicingInv' /\ Lawful
<1>1. RefundsHeld'
  BY DEF RefundsHeld, Unlocked
<1>2. Refunded(bill) \in Nat
  BY RefundedTyped DEF Good
<1>3. QED
  BY <1>1, <1>2 DEF InvoicingInv, Lawful

LEMMA FollowingStep ==
    ASSUME InvoicingInv, Unlocked, UNCHANGED <<charged, refund, late>>,
           Good(bill'), Follows(bill, bill'), LinesKept(bill, bill')
    PROVE  InvoicingInv' /\ Lawful
<1>1. /\ Good(bill) /\ RefundsHeld /\ charged \in Nat /\ Covered(bill)
      /\ BillRows(bill) /\ BillRows(bill') /\ bill \in BillRow
  BY DEF InvoicingInv, Good, BillRows
<1>2. Refunded(bill') = Refunded(bill) /\ bill'.charges = bill.charges
  BY DEF Follows
<1>3. Covered(bill')
  BY <1>1, <1>2, CoveredKept
<1>4. Frozen(bill, bill')
  BY <1>1, FollowsFrozen
<1>5. QED
  BY <1>1, <1>2, <1>3, <1>4, RequestStep

LEMMA RepricedGood ==
    ASSUME NEW b, Good(b), NEW charges \in Charges, NEW c, c = Repriced(b, charges)
    PROVE  Good(c) /\ c.invoices = b.invoices /\ Refunded(c) = Refunded(b) /\ c.charges = charges
<1>1. b \in BillRow /\ b.rate \in Nat /\ b.discount \in Int
  BY DEF Good, BillRows, BillRow
<1>2. charges \in [Keys -> Nat]
  BY RateTypes DEF Charges
<1> DEFINE grand == Sum(charges) * (1 + b.rate) - b.discount
<1>3. grand \in Int
  <2>1. Sum(charges) \in Int
    BY <1>2, SumOfLines
  <2>2. QED
    BY <1>1, <2>1
<1>4. c = [b EXCEPT !.charges = charges, !.grand = grand]
  BY DEF Repriced
<1> HIDE DEF grand
<1>5. /\ c \in BillRow /\ c.invoices = b.invoices /\ c.receipts = b.receipts /\ c.paid = b.paid
      /\ c.status = b.status /\ c.charges = charges
  BY <1>1, <1>3, <1>4 DEF BillRow
<1>6. Good(c) /\ Refunded(c) = Refunded(b)
  BY ONLY Good(b), <1>5, SameBooks
<1>7. QED
  BY <1>5, <1>6

\* The manual rows a form sends, or those it keeps, are a sum.
LEMMA RowsTyped ==
    ASSUME NEW b, Good(b), NEW adjustments \in Adjustments
    PROVE  adjustments.manual \in Int /\ KeptRows(b).manual \in Int
<1>1. adjustments.manual \in Int
  <2>1. CASE adjustments = NoForm
    BY <2>1 DEF NoForm
  <2>2. CASE adjustments \in [supplied : {TRUE}, manual : Manuals]
    <3>1. adjustments.manual \in Manuals /\ Manuals \subseteq Int
      BY <2>2, RateTypes
    <3>2. QED
      BY <3>1
  <2>3. QED
    BY <2>1, <2>2 DEF Adjustments
<1>2. CASE Editable(b) = {}
  BY <1>1, <1>2 DEF KeptRows, NoForm
<1>3. CASE Editable(b) # {}
  <2>1. Editable(b) \subseteq Invoices(b) /\ b \in BillRow
    BY DEF Editable, Good, BillRows
  <2>2. IsFiniteSet(Editable(b)) /\ Editable(b) \subseteq Int
    BY <2>1, InvoicesTyped, FS_Subset
  <2>3. Min(Editable(b)) \in Invoices(b)
    BY <1>3, <2>1, <2>2, LeastOne
  <2>4. b.invoices[Min(Editable(b))].manual \in Int
    BY <2>1, <2>3, InvoicesTyped, InvoiceFields
  <2>5. KeptRows(b).manual = IF b.invoices[Min(Editable(b))].adjusted
                             THEN b.invoices[Min(Editable(b))].manual ELSE 0
    BY <1>3 DEF KeptRows
  <2>6. QED
    BY <1>1, <2>4, <2>5
<1>4. QED
  BY <1>2, <1>3

LEMMA FormStep ==
    ASSUME InvoicingInv, NEW charges \in Charges, NEW adjustments \in Adjustments,
           NEW deposit \in {NoPayment, 0, 1}, SaveCheckInForm(charges, adjustments, deposit)
    PROVE  InvoicingInv' /\ Lawful
<1>1. PICK rows, priced :
        /\ rows = IF adjustments.supplied THEN adjustments ELSE KeptRows(bill)
        /\ priced = Repriced(bill, charges)
  OBVIOUS
<1>2. /\ Unlocked /\ UNCHANGED <<charged, refund, late>>
      /\ \E b \in ChargesSynced(priced) :
           \E c \in IF rows.supplied THEN Adjusted(b, rows.manual) ELSE {b} :
             bill' \in IF deposit = NoPayment THEN {c} ELSE PaidAtDesk(c, deposit)
  BY <1>1 DEF SaveCheckInForm
<1>3. PICK b \in ChargesSynced(priced) :
        \E c \in IF rows.supplied THEN Adjusted(b, rows.manual) ELSE {b} :
          bill' \in IF deposit = NoPayment THEN {c} ELSE PaidAtDesk(c, deposit)
  BY <1>2
<1>4. PICK c \in IF rows.supplied THEN Adjusted(b, rows.manual) ELSE {b} :
        bill' \in IF deposit = NoPayment THEN {c} ELSE PaidAtDesk(c, deposit)
  BY <1>3
<1>5. Good(bill) /\ bill \in BillRow /\ RefundsHeld /\ charged \in Nat
  BY DEF InvoicingInv, Good, BillRows
<1>6. Good(priced) /\ priced.invoices = bill.invoices /\ Refunded(priced) = Refunded(bill)
  BY <1>1, <1>5, RepricedGood
<1>7. Good(b) /\ Follows(priced, b) /\ Covered(b)
  BY <1>3, <1>6, ChargesSyncedGood
<1>8. Good(c) /\ Follows(b, c) /\ LinesKept(b, c)
  <2>1. CASE rows.supplied
    <3>1. rows.manual \in Int
      BY <1>1, <1>5, RowsTyped
    <3>2. c \in Adjusted(b, rows.manual)
      BY <1>4, <2>1
    <3>3. QED
      BY <1>7, <3>1, <3>2, AdjustedGood
  <2>2. CASE ~rows.supplied
    <3>1. c = b
      BY <1>4, <2>2
    <3>2. Follows(b, b) /\ LinesKept(b, b)
      BY DEF Follows, LinesKept, Live
    <3>3. QED
      BY <1>7, <3>1, <3>2
  <2>3. QED
    BY <2>1, <2>2
<1>9. Good(bill') /\ Follows(c, bill') /\ LinesKept(c, bill')
  <2>1. CASE deposit = NoPayment
    <3>1. bill' = c
      BY <1>4, <2>1
    <3>2. Follows(c, c) /\ LinesKept(c, c)
      BY DEF Follows, LinesKept, Live
    <3>3. QED
      BY <1>8, <3>1, <3>2
  <2>2. CASE deposit # NoPayment
    <3>1. bill' \in PaidAtDesk(c, deposit) /\ deposit \in Int
      BY <1>4, <2>2 DEF NoPayment
    <3>2. QED
      BY <1>8, <3>1, PaidAtDeskGood
  <2>3. QED
    BY <2>1, <2>2
<1>10. Covered(bill')
  <2>1. BillRows(b) /\ BillRows(c) /\ BillRows(bill')
    BY <1>7, <1>8, <1>9 DEF Good
  <2>2. c.charges = b.charges /\ bill'.charges = c.charges
    BY <1>8, <1>9 DEF Follows
  <2>3. Covered(c)
    BY <1>7, <1>8, <2>1, <2>2, CoveredKept
  <2>4. QED
    BY <1>9, <2>1, <2>2, <2>3, CoveredKept
<1>11. Follows(priced, bill')
  <2>1. Follows(priced, c)
    BY <1>7, <1>8, FollowsTwice
  <2>2. QED
    BY <1>9, <2>1, FollowsTwice
<1>12. Frozen(bill, bill') /\ Refunded(bill') = Refunded(bill)
  <2>1. priced \in BillRow
    BY <1>6 DEF Good, BillRows
  <2>2. Frozen(priced, bill')
    BY <1>11, <2>1, FollowsFrozen
  <2>3. QED
    BY <1>6, <1>11, <2>2 DEF Frozen, Invoices, Follows
<1>13. QED
  BY <1>2, <1>5, <1>9, <1>10, <1>12, RequestStep

LEMMA PayStep ==
    ASSUME InvoicingInv, NEW i \in Invoices(bill), NEW amount \in {1, Balance(bill, i)}, RecordPayment(i, amount)
    PROVE  InvoicingInv' /\ Lawful
<1>1. /\ Unlocked /\ UNCHANGED <<charged, refund, late>> /\ bill' \in Recorded(bill, i, amount, "desk")
  BY DEF RecordPayment
<1>2. Good(bill) /\ amount \in Int
  <2>1. Good(bill)
    BY DEF InvoicingInv
  <2>2. Balance(bill, i) \in Int
    BY <2>1, BalanceTyped
  <2>3. QED
    BY <2>1, <2>2
<1>3. Good(bill') /\ Follows(bill, bill') /\ LinesKept(bill, bill')
  BY <1>1, <1>2, RecordedGood
<1>4. QED
  BY <1>1, <1>3, FollowingStep

LEMMA BillStep ==
    ASSUME InvoicingInv, NEW discount \in {0, 1}, CreateBookingInvoice(1, discount)
    PROVE  InvoicingInv' /\ Lawful
<1>1. PICK invoice : invoice = Invoice("service", "PMS", NoLines, 1, PmsRate, discount)
  OBVIOUS
<1>2. invoice \in InvoiceRow /\ invoice.status = "OPEN"
  <2>1. /\ "service" \in Kinds /\ "PMS" \in Scopes /\ NoLines \in [Keys -> Nat]
        /\ 1 \in Nat /\ PmsRate \in Nat /\ discount \in Nat
    BY RateTypes DEF Kinds, Scopes, NoLines
  <2>2. QED
    BY ONLY <1>1, <2>1, InvoiceTyped
<1>3. /\ Unlocked /\ UNCHANGED <<charged, refund, late>>
      /\ \E b \in Added(bill, invoice) :
           bill' = [b EXCEPT !.grand = b.grand + b.invoices[Len(b.invoices)].total,
                             !.discount = b.discount + discount]
  BY <1>1 DEF CreateBookingInvoice
<1>4. PICK b \in Added(bill, invoice) :
        bill' = [b EXCEPT !.grand = b.grand + b.invoices[Len(b.invoices)].total,
                          !.discount = b.discount + discount]
  BY <1>3
<1>5. Good(bill)
  BY DEF InvoicingInv
<1>6. /\ Good(b) /\ Follows(bill, b) /\ LinesKept(bill, b)
      /\ b.invoices[Len(b.invoices)] = invoice
  BY <1>2, <1>4, <1>5, AddedGood
<1>7. PICK grand, off : grand = b.grand + b.invoices[Len(b.invoices)].total /\ off = b.discount + discount
  OBVIOUS
<1>8. b \in BillRow /\ grand \in Int /\ off \in Nat
  <2>1. b \in BillRow /\ b.grand \in Int /\ b.discount \in Nat
    BY <1>6 DEF Good, BillRows, BillRow
  <2>2. invoice.total \in Int
    BY <1>2, InvoiceFields
  <2>3. QED
    BY <1>6, <1>7, <2>1, <2>2
<1>9. bill' = [b EXCEPT !.grand = grand, !.discount = off]
  BY <1>4, <1>7
<1>10. /\ bill' \in BillRow /\ bill'.invoices = b.invoices /\ bill'.receipts = b.receipts
       /\ bill'.paid = b.paid /\ bill'.status = b.status /\ bill'.charges = b.charges
  BY <1>8, <1>9 DEF BillRow
<1>11. Good(bill') /\ Invoices(bill') = Invoices(b) /\ Refunded(bill') = Refunded(b) /\ LinesKept(b, bill')
  BY ONLY <1>6, <1>10, SameBooks
<1>12. Follows(bill, bill') /\ LinesKept(bill, bill')
  <2>1. Follows(b, bill')
    BY <1>10, <1>11 DEF Follows
  <2>2. QED
    BY <1>6, <1>11, <2>1, FollowsTwice, LinesKeptTwice
<1>13. QED
  BY <1>3, <1>11, <1>12, FollowingStep

\* Cancel, Expire, CheckIn and CheckOut.
LEMMA MoveStep ==
    ASSUME InvoicingInv, NEW from, NEW to \in {"CONFIRMED", "CHECKED_IN", "CHECKED_OUT", "CANCELED", "EXPIRED"},
           Move(from, to)
    PROVE  InvoicingInv' /\ Lawful
<1>1. /\ Unlocked /\ UNCHANGED <<charged, refund, late>> /\ bill' = [bill EXCEPT !.status = to]
  BY DEF Move
<1>2. Good(bill) /\ bill \in BillRow
  BY DEF InvoicingInv, Good, BillRows
<1>3. /\ bill' \in BillRow /\ bill'.invoices = bill.invoices /\ bill'.receipts = bill.receipts
      /\ bill'.paid = bill.paid /\ bill'.status # "PENDING_PAYMENT" /\ bill'.charges = bill.charges
  BY <1>1, <1>2 DEF BillRow
<1>4. /\ Good(bill') /\ Invoices(bill') = Invoices(bill) /\ Refunded(bill') = Refunded(bill)
      /\ LinesKept(bill, bill')
  BY ONLY <1>2, <1>3, SameBooks
<1>5. Follows(bill, bill')
  BY <1>3, <1>4 DEF Follows
<1>6. QED
  BY <1>1, <1>4, <1>5, FollowingStep

LEMMA PayAtGatewayStep ==
    ASSUME InvoicingInv, PayAtGateway
    PROVE  InvoicingInv' /\ Lawful
<1>1. UNCHANGED <<bill, late, refund>> /\ bill.grand > bill.paid /\ charged' = bill.grand - bill.paid
  BY DEF PayAtGateway
<1>2. Good(bill) /\ bill \in BillRow /\ bill.grand \in Int /\ bill.paid \in Int
  BY DEF InvoicingInv, Good, BillRows, BillRow
<1>3. charged' \in Nat
  BY <1>1, <1>2
<1>4. RefundsHeld'
  BY <1>1 DEF InvoicingInv, RefundsHeld, Allowance, Eligible
<1>5. Good(bill') /\ Covered(bill')
  BY <1>1 DEF InvoicingInv
<1>6. Frozen(bill, bill') /\ Refunded(bill') = Refunded(bill)
  <2>1. Follows(bill, bill)
    BY DEF Follows
  <2>2. QED
    BY <1>1, <1>2, <2>1, FollowsFrozen
<1>7. Refunded(bill) \in Nat
  BY <1>2, RefundedTyped DEF Good
<1>8. QED
  BY <1>3, <1>4, <1>5, <1>6, <1>7 DEF InvoicingInv, Lawful

LEMMA ReportStep ==
    ASSUME InvoicingInv, ReportPayment
    PROVE  InvoicingInv' /\ Lawful
<1>1. PICK i : i = Min(Outstanding(bill))
  OBVIOUS
<1>2. /\ Unlocked /\ UNCHANGED <<charged, refund, late>> /\ bill.status = "PENDING_PAYMENT"
      /\ Outstanding(bill) # {} /\ bill' \in Recorded(bill, i, charged, "gateway")
  BY <1>1 DEF ReportPayment
<1>3. Good(bill) /\ charged \in Int
  BY DEF InvoicingInv
<1>4. i \in Invoices(bill)
  BY <1>1, <1>2, <1>3, OutstandingOne
<1>5. Good(bill') /\ Follows(bill, bill') /\ LinesKept(bill, bill')
  BY <1>2, <1>3, <1>4, RecordedGood
<1>6. QED
  BY <1>2, <1>5, FollowingStep

LEMMA StartRefundStep ==
    ASSUME InvoicingInv, NEW q \in Requests, NEW r \in DOMAIN bill.receipts, NEW amount \in 1 .. MaxAmount,
           StartRefund(q, r, amount)
    PROVE  InvoicingInv' /\ Lawful
<1>1. /\ Unlocked /\ UNCHANGED <<bill, late, charged>>
      /\ amount <= Allowance(bill, late) /\ amount <= Net(bill.receipts[r])
      /\ refund' = [refund EXCEPT ![q] = [receipt |-> r, amount |-> amount, late |-> late]]
  BY DEF StartRefund, Lockable
<1>2. /\ Good(bill) /\ Covered(bill) /\ bill \in BillRow /\ RefundsHeld /\ charged \in Nat
      /\ BillRows(bill)
  BY DEF InvoicingInv, Good, BillRows
<1>3. r \in Nat /\ amount \in Int /\ amount > 0
  BY <1>2, NetsTyped
<1>4. RefundsHeld'
  <2>1. refund' \in [Requests -> [receipt : Nat, amount : Int, late : BOOLEAN]]
    BY <1>1, <1>2, <1>3 DEF RefundsHeld
  <2>2. refund'[q] = [receipt |-> r, amount |-> amount, late |-> late] /\ \A p \in Requests \ {q} : refund'[p] = Idle
    BY <1>1, <1>2 DEF RefundsHeld, Unlocked
  <2>3. Allowance(bill', refund'[q].late) = Allowance(bill, late)
    BY <1>1, <2>2
  <2>4. \A p, o \in Requests : refund'[p] # Idle /\ refund'[o] # Idle => p = o
    BY <2>2
  <2>5. /\ refund'[q].receipt \in DOMAIN bill'.receipts /\ 0 < refund'[q].amount
        /\ refund'[q].amount <= Net(bill'.receipts[refund'[q].receipt])
        /\ refund'[q].amount <= Allowance(bill', refund'[q].late)
    BY <1>1, <1>3, <2>2, <2>3
  <2>6. late' \in BOOLEAN
    BY <1>1, <1>2 DEF RefundsHeld
  <2>7. QED
    BY <2>1, <2>2, <2>4, <2>5, <2>6 DEF RefundsHeld
<1>5. Frozen(bill, bill')
  <2>1. Follows(bill, bill)
    BY DEF Follows
  <2>2. QED
    BY <1>1, <1>2, <2>1, FollowsFrozen
<1>6. Refunded(bill') = Refunded(bill) /\ Refunded(bill) \in Nat
  BY <1>1, <1>2, RefundedTyped
<1>7. QED
  BY <1>1, <1>2, <1>4, <1>5, <1>6 DEF InvoicingInv, Lawful

\* What is left of the allowance is what the policy still lets be refunded.
LEMMA AllowanceTyped ==
    ASSUME Good(bill), NEW passed \in BOOLEAN
    PROVE  /\ Eligible(bill, passed) \in Int /\ Refunded(bill) \in Nat
           /\ Allowance(bill, passed) \in Nat
           /\ Allowance(bill, passed) > 0 =>
                Allowance(bill, passed) = Eligible(bill, passed) - Refunded(bill)
<1>1. BillRows(bill) /\ bill \in BillRow /\ bill.paid \in Int /\ bill.charges \in Charges
  BY DEF Good, BillRows, BillRow
<1>2. bill.charges["room"] \in Int
  BY <1>1, RateTypes DEF Charges
<1>3. Refunded(bill) \in Nat
  BY <1>1, RefundedTyped
<1> DEFINE x == IF passed THEN 0 ELSE bill.charges["room"]
           y == bill.paid + Refunded(bill)
<1>4. x \in Int /\ y \in Int
  BY <1>1, <1>2, <1>3
<1>5. Eligible(bill, passed) = Min({x, y})
  BY DEF Eligible
<1> HIDE DEF x, y
<1>6. Eligible(bill, passed) \in Int
  BY <1>4, <1>5, LesserOfTwo
<1>7. Allowance(bill, passed) = IF Eligible(bill, passed) - Refunded(bill) >= 0
                              THEN Eligible(bill, passed) - Refunded(bill) ELSE 0
  BY <1>3, <1>6, GreaterOfTwo DEF Allowance
<1>8. QED
  BY <1>3, <1>6, <1>7

LEMMA WriteRefundStep ==
    ASSUME InvoicingInv, NEW q \in Requests, WriteRefund(q)
    PROVE  InvoicingInv' /\ Lawful
<1>1. /\ Good(bill) /\ Covered(bill) /\ bill \in BillRow /\ RefundsHeld /\ charged \in Nat
      /\ BillRows(bill) /\ bill.paid = SumFunction(Nets(bill))
  BY DEF InvoicingInv, Good, BillRows
<1>2. PICK r, amount : r = refund[q].receipt /\ amount = refund[q].amount
  OBVIOUS
<1>3. refund[q] # Idle /\ UNCHANGED <<late, charged>>
      /\ refund' = [refund EXCEPT ![q] = Idle]
  BY DEF WriteRefund
<1>4. /\ r \in DOMAIN bill.receipts /\ amount \in Nat /\ 0 < amount
      /\ amount <= Net(bill.receipts[r]) /\ amount <= Allowance(bill, refund[q].late)
  <2>1. /\ refund[q].receipt \in DOMAIN bill.receipts /\ 0 < refund[q].amount
        /\ refund[q].amount <= Net(bill.receipts[refund[q].receipt])
        /\ refund[q].amount <= Allowance(bill, refund[q].late)
    BY <1>1, <1>3 DEF RefundsHeld
  <2>2. refund[q].amount \in Int
    BY <1>1 DEF RefundsHeld
  <2>3. QED
    BY <1>2, <2>1, <2>2
<1>5. PICK paid, rows :
        /\ paid = Max({bill.paid - amount, 0})
        /\ rows = [bill.receipts EXCEPT ![r] =
                    [bill.receipts[r] EXCEPT !.refunded = bill.receipts[r].refunded + amount]]
  OBVIOUS
<1>6. PICK d : d = [bill EXCEPT !.receipts = rows, !.paid = paid]
  OBVIOUS
<1>7. bill' = Synced(d, bill.receipts[r].invoice)
  BY <1>2, <1>5, <1>6 DEF WriteRefund
<1>8. paid = bill.paid - amount /\ paid \in Int
  <2>1. bill.paid \in Int
    BY <1>1 DEF BillRow
  <2>2. /\ Nets(bill)[r] = Net(bill.receipts[r]) /\ Nets(bill)[r] \in Nat
        /\ Nets(bill)[r] <= bill.paid
    BY <1>1, <1>4, NetsTyped DEF Net
  <2>3. bill.paid - amount >= 0
    BY <1>4, <2>1, <2>2
  <2>4. bill.paid - amount \in Int /\ 0 \in Int
    BY <1>4, <2>1
  <2>5. Max({bill.paid - amount, 0}) = bill.paid - amount
    BY ONLY <2>3, <2>4, GreaterOfTwo
  <2>6. QED
    BY <1>5, <2>4, <2>5
<1>9. rows \in Seq(ReceiptRow)
  <2>1. bill.receipts \in Seq(ReceiptRow) /\ bill.receipts[r] \in ReceiptRow
    BY <1>1, <1>4, RefundedTyped DEF BillRow
  <2>2. bill.receipts[r].refunded + amount \in Int
    BY <1>4, <2>1 DEF ReceiptRow
  <2>3. [bill.receipts[r] EXCEPT !.refunded = bill.receipts[r].refunded + amount] \in ReceiptRow
    BY <2>1, <2>2 DEF ReceiptRow
  <2>4. QED
    BY <1>4, <1>5, <2>1, <2>3
<1>10. d \in BillRow /\ WithRefund(bill, d, r, amount)
  <2>1. /\ d \in BillRow /\ d.receipts = rows /\ d.paid = paid
        /\ d.invoices = bill.invoices /\ d.charges = bill.charges /\ d.status = bill.status
    BY <1>1, <1>6, <1>8, <1>9 DEF BillRow
  <2>2. QED
    BY <1>5, <1>8, <2>1 DEF WithRefund
<1>11. /\ Good(bill') /\ Frozen(bill, bill') /\ LinesKept(bill, bill')
       /\ Refunded(bill') = Refunded(bill) + amount /\ bill'.charges = bill.charges
  BY ONLY <1>1, <1>4, <1>7, <1>10, RefundedGood
<1>12. Covered(bill')
  BY <1>1, <1>11, CoveredKept DEF Good
<1>13. RefundsHeld'
  <2>1. \A p \in Requests : refund'[p] = Idle
    BY <1>1, <1>3 DEF RefundsHeld
  <2>2. refund' \in [Requests -> [receipt : Nat, amount : Int, late : BOOLEAN]]
    BY <1>1, <1>3 DEF RefundsHeld, Idle
  <2>3. late' \in BOOLEAN
    BY <1>1, <1>3 DEF RefundsHeld
  <2>4. QED
    BY <2>1, <2>2, <2>3 DEF RefundsHeld
<1>14. WrittenAsQuoted
  <2>1. refund[q].late \in BOOLEAN
    BY <1>1 DEF RefundsHeld
  <2>2. Refunded(bill') <= Eligible(bill, refund[q].late)
    BY <1>1, <1>4, <1>11, <2>1, AllowanceTyped
  <2>3. refund'[q] = Idle
    BY <1>1, <1>3 DEF RefundsHeld
  <2>4. QED
    BY <1>3, <2>2, <2>3 DEF WrittenAsQuoted
<1>15. QED
  BY <1>1, <1>3, <1>11, <1>12, <1>13, <1>14 DEF InvoicingInv, Lawful

LEMMA PassCutOffStep ==
    ASSUME InvoicingInv, PassCutOff
    PROVE  InvoicingInv' /\ Lawful
<1>1. UNCHANGED <<bill, charged, refund>> /\ late' = TRUE
  BY DEF PassCutOff
<1>2. Good(bill) /\ bill \in BillRow /\ Refunded(bill) \in Nat
  BY RefundedTyped DEF InvoicingInv, Good, BillRows
<1>3. Follows(bill, bill')
  BY <1>1 DEF Follows
<1>4. Frozen(bill, bill')
  BY <1>2, <1>3, FollowsFrozen
<1>5. InvoicingInv'
  BY <1>1 DEF InvoicingInv, RefundsHeld, Allowance, Eligible
<1>6. QED
  BY <1>1, <1>2, <1>4, <1>5 DEF Lawful

LEMMA IdleStep ==
    ASSUME InvoicingInv, UNCHANGED vars
    PROVE  InvoicingInv' /\ Lawful
<1>1. UNCHANGED <<bill, late, charged, refund>>
  BY DEF vars
<1>2. Good(bill) /\ bill \in BillRow /\ Refunded(bill) \in Nat
  BY RefundedTyped DEF InvoicingInv, Good, BillRows
<1>3. Follows(bill, bill')
  BY <1>1 DEF Follows
<1>4. Frozen(bill, bill')
  BY <1>2, <1>3, FollowsFrozen
<1>5. InvoicingInv'
  BY <1>1 DEF InvoicingInv, RefundsHeld, Allowance, Eligible
<1>6. QED
  BY <1>1, <1>2, <1>4, <1>5 DEF Lawful

-----------------------------------------------------------------------------
(* The theorems. *)

LEMMA NewBillGood ==
    ASSUME NEW source \in Scopes, NEW status \in {"PENDING_PAYMENT", "CONFIRMED"}, NEW charges \in Charges,
           NEW b, b = NewBill(source, status, charges)
    PROVE  Good(b) /\ Covered(b)
<1>1. PICK rate, original :
        /\ rate = IF source = "OTA" THEN OtaRate ELSE PmsRate
        /\ original = Invoice("initial", source, charges, 0, rate, 0)
  OBVIOUS
<1>2. charges \in [Keys -> Nat] /\ rate \in Nat /\ "initial" \in Kinds /\ 0 \in Nat
  BY <1>1, RateTypes DEF Charges, Kinds
<1>3. /\ original \in InvoiceRow /\ original.status = "OPEN" /\ original.kind = "initial"
      /\ original.lines = charges /\ original.total \in Int
  BY <1>1, <1>2, InvoiceTyped, InvoiceFields
<1>4. b = [status |-> status, charges |-> charges, rate |-> rate, discount |-> 0,
           grand |-> original.total, paid |-> 0, invoices |-> <<original>>, receipts |-> <<>>]
  BY <1>1 DEF NewBill
<1>5. <<original>> \in Seq(InvoiceRow) /\ <<>> \in Seq(ReceiptRow)
  BY <1>3
<1>6. b \in BillRow
  BY <1>2, <1>3, <1>4, <1>5 DEF BillRow
<1>7. /\ b.invoices = <<original>> /\ b.receipts = <<>> /\ b.paid = 0 /\ b.charges = charges
      /\ Invoices(b) = {1} /\ DOMAIN b.receipts = {} /\ b.invoices[1] = original /\ Len(b.invoices) = 1
  BY <1>3, <1>4 DEF Invoices
<1>8. BillRows(b)
  BY <1>3, <1>6, <1>7, RateTypes DEF BillRows
<1>9. b.paid = SumFunction(Nets(b))
  <2>1. DOMAIN Nets(b) = {}
    BY <1>7 DEF Nets
  <2>2. QED
    BY <1>7, <2>1, SumEmpty DEF SumFunction
<1>10. ASSUME NEW i \in Live(b) PROVE Matches(b, i)
  <2>1. ReceiptsOf(b, i) = {}
    BY <1>7 DEF ReceiptsOf
  <2>2. PaidAmount(b, i) = 0
    BY <2>1, SumEmpty DEF PaidAmount
  <2>3. b.invoices[i].status = "OPEN"
    BY <1>3, <1>7 DEF Live
  <2>4. QED
    BY <2>2, <2>3 DEF Matches
<1>11. GatewayOnce(b)
  BY <1>7 DEF GatewayOnce
<1>12. Good(b)
  BY <1>8, <1>9, <1>10, <1>11 DEF Good
<1>13. ASSUME NEW k \in Keys PROVE Billed(b, {}, k) >= b.charges[k]
  <2>1. 1 \in Live(b)
    BY <1>3, <1>7 DEF Live
  <2>2. Billed(b, {}, k) = b.invoices[1].lines[k] + Billed(b, {1}, k) /\ Billed(b, {1}, k) \in Nat
    BY <1>8, <2>1, BilledSplit, LiveTyped
  <2>3. b.invoices[1].lines[k] = b.charges[k] /\ b.charges[k] \in Nat
    BY <1>2, <1>3, <1>7
  <2>4. QED
    BY <2>2, <2>3
<1>14. QED
  BY <1>12, <1>13 DEF Covered

LEMMA InitInv == Init => InvoicingInv
<1> SUFFICES ASSUME Init PROVE InvoicingInv
  OBVIOUS
<1>1. PICK c \in Charges : bill \in {NewBill("OTA", "PENDING_PAYMENT", c), NewBill("PMS", "CONFIRMED", c)}
  BY DEF Init
<1>2. Good(bill) /\ Covered(bill)
  <2>1. CASE bill = NewBill("OTA", "PENDING_PAYMENT", c)
    BY <2>1, NewBillGood DEF Scopes
  <2>2. CASE bill = NewBill("PMS", "CONFIRMED", c)
    BY <2>2, NewBillGood DEF Scopes
  <2>3. QED
    BY <1>1, <2>1, <2>2
<1>3. charged \in Nat
  BY DEF Init
<1>4. RefundsHeld
  <2>1. refund = [q \in Requests |-> Idle] /\ late = FALSE
    BY DEF Init
  <2>2. Idle \in [receipt : Nat, amount : Int, late : BOOLEAN]
    BY DEF Idle
  <2>3. QED
    BY <2>1, <2>2 DEF RefundsHeld
<1>5. QED
  BY <1>2, <1>3, <1>4 DEF InvoicingInv

\* Every step keeps the invariant, and is lawful.
LEMMA EveryStep == InvoicingInv /\ [Next]_vars => InvoicingInv' /\ Lawful
<1> SUFFICES ASSUME InvoicingInv, [Next]_vars PROVE InvoicingInv' /\ Lawful
  OBVIOUS
<1>1. CASE SaveForm
  BY <1>1, FormStep DEF SaveForm
<1>2. CASE Pay
  BY <1>2, PayStep DEF Pay
<1>3. CASE Bill
  BY <1>3, BillStep DEF Bill
<1>4. CASE Cancel
  BY <1>4, MoveStep DEF Cancel
<1>5. CASE Expire
  BY <1>5, MoveStep DEF Expire
<1>6. CASE CheckIn
  BY <1>6, MoveStep DEF CheckIn
<1>7. CASE CheckOut
  BY <1>7, MoveStep DEF CheckOut
<1>8. CASE PayAtGateway
  BY <1>8, PayAtGatewayStep
<1>9. CASE ReportPayment
  BY <1>9, ReportStep
<1>10. ASSUME NEW q \in Requests, Refunds(q) PROVE InvoicingInv' /\ Lawful
  BY <1>10, StartRefundStep, WriteRefundStep DEF Refunds
<1>11. CASE PassCutOff
  BY <1>11, PassCutOffStep
<1>12. CASE UNCHANGED vars
  BY <1>12, IdleStep
<1>13. QED
  BY <1>1, <1>2, <1>3, <1>4, <1>5, <1>6, <1>7, <1>8, <1>9, <1>10, <1>11, <1>12 DEF Next

\* Between any two requests the books of the booking are in order, its charges
\* are on invoices that count, and at most one refund is about to be written,
\* for a receipt and an amount that are still allowed: _sync_invoice_status
\* follows every write, and refund_payment locks the booking.
THEOREM InvoicingInvariant == Spec => []InvoicingInv
<1>1. InvoicingInv /\ [Next]_vars => InvoicingInv'
  BY EveryStep
<1>2. QED
  BY <1>1, InitInv, PTL DEF Spec

\* The amount paid of a booking is what its receipts hold, and each of its
\* invoices has the status its receipts call for, after every mix of check-in
\* forms, payments, refunds and extra invoices (_sync_invoice_status).
THEOREM BooksBalance == Spec => []BalancesMatch
<1>1. InvoicingInv => BalancesMatch
  <2> SUFFICES ASSUME InvoicingInv PROVE BalancesMatch
    OBVIOUS
  <2>1. /\ Good(bill) /\ BillRows(bill) /\ bill \in BillRow
        /\ \A i \in Live(bill) : Matches(bill, i)
        /\ bill.paid = SumFunction(Nets(bill))
    BY DEF InvoicingInv, Good, BillRows
  <2>2. \A i \in Invoices(bill) : bill.invoices[i].status \in {"OPEN", "PARTIALLY_PAID", "PAID", "VOID"}
    BY <2>1, InvoicesTyped, InvoiceFields DEF Statuses
  <2>3. InvoicingTypeOK
    BY <2>1, <2>2 DEF InvoicingTypeOK, BillRows, BillRow
  <2>4. QED
    BY <2>1, <2>3 DEF BalancesMatch, Matches
<1>2. QED
  BY <1>1, InvoicingInvariant, PTL

\* Every charge of the stay is on an invoice that counts, whatever was paid,
\* voided or locked before the charge was added (sync_booking_charge_invoices).
THEOREM ChargesAllInvoiced == Spec => []EveryChargeInvoiced
<1>1. InvoicingInv => EveryChargeInvoiced
  BY DEF InvoicingInv, Covered, EveryChargeInvoiced
<1>2. QED
  BY <1>1, InvoicingInvariant, PTL

\* Core may report one payment any number of times, before and after refunds:
\* CorePaymentSuccessView records it once.
THEOREM GatewayRecordedOnce == Spec => []RecordedOnce
<1>1. InvoicingInv => RecordedOnce
  <2> SUFFICES ASSUME InvoicingInv PROVE RecordedOnce
    OBVIOUS
  <2> DEFINE S == {r \in DOMAIN bill.receipts : bill.receipts[r].ref = "gateway"}
  <2>1. \A r, s \in S : r = s
    BY DEF InvoicingInv, Good, GatewayOnce
  <2> HIDE DEF S
  <2>2. CASE S = {}
    BY <2>2, FS_EmptySet DEF RecordedOnce, S
  <2>3. CASE S # {}
    <3>1. PICK r : S = {r}
      BY <2>1, <2>3
    <3>2. Cardinality(S) = 1
      BY <3>1, FS_Singleton
    <3>3. QED
      BY <3>2 DEF RecordedOnce, S
  <2>4. QED
    BY <2>2, <2>3
<1>2. QED
  BY <1>1, InvoicingInvariant, PTL

\* No check-in form, payment or extra invoice changes an invoice that is paid:
\* a refund may open it again, and its lines and sums stay even then
\* (sync_booking_charge_invoices, the check of editable invoices).
THEOREM PaidStayFrozen == Spec => PaidInvoicesFrozen
<1>1. InvoicingInv /\ [Next]_vars =>
        [\A i \in Invoices(bill) : bill.invoices[i].status = "PAID" =>
           [bill'.invoices[i] EXCEPT !.status = "PAID"] = bill.invoices[i]]_bill
  BY EveryStep DEF Lawful, Frozen
<1>2. QED
  BY <1>1, InvoicingInvariant, PTL DEF Spec, PaidInvoicesFrozen

\* However many refunds are asked for side by side, and whenever the clock
\* passes the cut-off, what is refunded in all stays within what the policy
\* allowed at the moment the last refund was quoted (refund_payment, which
\* locks the payment together with its booking before it asks for the quote).
THEOREM RefundsKeepPolicy == Spec => RefundsWithinPolicy
<1>1. InvoicingInv /\ [Next]_vars =>
        [Refunded(bill') > Refunded(bill) =>
           \E q \in Requests : /\ refund[q] # Idle /\ refund'[q] = Idle
                              /\ Refunded(bill') <= Eligible(bill, refund[q].late)]_vars
  BY EveryStep DEF Lawful, WrittenAsQuoted
<1>2. QED
  BY <1>1, InvoicingInvariant, PTL DEF Spec, RefundsWithinPolicy

-----------------------------------------------------------------------------
(* Manual rows.  The form takes the rows of the first editable invoice, and   *)
(* writes them back when everything has been priced anew.                     *)

ManualsOf(b) == [i \in Invoices(b) |-> b.invoices[i].manual]

LEMMA ManualTyped ==
    ASSUME NEW b, BillRows(b)
    PROVE  /\ ManualTotal(b) = SumFunctionOnSet(ManualsOf(b), Live(b))
           /\ ManualTotal(b) \in Int
           /\ IsFiniteSet(Live(b)) /\ Live(b) \subseteq Invoices(b)
           /\ \A i \in Invoices(b) : ManualsOf(b)[i] = b.invoices[i].manual /\ ManualsOf(b)[i] \in Int
<1>1. IsFiniteSet(Live(b)) /\ Live(b) \subseteq Invoices(b)
  BY LiveTyped, RateTypes
<1>2. \A i \in Invoices(b) : ManualsOf(b)[i] = b.invoices[i].manual /\ ManualsOf(b)[i] \in Int
  BY InvoicesTyped, InvoiceFields DEF ManualsOf, BillRows
<1>3. ManualTotal(b) = SumFunctionOnSet(ManualsOf(b), Live(b))
  BY DEF ManualTotal, ManualsOf
<1>4. SumFunctionOnSet(ManualsOf(b), Live(b)) \in Int
  BY <1>1, <1>2, SumInt
<1>5. QED
  BY <1>1, <1>2, <1>3, <1>4

LEMMA ManualSame ==
    ASSUME NEW b, NEW c, BillRows(b), BillRows(c), Live(c) = Live(b),
           \A i \in Live(b) : c.invoices[i].manual = b.invoices[i].manual
    PROVE  ManualTotal(c) = ManualTotal(b)
<1>1. \A i \in Live(b) : ManualsOf(b)[i] = ManualsOf(c)[i]
  BY ManualTyped
<1>2. SumFunctionOnSet(ManualsOf(b), Live(b)) = SumFunctionOnSet(ManualsOf(c), Live(b))
  BY <1>1, SumSame
<1>3. QED
  BY <1>2, ManualTyped

LEMMA ManualChanged ==
    ASSUME NEW b, NEW c, BillRows(b), BillRows(c), Live(c) = Live(b), NEW i \in Live(b),
           \A j \in Live(b) \ {i} : c.invoices[j].manual = b.invoices[j].manual
    PROVE  ManualTotal(c) = ManualTotal(b) + c.invoices[i].manual - b.invoices[i].manual
<1>1. IsFiniteSet(Live(b))
  BY ManualTyped
<1>2. \A j \in Live(b) : ManualsOf(b)[j] \in Int /\ ManualsOf(c)[j] \in Int
  BY ManualTyped
<1>3. \A j \in Live(b) \ {i} : ManualsOf(c)[j] = ManualsOf(b)[j]
  BY ManualTyped
<1>4. i \in Live(b)
  OBVIOUS
<1>5. SumFunctionOnSet(ManualsOf(c), Live(b)) =
        SumFunctionOnSet(ManualsOf(b), Live(b)) + ManualsOf(c)[i] - ManualsOf(b)[i]
  BY ONLY <1>1, <1>2, <1>3, <1>4, SumChanged
<1>6. QED
  BY <1>5, ManualTyped

\* One invoice more that counts.
LEMMA ManualMore ==
    ASSUME NEW b, NEW c, BillRows(b), BillRows(c), NEW n, n \notin Live(b), Live(c) = Live(b) \cup {n},
           \A j \in Live(b) : c.invoices[j].manual = b.invoices[j].manual
    PROVE  ManualTotal(c) = ManualTotal(b) + c.invoices[n].manual
<1>1. /\ IsFiniteSet(Live(c)) /\ \A j \in Live(c) : ManualsOf(c)[j] \in Int
      /\ n \in Live(c) /\ Live(c) \ {n} = Live(b)
  BY ManualTyped
<1>2. SumFunctionOnSet(ManualsOf(c), Live(c)) = ManualsOf(c)[n] + SumFunctionOnSet(ManualsOf(c), Live(b))
  <2>1. SumFunctionOnSet(ManualsOf(c), Live(c)) =
          ManualsOf(c)[n] + SumFunctionOnSet(ManualsOf(c), Live(c) \ {n})
    BY ONLY <1>1, SumTerm
  <2>2. QED
    BY <1>1, <2>1
<1>3. SumFunctionOnSet(ManualsOf(b), Live(b)) = SumFunctionOnSet(ManualsOf(c), Live(b))
  <2>1. \A j \in Live(b) : ManualsOf(b)[j] = ManualsOf(c)[j]
    BY ManualTyped
  <2>2. QED
    BY <2>1, SumSame
<1>4. ManualsOf(c)[n] = c.invoices[n].manual /\ ManualsOf(c)[n] \in Int
  BY <1>1, ManualTyped
<1>5. /\ ManualTotal(b) = SumFunctionOnSet(ManualsOf(b), Live(b)) /\ ManualTotal(b) \in Int
      /\ ManualTotal(c) = SumFunctionOnSet(ManualsOf(c), Live(c))
  BY ManualTyped
<1>6. QED
  BY ONLY <1>2, <1>3, <1>4, <1>5

\* Rows written to invoice i replace those it had; it is not paid by more rows.
LEMMA WrittenManual ==
    ASSUME NEW b, Good(b), NEW i \in Editable(b), NEW manual \in Int, NEW c \in Written(b, i, manual)
    PROVE  /\ ManualTotal(c) = ManualTotal(b) - b.invoices[i].manual + manual
           /\ Editable(c) \subseteq Editable(b) /\ c.invoices[i].manual = manual
           /\ b.invoices[i].manual = 0 /\ manual > 0 => i \in Editable(c)
           /\ Sum(b.invoices[i].lines) + b.invoices[i].other + manual >= 0
<1> DEFINE old == b.invoices[i]
<1>1. i \in Invoices(b) /\ old.status \in {"OPEN", "PARTIALLY_PAID"} /\ old.scope = "PMS" /\ i \in Live(b)
  BY DEF Editable, Live
<1>2. /\ b \in BillRow /\ BillRows(b) /\ old \in InvoiceRow
      /\ \A j \in Live(b) : Matches(b, j)
  BY <1>1, InvoicesTyped DEF Good, BillRows
<1>3. PICK new : new = WithManual(old, manual)
  OBVIOUS
<1>4. /\ new \in InvoiceRow /\ new.status = old.status /\ new.scope = old.scope /\ new.manual = manual
      /\ new.total = (Sum(old.lines) + old.other + manual) * (1 + old.rate)
  BY <1>2, <1>3, WithManualTyped
<1>5. /\ Good(c) /\ Invoices(c) = Invoices(b) /\ Live(c) = Live(b)
      /\ \A j \in Invoices(b) \ {i} : c.invoices[j] = b.invoices[j]
      /\ Restated(c.invoices[i], new) /\ c.receipts = b.receipts
  BY <1>1, <1>3, WrittenGood
<1>6. BillRows(c) /\ c \in BillRow /\ c.invoices[i].status \in Statuses
  BY <1>1, <1>5, InvoicesTyped, InvoiceFields DEF Good, BillRows
<1>7. c.invoices[i].manual = manual /\ c.invoices[i].scope = "PMS" /\ c.invoices[i].total = new.total
  BY <1>1, <1>4, <1>5, <1>6, RestatedFields
<1>8. ManualTotal(c) = ManualTotal(b) - old.manual + manual
  <2>1. \A j \in Live(b) \ {i} : c.invoices[j].manual = b.invoices[j].manual
    BY <1>5 DEF Live
  <2>2. ManualTotal(c) = ManualTotal(b) + c.invoices[i].manual - b.invoices[i].manual
    BY <1>1, <1>2, <1>5, <1>6, <2>1, ManualChanged
  <2>3. ManualTotal(b) \in Int /\ old.manual \in Int
    BY <1>2, ManualTyped, InvoiceFields
  <2>4. QED
    BY <1>7, <2>2, <2>3
<1>9. Editable(c) \subseteq Editable(b)
  BY <1>1, <1>5 DEF Editable
<1>10. Sum(old.lines) + old.other + manual >= 0
  BY DEF Written
<1>11. ASSUME old.manual = 0, manual > 0 PROVE i \in Editable(c)
  <2>1. Sum(old.lines) \in Nat /\ old.other \in Nat /\ old.rate \in Nat /\ old.discount \in Nat
    <3>1. old.lines \in [Keys -> Nat] /\ old.other \in Nat /\ old.rate \in Nat /\ old.discount \in Nat
      BY <1>2, InvoiceFields
    <3>2. IsFiniteSet(Keys) /\ \A k \in Keys : old.lines[k] \in Nat
      BY <3>1, RateTypes
    <3>3. QED
      BY <3>1, <3>2, SumBounds DEF Sum
  <2>2. PICK base, fees : base = Sum(old.lines) + old.other /\ fees = 1 + old.rate
    OBVIOUS
  <2>3. base \in Nat /\ fees \in Nat /\ fees > 0
    BY <2>1, <2>2
  <2>4. new.total = (base + manual) * fees /\ old.total = base * fees - old.discount
    <3>1. old.total = (Sum(old.lines) + old.other + old.manual) * (1 + old.rate) - old.discount
      BY <1>2, InvoiceFields DEF Priced
    <3>2. Sum(old.lines) + old.other + old.manual = base
      BY <1>11, <2>1, <2>2
    <3>3. QED
      BY <1>4, <2>2, <3>1, <3>2
  <2>5. (base + manual) * fees > base * fees /\ base * fees >= 0
    <3>1. (base + manual) * fees = base * fees + manual * fees
      BY <2>3
    <3>2. manual * fees > 0
      BY <1>11, <2>3
    <3>3. base * fees \in Nat /\ manual * fees \in Int
      BY <1>11, <2>3
    <3>4. QED
      BY <3>1, <3>2, <3>3
  <2>6. PaidAmount(b, i) \in Nat /\ (PaidAmount(b, i) = 0 \/ PaidAmount(b, i) < old.total)
    BY <1>1, <1>2, NetsTyped DEF Matches
  <2>7. new.total > PaidAmount(b, i)
    <3>1. base * fees \in Int /\ (base + manual) * fees \in Int
      BY <2>3
    <3>2. QED
      BY <2>1, <2>4, <2>5, <2>6, <3>1
  <2>8. PaidAmount(c, i) = PaidAmount(b, i)
    <3>1. c.receipts = b.receipts
      BY <1>5
    <3>2. QED
      BY <3>1, PaidByReceipts
  <2>9. c.invoices[i].status # "VOID" /\ Matches(c, i)
    BY <1>1, <1>5 DEF Live, Good
  <2>10. c.invoices[i].status # "PAID"
    <3>1. c.invoices[i].total = new.total /\ new.total \in Int
      BY <1>4, <1>7, InvoiceFields
    <3>2. QED
      BY <2>6, <2>7, <2>8, <2>9, <3>1 DEF Matches
  <2>11. QED
    BY <1>1, <1>5, <1>6, <1>7, <2>9, <2>10 DEF Editable, Statuses
<1>12. QED
  BY <1>7, <1>8, <1>9, <1>10, <1>11

LEMMA SumOfNoLines == Sum(NoLines) = 0
<1>1. IsFiniteSet(Keys) /\ {} \in SUBSET Keys /\ \A k \in Keys : NoLines[k] = 0
  BY RateTypes DEF NoLines
<1>2. \A k \in Keys : NoLines[k] \in Int
  BY <1>1
<1>3. SumFunctionOnSet(NoLines, Keys) = SumFunctionOnSet(NoLines, {})
  BY <1>1, <1>2, SumOfRest
<1>4. QED
  BY <1>3, SumEmpty DEF Sum

LEMMA EditableTyped ==
    ASSUME NEW b, BillRows(b)
    PROVE  /\ IsFiniteSet(Editable(b)) /\ Editable(b) \subseteq Invoices(b) /\ Editable(b) \subseteq Live(b)
           /\ Editable(b) \subseteq Int
<1>1. Editable(b) \subseteq Invoices(b) /\ Editable(b) \subseteq Live(b)
  BY DEF Editable, Live
<1>2. IsFiniteSet(Invoices(b)) /\ Invoices(b) \subseteq Int
  BY InvoicesTyped DEF BillRows
<1>3. QED
  BY <1>1, <1>2, FS_Subset

LEMMA SoleOne ==
    ASSUME NEW S, IsFiniteSet(S), S # {}, ~(Cardinality(S) > 1)
    PROVE  \E e : S = {e}
<1>1. PICK e \in S : TRUE
  OBVIOUS
<1>2. IsFiniteSet(S \ {e}) /\ Cardinality(S \ {e}) = Cardinality(S) - 1 /\ Cardinality(S) \in Nat
  BY <1>1, FS_RemoveElement, FS_CardinalityType
<1>3. Cardinality(S \ {e}) \in Nat
  BY <1>2, FS_CardinalityType
<1>4. Cardinality(S \ {e}) = 0
  BY <1>2, <1>3
<1>5. S \ {e} = {}
  BY <1>2, <1>4, FS_EmptySet
<1>6. S = {e}
  BY <1>1, <1>5
<1>7. QED
  BY <1>6

\* The invoice the rows are written to: the only editable one, or a new one.
LEMMA AdjustedCases ==
    ASSUME NEW b, Good(b), NEW manual \in Int, NEW c \in Adjusted(b, manual)
    PROVE  \/ \E i : Editable(b) = {i} /\ c \in Written(b, i, manual)
           \/ /\ Editable(b) = {}
              /\ \E x, n : /\ Good(x) /\ Editable(x) = {n} /\ ManualTotal(x) = ManualTotal(b)
                           /\ x.invoices[n].manual = 0 /\ x.invoices[n].other = 0
                           /\ Sum(x.invoices[n].lines) = 0
                           /\ c \in Written(x, n, manual)
<1> DEFINE blank == Invoice("additional", "PMS", NoLines, 0, 0, 0)
<1>1. BillRows(b) /\ IsFiniteSet(Editable(b))
  BY EditableTyped DEF Good
<1>2. CASE Editable(b) # {}
  <2>1. ~(Cardinality(Editable(b)) > 1)
    BY <1>2 DEF Adjusted
  <2>2. PICK i : Editable(b) = {i}
    BY <1>1, <1>2, <2>1, SoleOne
  <2>3. (CHOOSE j \in Editable(b) : TRUE) = i
    BY <2>2
  <2>4. c \in Written(b, i, manual)
    BY <1>2, <2>1, <2>3 DEF Adjusted
  <2>5. QED
    BY <2>2, <2>4
<1>3. CASE Editable(b) = {}
  <2>1. ~(Cardinality(Editable(b)) > 1)
    BY <1>3, FS_EmptySet
  <2>2. PICK x \in Added(b, blank) : c \in Written(x, Len(x.invoices), manual)
    BY <1>3, <2>1 DEF Adjusted
  <2>3. PICK n : n = Len(x.invoices)
    OBVIOUS
  <2>4. /\ blank \in InvoiceRow /\ blank.status = "OPEN" /\ blank.scope = "PMS"
        /\ blank.lines = NoLines /\ blank.manual = 0 /\ blank.other = 0
    <3>1. NoLines \in [Keys -> Nat] /\ "additional" \in Kinds /\ "PMS" \in Scopes
      BY DEF NoLines, Kinds, Scopes
    <3>2. blank \in InvoiceRow /\ blank.status = "OPEN"
      BY <3>1, InvoiceTyped
    <3>3. QED
      BY <3>2 DEF Invoice
  <2> HIDE DEF blank
  <2>5. /\ Good(x) /\ n \in Invoices(x) /\ n \notin Invoices(b) /\ x.invoices[n] = blank
        /\ Invoices(x) = Invoices(b) \cup {n} /\ Live(x) = Live(b) \cup {n}
        /\ \A j \in Invoices(b) : x.invoices[j] = b.invoices[j]
    BY <2>2, <2>3, <2>4, AddedGood
  <2>6. Editable(x) = {n}
    BY <1>3, <2>4, <2>5 DEF Editable
  <2>7. ManualTotal(x) = ManualTotal(b)
    <3>1. BillRows(x) /\ n \notin Live(b) /\ \A j \in Live(b) : x.invoices[j].manual = b.invoices[j].manual
      BY <2>5 DEF Good, Live
    <3>2. ManualTotal(x) = ManualTotal(b) + x.invoices[n].manual
      BY <1>1, <2>5, <3>1, ManualMore
    <3>3. ManualTotal(b) \in Int
      BY <1>1, ManualTyped
    <3>4. QED
      BY <2>4, <2>5, <3>2, <3>3
  <2>8. Sum(NoLines) = 0
    BY SumOfNoLines
  <2>9. QED
    BY <1>3, <2>2, <2>3, <2>4, <2>5, <2>6, <2>7, <2>8
<1>4. QED
  BY <1>2, <1>3

\* Every editable invoice has these rows, and there is one if they add to it.
Rowed(b, manual) ==
    /\ \A i \in Editable(b) : b.invoices[i].manual = manual
    /\ manual > 0 => Editable(b) # {}

\* Rows are added where the editable invoices had none ...
LEMMA AdjustedManual ==
    ASSUME NEW b, Good(b), NEW manual \in Int, NEW c \in Adjusted(b, manual),
           \A i \in Editable(b) : b.invoices[i].manual = 0
    PROVE  Good(c) /\ ManualTotal(c) = ManualTotal(b) + manual /\ Rowed(c, manual)
<1>1. ASSUME NEW x, Good(x), ManualTotal(x) = ManualTotal(b), NEW n, Editable(x) = {n},
             x.invoices[n].manual = 0, c \in Written(x, n, manual)
      PROVE  ManualTotal(c) = ManualTotal(b) + manual /\ Rowed(c, manual)
  <2>1. n \in Editable(x)
    BY <1>1
  <2>2. /\ ManualTotal(c) = ManualTotal(x) - x.invoices[n].manual + manual
        /\ Editable(c) \subseteq Editable(x) /\ c.invoices[n].manual = manual
        /\ x.invoices[n].manual = 0 /\ manual > 0 => n \in Editable(c)
    BY ONLY <1>1, <2>1, manual \in Int, WrittenManual
  <2>3. ManualTotal(b) \in Int
    BY ManualTyped DEF Good
  <2>4. QED
    BY <1>1, <2>2, <2>3 DEF Rowed
<1>2. Good(c)
  BY AdjustedGood
<1>3. CASE \E i : Editable(b) = {i} /\ c \in Written(b, i, manual)
  <2>1. PICK i : Editable(b) = {i} /\ c \in Written(b, i, manual)
    BY <1>3
  <2>2. b.invoices[i].manual = 0
    BY <2>1
  <2>3. QED
    BY <1>1, <1>2, <2>1, <2>2
<1>4. CASE ~\E i : Editable(b) = {i} /\ c \in Written(b, i, manual)
  <2>1. PICK x, n : /\ Good(x) /\ Editable(x) = {n} /\ ManualTotal(x) = ManualTotal(b)
                    /\ x.invoices[n].manual = 0 /\ c \in Written(x, n, manual)
    BY <1>4, AdjustedCases
  <2>2. QED
    BY <1>1, <1>2, <2>1
<1>5. QED
  BY <1>3, <1>4

\* ... and written again they take the place of those it has.
LEMMA AdjustedAgain ==
    ASSUME NEW b, Good(b), NEW manual \in Int, NEW c \in Adjusted(b, manual), Rowed(b, manual)
    PROVE  Good(c) /\ ManualTotal(c) = ManualTotal(b)
<1>1. Good(c) /\ ManualTotal(b) \in Int
  BY AdjustedGood, ManualTyped DEF Good
<1>2. CASE \E i : Editable(b) = {i} /\ c \in Written(b, i, manual)
  <2>1. PICK i : Editable(b) = {i} /\ c \in Written(b, i, manual)
    BY <1>2
  <2>2. i \in Editable(b) /\ b.invoices[i].manual = manual
    BY <2>1 DEF Rowed
  <2>3. ManualTotal(c) = ManualTotal(b) - b.invoices[i].manual + manual
    BY <2>1, <2>2, WrittenManual
  <2>4. QED
    BY <1>1, <2>2, <2>3
<1>3. CASE ~\E i : Editable(b) = {i} /\ c \in Written(b, i, manual)
  <2>1. Editable(b) = {}
    BY <1>3, AdjustedCases
  <2>2. PICK x, n : /\ Good(x) /\ Editable(x) = {n} /\ ManualTotal(x) = ManualTotal(b)
                    /\ x.invoices[n].manual = 0 /\ x.invoices[n].other = 0
                    /\ Sum(x.invoices[n].lines) = 0
                    /\ c \in Written(x, n, manual)
    BY <1>3, AdjustedCases
  <2>3. n \in Editable(x)
    BY <2>2
  <2>4. /\ ManualTotal(c) = ManualTotal(x) - x.invoices[n].manual + manual
        /\ Sum(x.invoices[n].lines) + x.invoices[n].other + manual >= 0
    BY <2>2, <2>3, WrittenManual
  <2>5. manual = 0
    BY <2>1, <2>2, <2>4 DEF Rowed
  <2>6. QED
    BY <1>1, <2>2, <2>4, <2>5
<1>4. QED
  BY <1>2, <1>3

\* What the form keeps: the rows of the first editable invoice, if it has any.
LEMMA KeptCases ==
    ASSUME NEW b, Good(b), KeptRows(b).supplied
    PROVE  /\ Min(Editable(b)) \in Editable(b) /\ \A i \in Editable(b) : Min(Editable(b)) <= i
           /\ b.invoices[Min(Editable(b))].adjusted
           /\ KeptRows(b).manual = b.invoices[Min(Editable(b))].manual
<1>1. Editable(b) # {}
  BY DEF KeptRows, NoForm
<1>2. IsFiniteSet(Editable(b)) /\ Editable(b) \subseteq Int
  BY EditableTyped DEF Good
<1>3. Min(Editable(b)) \in Editable(b) /\ \A i \in Editable(b) : Min(Editable(b)) <= i
  BY <1>1, <1>2, LeastOne
<1>4. QED
  BY <1>1, <1>3 DEF KeptRows

\* Rows that are still where they were are written to the same invoice.
LEMMA KeptAgain ==
    ASSUME NEW b, Good(b), NEW f \in Editable(b), NEW manual \in Int, b.invoices[f].manual = manual,
           NEW c \in Adjusted(b, manual)
    PROVE  ManualTotal(c) = ManualTotal(b)
<1>1. PICK i : Editable(b) = {i}
  BY AdjustedCases
<1>2. Rowed(b, manual)
  BY <1>1 DEF Rowed
<1>3. QED
  BY <1>2, AdjustedAgain

\* An invoice is billed anew, without the rows it had.
LEMMA ReplacedManual ==
    ASSUME NEW b, Good(b), NEW i \in Live(b), b.invoices[i].status # "PAID",
           NEW lines \in [Keys -> Nat], NEW rate \in Nat, NEW discount \in Nat,
           NEW c, c = Replaced(b, i, lines, rate, discount)
    PROVE  /\ Good(c) /\ ManualTotal(c) = ManualTotal(b) - b.invoices[i].manual
           /\ Editable(c) \subseteq Editable(b) \cup {i} /\ Invoices(c) = Invoices(b)
           /\ \A j \in Invoices(b) \ {i} : c.invoices[j] = b.invoices[j]
           /\ c.invoices[i].manual = 0
<1>1. /\ Good(c) /\ Invoices(c) = Invoices(b) /\ Live(c) = Live(b)
      /\ \A j \in Invoices(b) \ {i} : c.invoices[j] = b.invoices[j]
      /\ c.invoices[i].manual = 0
  BY ReplacedGood
<1>2. BillRows(b) /\ BillRows(c) /\ i \in Invoices(b)
  BY <1>1 DEF Good, Live
<1>3. \A j \in Live(b) \ {i} : c.invoices[j].manual = b.invoices[j].manual
  BY <1>1 DEF Live
<1>4. ManualTotal(c) = ManualTotal(b) + c.invoices[i].manual - b.invoices[i].manual
  BY <1>1, <1>2, <1>3, ManualChanged
<1>5. ManualTotal(b) \in Int /\ b.invoices[i].manual \in Int
  BY <1>2, ManualTyped
<1>6. Editable(c) \subseteq Editable(b) \cup {i}
  BY <1>1 DEF Editable
<1>7. QED
  BY <1>1, <1>4, <1>5, <1>6

\* Of the invoices that may still be changed, one at most has manual rows.
OneAdjusted(b) ==
    \A i, j \in Editable(b) : b.invoices[i].adjusted /\ b.invoices[j].adjusted => i = j

\* Billed anew and given its rows again, an invoice leaves the others as they are.
LEMMA RowsReturned ==
    ASSUME NEW b, Good(b), OneAdjusted(b), NEW i \in Editable(b), b.invoices[i].adjusted,
           NEW lines \in [Keys -> Nat], NEW rate \in Nat, NEW discount \in Nat,
           NEW c \in Adjusted(Replaced(b, i, lines, rate, discount), b.invoices[i].manual)
    PROVE  Good(c) /\ ManualTotal(c) = ManualTotal(b) /\ Rowed(c, b.invoices[i].manual)
<1>1. PICK x : x = Replaced(b, i, lines, rate, discount)
  OBVIOUS
<1>2. /\ i \in Live(b) /\ i \in Invoices(b) /\ b.invoices[i].status # "PAID"
      /\ BillRows(b) /\ b \in BillRow
  BY DEF Editable, Live, Good, BillRows
<1>3. /\ Good(x) /\ ManualTotal(x) = ManualTotal(b) - b.invoices[i].manual
      /\ Editable(x) \subseteq Editable(b) /\ Invoices(x) = Invoices(b)
      /\ \A j \in Invoices(b) \ {i} : x.invoices[j] = b.invoices[j]
      /\ x.invoices[i].manual = 0
  BY <1>1, <1>2, ReplacedManual
<1>4. b.invoices[i].manual \in Int /\ ManualTotal(b) \in Int
  BY <1>2, ManualTyped
<1>5. \A j \in Editable(x) : x.invoices[j].manual = 0
  <2> TAKE j \in Editable(x)
  <2>1. CASE j = i
    BY <1>3, <2>1
  <2>2. CASE j # i
    <3>1. j \in Editable(b) /\ j \in Invoices(b) /\ x.invoices[j] = b.invoices[j]
      BY <1>3, <2>2 DEF Editable
    <3>2. ~b.invoices[j].adjusted
      BY <2>2, <3>1 DEF OneAdjusted
    <3>3. b.invoices[j] \in InvoiceRow
      BY <1>2, <3>1, InvoicesTyped
    <3>4. QED
      BY <3>1, <3>2, <3>3, InvoiceFields DEF Priced
  <2>3. QED
    BY <2>1, <2>2
<1>6. Good(c) /\ ManualTotal(c) = ManualTotal(x) + b.invoices[i].manual /\ Rowed(c, b.invoices[i].manual)
  BY <1>1, <1>3, <1>4, <1>5, AdjustedManual
<1>7. QED
  BY <1>3, <1>4, <1>6

\* Rows that are kept, or given back, leave the sum of all rows as it was.
LEMMA SupplementedManual ==
    ASSUME NEW b, Good(b), OneAdjusted(b), NEW x \in Supplemented(b),
           NEW c \in IF KeptRows(b).supplied THEN Adjusted(x, KeptRows(b).manual) ELSE {x}
    PROVE  ManualTotal(c) = ManualTotal(b)
<1> DEFINE f == Min(Editable(b))
<1>1. Good(x) /\ BillRows(x) /\ BillRows(b) /\ b \in BillRow /\ ManualTotal(b) \in Int
  <2>1. Good(x)
    BY SupplementedGood
  <2>2. QED
    BY <2>1, ManualTyped DEF Good, BillRows
<1>2. KeptRows(b).supplied =>
        /\ f \in Editable(b) /\ f \in Invoices(b) /\ b.invoices[f].adjusted
        /\ KeptRows(b).manual = b.invoices[f].manual /\ b.invoices[f].manual \in Int
  BY <1>1, KeptCases, EditableTyped, ManualTyped
<1> HIDE DEF f
<1>3. ASSUME ManualTotal(x) = ManualTotal(b),
             KeptRows(b).supplied => f \in Invoices(x) /\ x.invoices[f] = b.invoices[f]
      PROVE  ManualTotal(c) = ManualTotal(b)
  <2>1. CASE KeptRows(b).supplied
    <3>1. f \in Editable(x) /\ x.invoices[f].manual = KeptRows(b).manual
      BY <1>2, <1>3, <2>1 DEF Editable
    <3>2. c \in Adjusted(x, KeptRows(b).manual) /\ KeptRows(b).manual \in Int
      BY <1>2, <2>1
    <3>3. QED
      BY <1>1, <1>3, <3>1, <3>2, KeptAgain
  <2>2. CASE ~KeptRows(b).supplied
    BY <1>3, <2>2
  <2>3. QED
    BY <2>1, <2>2
<1>4. PICK latest, delta, invoice : Follower(b, x, latest, delta, invoice)
  BY SupplementedCases
<1>5. CASE x = b
  BY <1>2, <1>3, <1>5
<1>6. CASE latest = {} /\ x \in Added(b, invoice)
  <2>1. invoice \in InvoiceRow /\ invoice.status = "OPEN" /\ invoice.manual = 0
    <3>1. invoice \in InvoiceRow /\ invoice.status = "OPEN" /\ invoice = Invoice("additional", "PMS", delta, 0, PmsRate, 0)
      BY <1>4 DEF Follower
    <3>2. QED
      BY <3>1 DEF Invoice
  <2>2. PICK n : n = Len(x.invoices)
    OBVIOUS
  <2>3. /\ n \notin Invoices(b) /\ x.invoices[n] = invoice
        /\ Invoices(x) = Invoices(b) \cup {n} /\ Live(x) = Live(b) \cup {n}
        /\ \A j \in Invoices(b) : x.invoices[j] = b.invoices[j]
    BY <1>6, <2>1, <2>2, AddedGood
  <2>4. n \notin Live(b) /\ \A j \in Live(b) : x.invoices[j].manual = b.invoices[j].manual
    BY <2>3 DEF Live
  <2>5. ManualTotal(x) = ManualTotal(b) + x.invoices[n].manual
    BY <1>1, <2>3, <2>4, ManualMore
  <2>6. ManualTotal(x) = ManualTotal(b)
    BY <1>1, <2>1, <2>3, <2>5
  <2>7. QED
    BY <1>2, <1>3, <2>3, <2>6
<1>7. ASSUME NEW i \in latest,
             IF b.invoices[i].adjusted
             THEN x \in Adjusted(Replaced(b, i, delta, PmsRate, 0), b.invoices[i].manual)
             ELSE x = IF delta = NoLines
                      THEN IF ReceiptsOf(b, i) = {} THEN [b EXCEPT !.invoices[i].status = "VOID"] ELSE b
                      ELSE Replaced(b, i, delta, PmsRate, 0)
      PROVE  ManualTotal(c) = ManualTotal(b)
  <2>1. /\ i \in Live(b) /\ i \in Invoices(b) /\ b.invoices[i].status # "PAID"
        /\ b.invoices[i].kind = "additional" /\ latest = {i}
        /\ delta \in [Keys -> Nat] /\ \A k \in Keys : delta[k] = 0 => Billed(b, latest, k) >= b.charges[k]
        /\ PmsRate \in Nat /\ 0 \in Nat
    BY <1>4, <1>7, RateTypes DEF Follower, Live
  <2>2. b.invoices[i] \in InvoiceRow /\ b.invoices[i].manual \in Int
    BY <1>1, <2>1, InvoicesTyped, InvoiceFields
  <2>3. CASE b.invoices[i].adjusted
    <3>1. i \in Editable(b)
      <4>1. b.invoices[i].scope = "PMS" /\ b.invoices[i].status \in Statuses
        BY <2>1, <2>2, InvoiceFields DEF Priced
      <4>2. QED
        BY <2>1, <4>1 DEF Editable, Live, Statuses
    <3>2. Good(x) /\ ManualTotal(x) = ManualTotal(b) /\ Rowed(x, b.invoices[i].manual)
      BY <1>7, <2>1, <2>3, <3>1, RowsReturned
    <3>3. CASE KeptRows(b).supplied
      <4>1. f = i
        BY <1>2, <2>3, <3>1, <3>3 DEF OneAdjusted
      <4>2. c \in Adjusted(x, b.invoices[i].manual)
        BY <1>2, <3>3, <4>1
      <4>3. QED
        BY <2>2, <3>2, <4>2, AdjustedAgain
    <3>4. CASE ~KeptRows(b).supplied
      BY <3>2, <3>4
    <3>5. QED
      BY <3>3, <3>4
  <2>4. CASE ~b.invoices[i].adjusted
    <3>1. b.invoices[i].manual = 0
      BY <2>2, <2>4, InvoiceFields DEF Priced
    <3>2. KeptRows(b).supplied => f # i
      BY <1>2, <2>4
    <3>3. CASE delta # NoLines
      <4>1. x = Replaced(b, i, delta, PmsRate, 0)
        BY <1>7, <2>4, <3>3
      <4>2. /\ ManualTotal(x) = ManualTotal(b) - b.invoices[i].manual /\ Invoices(x) = Invoices(b)
            /\ \A j \in Invoices(b) \ {i} : x.invoices[j] = b.invoices[j]
        BY <2>1, <4>1, ReplacedManual
      <4>3. ManualTotal(x) = ManualTotal(b)
        BY <1>1, <3>1, <4>2
      <4>4. QED
        BY <1>2, <1>3, <3>2, <4>2, <4>3
    <3>4. CASE delta = NoLines /\ ReceiptsOf(b, i) = {}
      <4>1. x = [b EXCEPT !.invoices[i].status = "VOID"]
        BY <1>7, <2>4, <3>4
      <4>2. \A k \in Keys : Billed(b, {i}, k) >= b.charges[k]
        BY <2>1, <3>4 DEF NoLines
      <4>3. /\ Invoices(x) = Invoices(b) /\ Live(x) = Live(b) \ {i}
            /\ \A j \in Invoices(b) \ {i} : x.invoices[j] = b.invoices[j]
        BY <2>1, <4>1, <4>2, VoidedGood
      <4>4. ManualTotal(b) = ManualTotal(x) + b.invoices[i].manual
        <5>1. i \notin Live(x) /\ Live(b) = Live(x) \cup {i}
              /\ \A j \in Live(x) : b.invoices[j].manual = x.invoices[j].manual
          BY <2>1, <4>3 DEF Live
        <5>2. QED
          BY <1>1, <5>1, ManualMore
      <4>5. ManualTotal(x) = ManualTotal(b)
        <5>1. ManualTotal(x) \in Int
          BY <1>1, ManualTyped
        <5>2. QED
          BY <3>1, <4>4, <5>1
      <4>6. QED
        BY <1>2, <1>3, <3>2, <4>3, <4>5
    <3>5. CASE delta = NoLines /\ ReceiptsOf(b, i) # {}
      BY <1>5, <1>7, <2>4, <3>5
    <3>6. QED
      BY <3>3, <3>4, <3>5
  <2>5. QED
    BY <2>3, <2>4
<1>8. QED
  BY <1>4, <1>5, <1>6, <1>7 DEF Follower

LEMMA ChargesSyncedManual ==
    ASSUME NEW b, Good(b), OneAdjusted(b), NEW x \in ChargesSynced(b),
           NEW c \in IF KeptRows(b).supplied THEN Adjusted(x, KeptRows(b).manual) ELSE {x}
    PROVE  ManualTotal(c) = ManualTotal(b)
<1>1. CASE ~Repriceable(b)
  BY <1>1, SupplementedManual DEF ChargesSynced
<1>2. CASE Repriceable(b)
  <2>1. /\ x = Replaced(b, 1, b.charges, b.rate, b.discount)
        /\ b.invoices[1].scope = "PMS" /\ b.invoices[1].status # "PAID"
    BY <1>2 DEF ChargesSynced, Repriceable
  <2>2. /\ BillRows(b) /\ b \in BillRow /\ b.charges \in Charges /\ b.rate \in Nat /\ b.discount \in Nat
        /\ ManualTotal(b) \in Int
    BY ManualTyped DEF Good, BillRows, BillRow
  <2>3. b.charges \in [Keys -> Nat]
    <3>1. b.charges \in [Keys -> 0 .. MaxCharge] /\ MaxCharge \in Nat
      BY <2>2, RateTypes DEF Charges
    <3>2. \A k \in Keys : b.charges[k] \in Nat
      BY <3>1
    <3>3. QED
      BY <3>1, <3>2
  <2>4. /\ 1 \in Live(b) /\ 1 \in Invoices(b) /\ 1 \in Editable(b) /\ b.invoices[1] \in InvoiceRow
        /\ \A i \in Invoices(b) : 1 <= i
    <3>1. 1 \in Invoices(b) /\ b.invoices[1] \in InvoiceRow /\ \A i \in Invoices(b) : 1 <= i
      BY <2>2, InvoicesTyped DEF BillRows
    <3>2. b.invoices[1].status \in Statuses /\ b.invoices[1].status # "VOID"
      BY <2>2, <3>1, InvoiceFields DEF BillRows
    <3>3. QED
      BY <2>1, <3>1, <3>2 DEF Live, Editable, Statuses
  <2>5. /\ ~b.invoices[1].adjusted => b.invoices[1].manual = 0
        /\ b.invoices[1].adjusted \in BOOLEAN /\ b.invoices[1].manual \in Int
    BY <2>4, InvoiceFields DEF Priced
  <2>6. Min(Editable(b)) = 1
    <3>1. IsFiniteSet(Editable(b)) /\ Editable(b) \subseteq Int /\ Editable(b) \subseteq Invoices(b)
      BY <2>2, EditableTyped
    <3>2. Min(Editable(b)) \in Editable(b) /\ Min(Editable(b)) <= 1
      BY <2>4, <3>1, LeastOne
    <3>3. QED
      BY <2>4, <3>1, <3>2
  <2>7. KeptRows(b).supplied = b.invoices[1].adjusted /\ (b.invoices[1].adjusted => KeptRows(b).manual = b.invoices[1].manual)
    BY <2>4, <2>5, <2>6 DEF KeptRows
  <2>8. CASE b.invoices[1].adjusted
    <3>1. c \in Adjusted(Replaced(b, 1, b.charges, b.rate, b.discount), b.invoices[1].manual)
      BY <2>1, <2>7, <2>8
    <3>2. QED
      BY <2>2, <2>3, <2>4, <2>8, <3>1, RowsReturned
  <2>9. CASE ~b.invoices[1].adjusted
    <3>1. c = x
      BY <2>7, <2>9
    <3>2. ManualTotal(x) = ManualTotal(b) - b.invoices[1].manual
      BY <2>1, <2>2, <2>3, <2>4, ReplacedManual
    <3>3. QED
      BY <2>2, <2>5, <2>9, <3>1, <3>2
  <2>10. QED
    BY <2>5, <2>8, <2>9
<1>3. QED
  BY <1>1, <1>2

\* A check-in form without manual rows keeps the sum of those entered before,
\* as long as only one invoice that may still be changed has any: the form
\* carries the rows of one invoice over (update_reservation_for_check_in and
\* sync_booking_charge_invoices, then apply_check_in_invoice_adjustments).
THEOREM ManualRowsStay == Spec => ManualRowsKept
<1>1. ASSUME InvoicingInv, NEW charges \in Charges, NEW deposit \in {NoPayment, 0, 1},
             Cardinality({i \in Editable(bill) : bill.invoices[i].adjusted}) <= 1,
             SaveCheckInForm(charges, NoForm, deposit)
      PROVE  ManualTotal(bill') = ManualTotal(bill)
  <2>1. PICK rows, priced : rows = KeptRows(bill) /\ priced = Repriced(bill, charges)
    OBVIOUS
  <2>2. PICK b \in ChargesSynced(priced) :
          \E c \in IF rows.supplied THEN Adjusted(b, rows.manual) ELSE {b} :
            bill' \in IF deposit = NoPayment THEN {c} ELSE PaidAtDesk(c, deposit)
    BY <1>1, <2>1 DEF SaveCheckInForm, NoForm
  <2>3. PICK c \in IF rows.supplied THEN Adjusted(b, rows.manual) ELSE {b} :
          bill' \in IF deposit = NoPayment THEN {c} ELSE PaidAtDesk(c, deposit)
    BY <2>2
  <2>4. Good(bill) /\ BillRows(bill)
    BY <1>1 DEF InvoicingInv, Good
  <2>5. Good(priced) /\ priced.invoices = bill.invoices
    BY <1>1, <2>1, <2>4, RepricedGood
  <2>6. Editable(priced) = Editable(bill) /\ KeptRows(priced) = KeptRows(bill)
        /\ ManualTotal(priced) = ManualTotal(bill)
    BY <2>5 DEF Editable, KeptRows, ManualTotal, Live, Invoices
  <2>7. OneAdjusted(bill)
    <3> DEFINE S == {i \in Editable(bill) : bill.invoices[i].adjusted}
    <3>1. IsFiniteSet(Editable(bill)) /\ S \subseteq Editable(bill)
      BY <2>4, EditableTyped
    <3>2. IsFiniteSet(S)
      BY <3>1, FS_Subset
    <3>3. Cardinality(S) \in Nat
      BY <3>2, FS_CardinalityType
    <3>4. ~(Cardinality(S) > 1)
      BY <1>1, <3>3
    <3> HIDE DEF S
    <3>5. S # {} => \E e : S = {e}
      BY <3>2, <3>4, SoleOne
    <3>6. \A i, j \in S : i = j
      BY <3>5
    <3>7. QED
      BY <3>6 DEF OneAdjusted, S
  <2>8. OneAdjusted(priced)
    BY <2>5, <2>6, <2>7 DEF OneAdjusted
  <2>9. ManualTotal(c) = ManualTotal(bill)
    BY <2>1, <2>2, <2>3, <2>5, <2>6, <2>8, ChargesSyncedManual
  <2>10. CASE deposit = NoPayment
    BY <2>3, <2>9, <2>10
  <2>11. CASE deposit # NoPayment
    <3>1. bill' \in PaidAtDesk(c, deposit) /\ deposit \in Int
      BY <1>1, <2>3, <2>11 DEF NoPayment
    <3>2. Good(c)
      <4>1. Good(b)
        BY <2>2, <2>5, ChargesSyncedGood
      <4>2. CASE rows.supplied
        <5>1. rows.manual \in Int /\ c \in Adjusted(b, rows.manual)
          <6>1. NoForm \in Adjustments
            BY DEF Adjustments
          <6>2. KeptRows(bill).manual \in Int
            BY <2>4, <6>1, RowsTyped
          <6>3. QED
            BY <2>1, <2>3, <4>2, <6>2
        <5>2. QED
          BY <4>1, <5>1, AdjustedGood
      <4>3. CASE ~rows.supplied
        BY <2>3, <4>1, <4>3
      <4>4. QED
        BY <4>2, <4>3
    <3>3. Good(bill') /\ ManualKept(c, bill')
      BY <3>1, <3>2, PaidAtDeskGood
    <3>4. ManualTotal(bill') = ManualTotal(c)
      <4>1. BillRows(c) /\ BillRows(bill')
        BY <3>2, <3>3 DEF Good
      <4>2. Live(bill') = Live(c) /\ \A i \in Live(c) : bill'.invoices[i].manual = c.invoices[i].manual
        BY <3>3 DEF ManualKept, Live
      <4>3. QED
        BY <4>1, <4>2, ManualSame
    <3>5. QED
      BY <2>9, <3>4
  <2>12. QED
    BY <2>10, <2>11
<1>2. InvoicingInv /\ [Next]_vars =>
        [\A c \in Charges, deposit \in {NoPayment, 0, 1} :
           /\ Cardinality({i \in Editable(bill) : bill.invoices[i].adjusted}) <= 1
           /\ SaveCheckInForm(c, NoForm, deposit)
           => ManualTotal(bill') = ManualTotal(bill)]_vars
  BY <1>1
<1>3. QED
  BY <1>2, InvoicingInvariant, PTL DEF Spec, ManualRowsKept
=============================================================================
