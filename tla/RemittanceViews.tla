-------------------------- MODULE RemittanceViews --------------------------
(***************************************************************************)
(* What the hotel and Visit77's accountants are shown of Remittance        *)
(* (booking/remittance_views.py, OTARevenueView in booking/views.py).      *)
(*                                                                         *)
(* The hotel has a revenue page computed from its payments, pages of held  *)
(* funds and refunds read from the ledger, the statement it is to be paid  *)
(* next, and the statements with their items in sections.  Accountants     *)
(* have a row for the hotel with the statement to act on, and the list of  *)
(* payments to make.  Nothing here is stored.                              *)
(***************************************************************************)
EXTENDS Remittance

-----------------------------------------------------------------------------
(* The hotel's revenue, from its payments: OTARevenueView. *)

Remaining(p) == Amount - payment[p].refunded

RevenueStatus(p) ==
  IF Remaining(p) = 0 THEN "refunded"
  ELSE IF payment[p].non_refundable \/ today >= payment[p].check_in THEN "available"
  ELSE "held"

Advance(p) == payment[p].paid_on < payment[p].check_in

Revenue(p) ==
  LET part(status) == IF RevenueStatus(p) = status THEN Remaining(p) ELSE 0
      released == IF ~payment[p].non_refundable /\ Advance(p) THEN part("available") ELSE 0
  IN  [held |-> part("held"), released |-> released,
       collection |-> part("available") - released, refunded |-> payment[p].refunded]

-----------------------------------------------------------------------------
(* Pages read from the ledger, which they bring up to date first. *)

Ledger == Synced(books, Made).ledger

\* Seeded fault: released money is listed too.
HeldFundsForever == {p \in Payments : Ledger[<<p, "held">>] # NoEntry /\ Remaining(p) > 0}

\* HotelHeldFundsView: money held and not released, without what was refunded.
HeldFunds == {p \in Payments : /\ Ledger[<<p, "held">>] # NoEntry
                               /\ Ledger[<<p, "release">>] = NoEntry
                               /\ Remaining(p) > 0}

\* HotelRefundsView
Refunds == [p \in {q \in Payments : Ledger[<<q, "refund">>] # NoEntry} |->
              Ledger[<<p, "refund">>].refund]

-----------------------------------------------------------------------------
(* The items of a statement: _group_remittance_items.  The rows of a section   *)
(* are items; a refund is shown in the rows of its payment or, when the        *)
(* statement has none, in a row of its own among the collections.              *)

Rows(p, section) ==
  {e \in ItemsOf(books, p) :
     \/ e[2] = section
     \/ /\ section = "collection" /\ e[2] = "refund"
        /\ \A kind \in {"collection", "release"} : <<e[1], kind>> \notin ItemsOf(books, p)}

RefundIn(p, e) ==
  IF <<e[1], "refund">> \in ItemsOf(books, p) THEN books.item[<<e[1], "refund">>].refund ELSE 0

SectionTotals(p, section) ==
  [amount |-> SumFunction([e \in Rows(p, section) |-> books.item[e].gross]),
   refund |-> SumFunction([e \in Rows(p, section) |-> RefundIn(p, e)])]

DetailTotals(p) ==
  LET c == SectionTotals(p, "collection")
      r == SectionTotals(p, "release")
  IN  [amount |-> c.amount + r.amount, refund |-> c.refund + r.refund]

-----------------------------------------------------------------------------
(* The statement the hotel is to be paid next: HotelAvailableRevenueView. *)

Outstanding(b) == {p \in Periods : b.statement[p].status \in {"PENDING", "CHECKED"}}

\* refresh_current_week_remittance, with nobody else at work.
Refreshed ==
  Generated(AllClosed(Synced(books, Made), Due(books, OptionFor(today))), ActivePeriod(today), TRUE)

UnpaidIn(b, S) == {p \in S : b.statement[p].status \notin {"NONE", "PAID", "RECEIVED"}}

First(S) == CHOOSE p \in S : \A q \in S : p[1] <= q[1]

\* Statements of this week that are to be paid before the current one, of a
\* hotel whose week has two periods from weekday `second` on.
BlockingFrom(b, second) ==
  LET m == Monday(today)
  IN  CASE OptionFor(today) = "three_times_weekly" ->
             UnpaidIn(b, {p \in Periods : m <= p[1] /\ p[2] < ActivePeriod(today)[1]})
        [] OptionFor(today) = "twice_weekly" /\ today % 7 >= second ->
             UnpaidIn(b, {<<m, m + 2>>})
        [] OTHER -> {}

\* Seeded fault: on the first day of its second period the week's first one is
\* not looked for.
BlockingFromFriday(b) == BlockingFrom(b, 4)

Blocking(b) == BlockingFrom(b, 3)

AvailableRevenue(b) == IF Blocking(b) = {} THEN ActivePeriod(today) ELSE First(Blocking(b))

-----------------------------------------------------------------------------
(* The accountants' pages. *)

\* SuperAdminRemittanceListView: the statement to act on, none if nothing is due.
ActionRecord(b) == IF Outstanding(b) = {} THEN NoPeriod ELSE First(Outstanding(b))

\* SuperAdminRemittancePaymentListView.payment_records, of those not yet paid.
ToPay(b) == {p \in Outstanding(b) : b.statement[p].net > 0 /\ b.statement[p].gross > 0}

-----------------------------------------------------------------------------
(* Properties. *)

\* No statement claims more than its details list, whatever sections its items
\* are put into, and nothing is claimed by two, as an item is in one statement
\* at a time; unless a late write took items from it, which leaves its amounts
\* as they were.  A refund is listed once, unless the stay was moved and its
\* payment both collected and released in the statement.
TotalsAreListed ==
  /\ RemittanceTypeOK
  /\ \A p \in Existing(Periods) :
       LET total  == DetailTotals(p)
           refund == SumFunction([e \in ItemsOf(books, p) |-> books.item[e].refund])
       IN  /\ p \notin robbed => /\ books.statement[p].gross <= total.amount
                              /\ books.statement[p].refund <= refund
           /\ refund <= total.refund
           /\ \/ total.refund = refund
              \/ \E q \in Payments :
                   {<<q, "collection">>, <<q, "release">>} \subseteq ItemsOf(books, p)

\* The stay was not moved over its payment or over its release, so that the
\* ledger has it once.
LedgerInOrder(p) ==
  /\ Ledger[<<p, "collection">>] # NoEntry <=> ~Held(p)
  /\ Ledger[<<p, "held">>] # NoEntry <=> Held(p)
  /\ Ledger[<<p, "release">>] # NoEntry <=> Released(p)

\* The two pages of the hotel's money agree, though one reads the payments and
\* the other the ledger that jobs and pages write: what is held, released,
\* collected and refunded is the same, and no money shown as held is in a
\* statement to be paid.
RevenueTellsLedger ==
  \A p \in Made : LedgerInOrder(p) =>
    /\ p \in HeldFunds <=> Revenue(p).held > 0
    /\ Revenue(p).released > 0 => Ledger[<<p, "release">>] # NoEntry
    /\ Revenue(p).collection > 0 => Ledger[<<p, "collection">>] # NoEntry
    /\ Revenue(p).refunded > 0 <=> p \in DOMAIN Refunds /\ Refunds[p] = Revenue(p).refunded
    /\ p \in HeldFunds => \A kind \in {"collection", "release"} : books.item[<<p, kind>>] = NoItem

\* A statement left accruing when its period ends: all it was written for has
\* moved to other days since, and nothing closes it.
Stranded(b, p) == b.statement[p].status = "ACCRUING" /\ Eligible(b, p) = {}

\* Nobody is paid out of turn: the hotel is told of the current period only
\* when every earlier statement of its week is paid (but for one a job wrote
\* after the payout option was changed), and the one it is told of otherwise is
\* the one the accountants are to act on, unless they have older debts, or it
\* is stranded.
PaidInTurn ==
  LET b     == Refreshed
      shown == AvailableRevenue(b)
      act   == ActionRecord(b)
  IN  /\ \A p \in PayoutPeriods(OptionFor(today), Monday(today)) :
           p[1] < shown[1] => b.statement[p].status \in {"NONE", "PAID", "RECEIVED"}
      /\ shown # ActivePeriod(today) /\ ~Stranded(b, shown) =>
           act # NoPeriod /\ act[1] <= shown[1]
      /\ \A p \in ToPay(b) : act[1] <= p[1]
=============================================================================
