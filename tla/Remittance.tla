----------------------------- MODULE Remittance -----------------------------
(***************************************************************************)
(* What Visit77 owes one hotel for its OTA bookings                        *)
(* (booking/remittance_services.py, booking/remittance_views.py): the      *)
(* revenue ledger synchronised from the payments, the statements that      *)
(* scheduled tasks, page views and commands write for each payout period,  *)
(* and the people who check, adjust, pay and confirm them.                 *)
(*                                                                         *)
(* A booking has one payment.  Tax and commission are left out: they scale *)
(* the gross amount.                                                       *)
(***************************************************************************)
EXTENDS Integers, FiniteSets, FiniteSetsExt, Functions

CONSTANTS
  Payments,     \* the OTA room payments of the hotel
  Workers,      \* Celery workers and requests that run a job side by side
  Amount,       \* Payment.amount
  Dates,        \* the days on which something happens; day 0 is a Monday
  MaxChanges    \* bound: how many refunds, moved stays, adjustments, reversals,
                \* recalculations and changes of the payout option there are

ASSUME RemittanceAssumption ==
  /\ IsFiniteSet(Payments)
  /\ IsFiniteSet(Workers)
  /\ Amount \in Nat \ {0}
  /\ Dates \subseteq Nat
  /\ IsFiniteSet(Dates)
  /\ Dates # {}
  /\ MaxChanges \in Nat

VARIABLES
  payment,   \* Payment with the check-in date and policy of its Booking
  books,     \* OTARevenueLedger, OTARemittanceItem, OTARemittance and settlement
  option,    \* Hotel.remittance_payout_option with its predecessor and start
  job,       \* what each worker has still to do, and what it has read for it
  robbed,    \* the statements that a late write has taken an item from
  today,     \* the date in the hotel's time zone
  changes    \* how many of the requests bounded by MaxChanges were served

vars == <<payment, books, option, job, robbed, today, changes>>

-----------------------------------------------------------------------------
(* Payout periods. *)

LastDate == Max(Dates)
Monday(d) == d - (d % 7)

PayoutOptions == {"weekly", "twice_weekly", "three_times_weekly"}

\* payout_periods_for_week, the week beginning on day m.
PayoutPeriods(opt, m) ==
  CASE opt = "weekly"             -> {<<m, m + 6>>}
    [] opt = "twice_weekly"       -> {<<m, m + 2>>, <<m + 3, m + 6>>}
    [] opt = "three_times_weekly" -> {<<m, m + 1>>, <<m + 2, m + 3>>, <<m + 4, m + 6>>}

Mondays == {Monday(d) : d \in Dates}
Periods == UNION {PayoutPeriods(opt, m) : opt \in PayoutOptions, m \in Mondays}
NoPeriod == <<>>

InWeek(p, m) == m <= p[1] /\ p[2] <= m + 6

\* Hotel.remittance_payout_option_for
OptionFor(d) == IF option.previous # "" /\ d < option.since THEN option.previous
                ELSE option.current

\* active_payout_period of day d under payout option opt.
ActiveUnder(opt, d) == CHOOSE p \in PayoutPeriods(opt, Monday(d)) : p[1] <= d /\ d <= p[2]
ActivePeriod(d) == ActiveUnder(OptionFor(Monday(d)), d)

-----------------------------------------------------------------------------
(* Rows. *)

NoDate == -1
Kinds == {"held", "collection", "release", "refund"}
Entries == Payments \X Kinds
Statuses == {"NONE", "ACCRUING", "PENDING", "CHECKED", "PAID", "RECEIVED"}
Settlements == {"UNPAID", "HELD", "AVAILABLE", "PENDING_REMITTANCE", "CHECKED", "PAID",
                "RECEIVED"}
Adjustments == {-1, 0, 1}

Unpaid == [paid_on |-> NoDate, check_in |-> NoDate, non_refundable |-> FALSE,
           refunded |-> 0, refunded_on |-> NoDate]
NoItem == [period |-> NoPeriod, gross |-> 0, refund |-> 0]
NoStatement == [status |-> "NONE", gross |-> 0, refund |-> 0, adjustment |-> 0, net |-> 0,
                was_paid |-> FALSE]

Made == {p \in Payments : payment[p].paid_on # NoDate}
Status(p) == books.statement[p].status
Settled == {"CHECKED", "PAID", "RECEIVED"}

\* The entries that have an item in statement p.
ItemsOf(b, p) == {e \in Entries : b.item[e].period = p}
BookingsOf(b, p) == {e[1] : e \in ItemsOf(b, p)}

\* Booking.settlement_status of the bookings of statement p.
WithSettlement(b, p, settlement) ==
  [b EXCEPT !.settlement = [q \in Payments |->
     IF q \in BookingsOf(b, p) THEN settlement ELSE b.settlement[q]]]

-----------------------------------------------------------------------------
(* The ledger. *)

Gross(kind) == IF kind = "refund" THEN 0 ELSE Amount

Entry(effective, refund) == [effective |-> effective, refund |-> refund]
NoEntry == Entry(NoDate, 0)

\* Paid before the stay and refundable: held until check-in.
Held(p) == ~payment[p].non_refundable /\ payment[p].paid_on < payment[p].check_in

\* Held funds are released on the day of check-in.
Released(p) == Held(p) /\ today >= payment[p].check_in

\* sync_payment_ledger of each payment in S: entries are updated or created,
\* and never removed.
Synced(b, S) ==
  [b EXCEPT
     !.ledger = [e \in Entries |->
       LET p == e[1]
       IN  CASE p \in S /\ e[2] = "held" /\ Held(p)         -> Entry(payment[p].paid_on, 0)
             [] p \in S /\ e[2] = "collection" /\ ~Held(p)  -> Entry(payment[p].paid_on, 0)
             [] p \in S /\ e[2] = "release" /\ Released(p)  -> Entry(payment[p].check_in, 0)
             [] p \in S /\ e[2] = "refund" /\ payment[p].refunded > 0 ->
                  Entry(payment[p].refunded_on, payment[p].refunded)
             [] OTHER -> b.ledger[e]],
     !.settlement = [p \in Payments |->
       IF p \notin S THEN b.settlement[p]
       ELSE IF Held(p) /\ ~Released(p) THEN "HELD" ELSE "AVAILABLE"]]

-----------------------------------------------------------------------------
(* Statements. *)

\* Seeded fault: a finalizer's retry writes the statement again.
NeverKept(s, listed, accruing) == FALSE

\* The early returns of generate_weekly_remittance.
Kept(s, listed, accruing) ==
  \/ s.status \in Settled
  \/ ~accruing /\ s.status = "PENDING" /\ listed # {}

\* Seeded fault: entries that another statement has are not left out.
EligibleTwice(b, p) ==
  {e \in Entries : /\ e[2] # "held" /\ b.ledger[e] # NoEntry
                   /\ p[1] <= b.ledger[e].effective /\ b.ledger[e].effective <= p[2]}

\* Entries effective in period p that no other statement has; what is held is
\* in none.
Eligible(b, p) ==
  {e \in Entries : /\ e[2] # "held" /\ b.ledger[e] # NoEntry
                   /\ p[1] <= b.ledger[e].effective /\ b.ledger[e].effective <= p[2]
                   /\ b.item[e].period \in {NoPeriod, p}}

Totals(b, entries, s, accruing) ==
  LET gross  == SumFunction([e \in entries |-> Gross(e[2])])
      refund == SumFunction([e \in entries |-> b.ledger[e].refund])
  IN  [s EXCEPT !.status = IF accruing THEN "ACCRUING" ELSE "PENDING",
                !.gross = gross, !.refund = refund, !.net = gross - refund]

\* The statement of period p is written for these entries, and an item for each
\* of them, which leaves the statement it was in.
Listed(b, p, entries, accruing) ==
  IF entries = {} THEN b
  ELSE [b EXCEPT
          !.statement[p] = Totals(b, entries, b.statement[p], accruing),
          !.item = [e \in Entries |->
             IF e \in entries
             THEN [period |-> p, gross |-> Gross(e[2]), refund |-> b.ledger[e].refund]
             ELSE b.item[e]],
          !.settlement = [q \in Payments |->
             IF \E e \in entries : e[1] = q
             THEN IF accruing THEN "AVAILABLE" ELSE "PENDING_REMITTANCE"
             ELSE b.settlement[q]]]

\* generate_weekly_remittance of period p, whose statement is locked from the
\* first look on: it is written anew from the ledger.
Generated(b, p, accruing) ==
  IF Kept(b.statement[p], ItemsOf(b, p), accruing) THEN b
  ELSE Listed(b, p, Eligible(b, p), accruing)

\* The statements of S are written one after the other, those of `active` as
\* accruing.
WrittenAnew(b, S, active) == FoldSet(LAMBDA p, acc : Generated(acc, p, p \in active), b, S)

\* Every period of S is closed.
AllClosed(b, S) == WrittenAnew(b, S, {})

\* The statements of S are deleted, and their items with them.
Deleted(b, S) ==
  [b EXCEPT !.statement = [p \in Periods |-> IF p \in S THEN NoStatement ELSE b.statement[p]],
            !.item = [e \in Entries |-> IF b.item[e].period \in S THEN NoItem ELSE b.item[e]]]

-----------------------------------------------------------------------------
(* Payments, as far as the ledger reads them. *)

Counted == changes < MaxChanges /\ changes' = changes + 1

\* An OTA room payment is recorded as PAID.
MakePayment(p, check_in, non_refundable) ==
  /\ p \notin Made
  /\ check_in >= today
  /\ payment' = [payment EXCEPT ![p] = [Unpaid EXCEPT
       !.paid_on = today, !.check_in = check_in, !.non_refundable = non_refundable]]
  /\ UNCHANGED <<books, option, job, robbed, today, changes>>

\* refund_payment
RefundPayment(p, amount) ==
  /\ Counted
  /\ p \in Made
  /\ amount <= Amount - payment[p].refunded
  /\ payment' = [payment EXCEPT ![p].refunded = @ + amount, ![p].refunded_on = today]
  /\ UNCHANGED <<books, option, job, robbed, today>>

\* update_reservation_for_check_in moves the stay.
Reschedule(p, check_in) ==
  /\ Counted
  /\ p \in Made
  /\ check_in >= today
  /\ payment' = [payment EXCEPT ![p].check_in = check_in]
  /\ UNCHANGED <<books, option, job, robbed, today>>

\* sync_payment_ledger, of which every job and page that syncs runs one
\* transaction for each payment.
SyncPayment(p) ==
  /\ p \in Made
  /\ books' = Synced(books, {p})
  /\ UNCHANGED <<payment, option, job, robbed, today, changes>>

-----------------------------------------------------------------------------
(* Jobs: each reads the date and the periods due, and then writes the       *)
(* statements one transaction after the other.                              *)

Idle == [close |-> {}, accrue |-> NoPeriod, missing |-> NoPeriod, entries |-> {}]

\* Seeded fault: a period is closed on its last day.
DueOnLastDay(b, opt) ==
  {p \in Periods : \/ b.statement[p].status = "ACCRUING" /\ p[2] < today
                   \/ p \in PayoutPeriods(opt, Monday(today)) /\ p[2] <= today}

\* The periods that refresh_current_week_remittance closes: statements still
\* accruing, and this week's periods that have ended.
Due(b, opt) ==
  {p \in Periods : \/ b.statement[p].status = "ACCRUING" /\ p[2] < today
                   \/ p \in PayoutPeriods(opt, Monday(today)) /\ p[2] < today}

\* The sync task, the hotel's revenue page.
StartRefresh(w) ==
  /\ job[w] = Idle
  /\ job' = [job EXCEPT ![w] = [Idle EXCEPT !.close = Due(books, OptionFor(today)),
                                            !.accrue = ActivePeriod(today)]]
  /\ UNCHANGED <<payment, books, option, robbed, today, changes>>

\* generate_previous_week_remittances: the period before the current week or,
\* paid three times a week, before the current period.
StartFinalizer(w) ==
  LET cutoff == IF OptionFor(today) = "three_times_weekly" THEN ActivePeriod(today)[1]
                ELSE Monday(today)
  IN  /\ job[w] = Idle
      /\ cutoff > 0 /\ ActivePeriod(cutoff - 1) \in Periods
      /\ job' = [job EXCEPT ![w] = [Idle EXCEPT !.close = {ActivePeriod(cutoff - 1)}]]
      /\ UNCHANGED <<payment, books, option, robbed, today, changes>>

\* The periods whose turn it is: those to close, then the active one.
Turn(w) == IF job[w].close # {} THEN job[w].close ELSE {job[w].accrue} \ {NoPeriod}
Accruing(w) == job[w].close = {}

\* Period p is done with.
Done(w, p) ==
  job' = [job EXCEPT ![w] = IF Accruing(w) THEN Idle
                            ELSE [job[w] EXCEPT !.close = @ \ {p}, !.missing = NoPeriod,
                                                !.entries = {}]]

\* One that is found is locked and written in one go; one that is not may be,
\* with nobody in between.
WriteNext(w) ==
  \E p \in Turn(w) :
    /\ job[w].missing = NoPeriod
    /\ books' = Generated(books, p, Accruing(w))
    /\ Done(w, p)
    /\ UNCHANGED <<payment, option, robbed, today, changes>>

\* But of one that is not found nothing is locked,
FindNone(w) ==
  \E p \in Turn(w) :
    /\ job[w].missing = NoPeriod
    /\ Status(p) = "NONE"
    /\ job' = [job EXCEPT ![w].missing = p]
    /\ UNCHANGED <<payment, books, option, robbed, today, changes>>

\* the entries are those in no statement yet,
ReadEntries(w) ==
  LET p == job[w].missing
      entries == {e \in Eligible(books, p) : books.item[e] = NoItem}
  IN  /\ p # NoPeriod /\ job[w].entries = {}
      /\ IF entries = {} THEN Done(w, p) ELSE job' = [job EXCEPT ![w].entries = entries]
      /\ UNCHANGED <<payment, books, option, robbed, today, changes>>

\* and once they are locked, those of them still effective in the period are
\* written to its statement, new or not, whatever has become of both meanwhile.
WriteMissing(w) ==
  LET p == job[w].missing
      entries == {e \in job[w].entries : p[1] <= books.ledger[e].effective
                                           /\ books.ledger[e].effective <= p[2]}
  IN  /\ job[w].entries # {}
      /\ books' = Listed(books, p, entries, Accruing(w))
      /\ robbed' = robbed \cup ({books.item[e].period : e \in entries} \ {p, NoPeriod})
      /\ Done(w, p)
      /\ UNCHANGED <<payment, option, today, changes>>

\* A worker is killed, or its transaction fails: what is left is not done.
Crash(w) ==
  /\ job[w] # Idle
  /\ job' = [job EXCEPT ![w] = Idle]
  /\ UNCHANGED <<payment, books, option, robbed, today, changes>>

-----------------------------------------------------------------------------
(* Changes of the payout option. *)

ThisWeek == {p \in Periods : InWeek(p, Monday(today))}
Existing(S) == {p \in S : Status(p) # "NONE"}

\* SuperAdminHotelPayoutOptionView.post, one transaction with the refresh.
SwitchPayoutOption(opt) ==
  /\ Counted
  /\ opt # option.current
  /\ \A p \in Existing(ThisWeek) : Status(p) = "ACCRUING"
  /\ option' = [current |-> opt, previous |-> "", since |-> 0]
  /\ LET left == Synced(Deleted(books, Existing(ThisWeek)), Made)
     IN  books' = Generated(AllClosed(left, Due(left, opt)), ActiveUnder(opt, today), TRUE)
  /\ UNCHANGED <<payment, job, robbed, today>>

\* A statement of this week that set_three_times_weekly_remittances may delete.
Rebuildable(p) ==
  /\ Status(p) \in {"ACCRUING", "PENDING"}
  /\ books.statement[p].adjustment = 0
  /\ ~books.statement[p].was_paid

\* The command set_three_times_weekly_remittances: from next week when a
\* statement of this week is protected; at once otherwise, and then every item
\* of the statements deleted must be in a new one.
SetThreeTimesWeekly ==
  LET week  == Existing(ThisWeek)
      m     == Monday(today)
      new   == PayoutPeriods("three_times_weekly", m)
      wiped == Deleted(books, week)
      active == {p \in new : p[1] <= today /\ today <= p[2]}
      built == WrittenAnew(wiped, {p \in new : p[1] <= today}, active)
      items(b, S) == UNION {ItemsOf(b, p) : p \in S}
  IN  /\ Counted
      /\ option.current # "three_times_weekly"
      /\ option' = [current |-> "three_times_weekly", previous |-> option.current,
                    since |-> IF \A p \in week : Rebuildable(p) THEN m ELSE m + 7]
      /\ IF \A p \in week : Rebuildable(p)
         THEN /\ items(books, week) \subseteq items(built, ThisWeek)
              /\ books' = built
         ELSE UNCHANGED books
      /\ UNCHANGED <<payment, job, robbed, today>>

-----------------------------------------------------------------------------
(* People. *)

Write(p, s) == books' = WithSettlement([books EXCEPT !.statement[p] = s], p, s.status)
Others == <<payment, option, job, robbed, today>>

Check(p) ==
  /\ Status(p) = "PENDING"
  /\ Write(p, [books.statement[p] EXCEPT !.status = "CHECKED"])
  /\ UNCHANGED <<Others, changes>>

\* The net payout before adjustment.
AvailableAmount(p) == books.statement[p].net - books.statement[p].adjustment

\* SuperAdminRemittanceAdjustmentView: patch, and delete for amount 0.
Adjust(p, amount) ==
  /\ Status(p) \in {"PENDING", "CHECKED"}
  /\ amount # 0 => AvailableAmount(p) + amount >= 0
  /\ books' = [books EXCEPT !.statement[p].adjustment = amount,
                            !.statement[p].net = AvailableAmount(p) + amount]
  /\ Counted
  /\ UNCHANGED Others

Pay(p) ==
  /\ Status(p) \in {"PENDING", "CHECKED"}
  /\ Write(p, [books.statement[p] EXCEPT !.status = "PAID", !.was_paid = TRUE])
  /\ UNCHANGED <<Others, changes>>

Receive(p) ==
  /\ Status(p) = "PAID"
  /\ Write(p, [books.statement[p] EXCEPT !.status = "RECEIVED"])
  /\ UNCHANGED <<Others, changes>>

\* SuperAdminRemittanceReopenReceiptView
ReopenReceipt(p) ==
  /\ Status(p) = "RECEIVED"
  /\ Write(p, [books.statement[p] EXCEPT !.status = "PAID"])
  /\ Counted
  /\ UNCHANGED Others

ResetToPending(p) ==
  /\ Status(p) \notin {"NONE", "ACCRUING"}
  /\ books' = WithSettlement(
       [books EXCEPT !.statement[p].status = "PENDING", !.statement[p].adjustment = 0,
                     !.statement[p].net = AvailableAmount(p)], p, "PENDING_REMITTANCE")
  /\ Counted
  /\ UNCHANGED Others

\* The command recalculate_unpaid_remittances.  What is owed is computed again
\* from the amounts stored, and a checked statement that comes out otherwise is
\* to be checked again; a `legacy` one bore commission under an older rule.
Recalculate(p, legacy) ==
  LET s   == books.statement[p]
      net == s.gross - s.refund + s.adjustment
  IN  /\ s.status \in {"ACCRUING", "PENDING", "CHECKED"}
      /\ legacy \/ net # s.net
      /\ books' = [books EXCEPT !.statement[p].net = net,
                                !.statement[p].status = IF @ = "CHECKED" THEN "PENDING" ELSE @]
      /\ Counted
      /\ UNCHANGED Others

Tick ==
  /\ today < LastDate
  /\ today' = Min({d \in Dates : d > today})
  /\ UNCHANGED <<payment, books, option, job, robbed, changes>>

-----------------------------------------------------------------------------
Init ==
  /\ payment = [p \in Payments |-> Unpaid]
  /\ books = [ledger |-> [e \in Entries |-> NoEntry], item |-> [e \in Entries |-> NoItem],
              statement |-> [p \in Periods |-> NoStatement],
              settlement |-> [p \in Payments |-> "UNPAID"]]
  /\ option \in [current : PayoutOptions, previous : {""}, since : {0}]
  /\ job = [w \in Workers |-> Idle]
  /\ robbed = {}
  /\ today = Min(Dates)
  /\ changes = 0

Paying(p) ==
  \/ \E d \in Dates, non_refundable \in BOOLEAN : MakePayment(p, d, non_refundable)
  \/ \E amount \in 1 .. Amount : RefundPayment(p, amount)
  \/ \E d \in Dates : Reschedule(p, d)
  \/ SyncPayment(p)

Job(w) ==
  \/ StartRefresh(w) \/ StartFinalizer(w) \/ WriteNext(w) \/ FindNone(w) \/ ReadEntries(w)
  \/ WriteMissing(w) \/ Crash(w)

Review(p) ==
  \/ Check(p) \/ Pay(p) \/ Receive(p) \/ ReopenReceipt(p) \/ ResetToPending(p)
  \/ \E amount \in Adjustments : Adjust(p, amount)
  \/ \E legacy \in BOOLEAN : Recalculate(p, legacy)

Switching == SetThreeTimesWeekly \/ \E opt \in PayoutOptions : SwitchPayoutOption(opt)

Next ==
  \/ \E p \in Payments : Paying(p)
  \/ \E w \in Workers : Job(w)
  \/ \E p \in Periods : Review(p)
  \/ Switching
  \/ Tick

Spec == Init /\ [][Next]_vars

-----------------------------------------------------------------------------
(* Properties. *)

\* Every variable keeps its type.
RemittanceTypeOK ==
  /\ \A p \in Payments : payment[p].refunded \in 0 .. Amount /\ payment[p].paid_on <= today
  /\ books.item \in [Entries -> [period : Periods \cup {NoPeriod}, gross : {0, Amount},
                                 refund : 0 .. Amount]]
  /\ books.settlement \in [Payments -> Settlements]
  /\ \A p \in Periods : Status(p) \in Statuses /\ books.statement[p].adjustment \in Adjustments
  /\ robbed \subseteq Periods
  /\ today \in Dates

\* A worker that found no statement p writes one now; or it writes entries that
\* were in none when it read them, and are in p.
Overtaken(p) ==
  \E w \in Workers :
    /\ WriteMissing(w)
    /\ p = job[w].missing \/ \E e \in job[w].entries : books.item[e].period = p

\* What was checked is what is paid: no job, option change or synchronisation
\* changes the amounts, the items or the status of a statement that has been
\* checked or paid.  Only people, and the command they run to recalculate it,
\* move it on, or back; and a worker that has looked for the statement, or for
\* its entries, before it was written.
StatementsFinal ==
  [][\A p \in Periods : Status(p) \in Settled =>
       \/ /\ ItemsOf(books', p) = ItemsOf(books, p)
          /\ books'.statement[p].gross = books.statement[p].gross
          /\ books'.statement[p].refund = books.statement[p].refund
          /\ books'.statement[p] = books.statement[p] \/ Review(p)
       \/ Overtaken(p)]_vars

\* A statement is due for checking only when its period has ended, so that
\* nothing more can become effective in it.
OnlyClosedPeriodsDue ==
  \A p \in Periods : Status(p) \in Settled \cup {"PENDING"} => p[2] < today
=============================================================================
