# Visit77 Booking Engine: a formal model

TLA+ modules that model the Booking Engine (`src/booking`), the TLC runs that
check them on small instances, and proofs, checked by TLAPS, that most of what
the runs check holds of every instance. File and line references are to `src/`; `services.py`, `views.py` and the like are in `src/booking/`.

- [What the system is](#what-the-system-is)
- [The modules](#the-modules)
- [The runs](#the-runs)
- [Fairness](#fairness)
- [What is proved](#what-is-proved)
- [Where the code and its documentation part ways](#where-the-code-and-its-documentation-part-ways)
- [Known deviations](#known-deviations)
- [What is not modelled](#what-is-not-modelled)
- [Plan](#plan)

## What the system is

A Django/DRF service beside Visit77 Core. Core owns hotels and room types;
this service owns rates, daily inventory, bookings, guests, payments,
invoices, room assignment, and what Visit77 owes each hotel. Gunicorn workers
serve requests concurrently over one PostgreSQL database; Celery workers run
queued and scheduled tasks over the same database. There is no other shared
state: components interact through rows, row locks, and tasks queued on
commit.

| Component | State | Operations | What is hard | What makes it correct | Modelled in |
|---|---|---|---|---|---|
| Booking inventory (`services.py`) | `DailyInventory` rows: total, held, reserved, closed, stop-sell; `Booking` and `BookingRoom` | create, admin reservation, walk-in, pay, cancel, expire, check in, check out, restore a no-show | Counters are moved incrementally, and rebuilt from the bookings by some paths; payment races expiry; several nights move together | Counters are exactly the bookings they stand for; never committed beyond the total; only open rooms are sold; every hold ends | `BookingInventory`, `BookingPromise` |
| Inventory administration (`views.py`, `services.py`) | rooms in service, room blocks, OTA closures, allotments, default totals | edit rooms, block, close, allot, bulk upsert, nightly rolling window | Totals are lowered after rooms were sold; rows outside the refreshed window keep old totals | Totals cover commitments whatever the hotel edits | `BookingInventory` |
| Inventory modes and corrections | `Hotel.inventory_mode`, allotment configured or not | switch mode, correct a reservation, no-show job | Bookings of the other mode leave the counters and come back; requests act on a mode they read before | Counters are right again after any sequence of switches and corrections | `InventorySilos` |
| Stays and physical rooms (`views.py`) | `RoomAssignment`, `PhysicalRoom.status`, `PhysicalRoomBlock` | auto-assign on payment, assign, unassign, change room, correct, check in, check out a booking or one room, clean, repair, block | Some handlers lock the booking, some lock nothing; `SELECT ... FOR UPDATE` filters before it waits | One reservation per room and night; a guest has a room, an OCCUPIED one; nobody is sent to a blocked room | `RoomStays`, `RoomRaces` |
| Room board, search, OTA records, room log | `PhysicalRoomActionHistory`; the rest is computed | compute the board, a room's page, the search, the readiness, the records; write the log | Each view has code of its own; the log is written handler by handler | The views agree with one another and with the handlers | `RoomBoard` |
| Payments, invoices, refunds | `Invoice`, its lines, `Payment`, `Refund` | save the check-in form, record, gateway success, extra invoice, refund | Charges move between invoices; reports repeat; refunds share one allowance | Every charge is billed; paid invoices stay; refunds within policy | `Invoicing` |
| Remittance (`remittance_services.py`) | ledger, items, statements, payout option | synchronise, refresh, finalise, check, adjust, pay, receive, reopen, reset | Scheduled and manual runs rewrite the same statements, crash and overlap | Each entry in one statement; a checked statement does not change; only closed periods are due; the pages agree, and periods are paid in turn | `Remittance`, `RemittanceViews` |
| Core integration (`integrations/core.py`) | event inbox, access snapshot, physical rooms | receive an event, sync a business, deprovision | Events repeat and reorder; the bundle is fetched inside the transaction; a deleted room comes back under another id | Each event applied once and in the end; the rooms mirror one catalogue; the hotel's choices survive | `CoreEvents` |
| Jobs and notices (`tasks.py`) | queued mails and messages, notifications, the audit log | queue on commit, send, retry | Tasks and answers are lost, repeated, late | Guest and hotel are told, once | `Notices` |
| Rates, pricing, search, estimates | room price, `RatePlan`, `DailyRate`, `RatePeriod`, campaigns, extras, `BookingRoomNight` | set prices, sync, edit periods, search, estimate, book, save the form | Four pieces of code compute a night's price; two editors save periods at once | What is offered can be booked at the price offered; nights sold keep their price | `Pricing` |
| Document numbers; add-on templates; receipts and PDF; serializers, permissions, admin; commands | sequences, request status; none; configuration | assign codes; review; format; validate | | | see [What is not modelled](#what-is-not-modelled) |

`PROJECT.json` lists the same components with their sources, and under
`hazards` each place where the code can go wrong in a way a test would hardly
reach, with the properties that watch it. `map` names the lines each definition
stands for.

## The modules

```
BookingPromise  <-- implemented by --  BookingInventory  <-- extended by --  InventorySilos
RoomStays  <-- extended by --  RoomRaces,  RoomBoard
Remittance  <-- extended by --  RemittanceViews
Invoicing    CoreEvents    Notices    Pricing
```

### `BookingInventory` and `BookingPromise`

One `RoomType`, its `DailyInventory` pool, and the bookings that draw on it.

| Variable | Code |
|---|---|
| `booking` | `Booking` with one `BookingRoom`: status, source, mode snapshot, dates, quantity, `hold_expires_at`, whether a payment was recorded |
| `rows` | `DailyInventory` per stay date, `exists` telling whether the row has been created |
| `inventory_mode`, `access` | `Hotel.inventory_mode`; `is_active`/`booking_enabled`, with the reason when off |
| `overtaken` | requests that read `is_active` before the hotel was switched off and have their booking still to place |
| `active_rooms`, `blocked_rooms` | sellable physical rooms, and how many of them are blocked on each date |
| `count_inventory`, `default_inventory`, `rooms_to_close` | the count-mode allotment, the default total of rows created on the fly, the open closures |
| `now` | the clock, `TicksPerDay` ticks a local day |

Each action is one whole transaction. That is what the code gives: every
handler in the module takes `select_for_update` on the inventory rows it
changes (and the booking, where there is one) before it reads the numbers it
acts on, so transactions that share a row are serialised. `is_active` is read
without a lock (`services.py:1705`): switching the hotel off overtakes any set of
the requests that have read it (`Overtakes`), and these may place their booking
at any later time (`Admitted`). The requests that do
not keep this discipline are under [Known deviations](#known-deviations).

| Action | Handler |
|---|---|
| `CreateBooking`, `CreateAdminReservation`, `CreateWalkIn` | the `create_*` services with `_lock_inventory`, `_move_inventory` and, where they call it, `reconcile_daily_inventory_for_room_type` |
| `RecordPayment`, `CancelBooking`, `ExpirePendingBookings` | the services of those names |
| `CheckIn`, `CheckOut` | `BookingViewSet`: effect on the pool only |
| `RestoreNoShow` | `restore_paid_room_type_count_no_show_booking` |
| `EnsureRollingDailyInventory` | the nightly beat task |
| `UpdatePhysicalRooms`, `UpdateRoomBlock`, `UpdateClosure`, `PutCountInventory`, `BulkUpsert` | the admin views, each with the refresh of the window that follows it |
| `SyncBusinessFromCore`, `DeprovisionHotel` | the Core sync and the revoked/expired event, as far as the pool sees them |

The counter moves are written as sums over the bookings concerned
(`QuantityOn`), so one definition serves a single cancellation and the job that
expires a batch. A sum of quantities is the cardinality of a set of
`<<booking, k>>` pairs, which needs no recursion and can be reasoned about with
the finite-set theorems.

Abstracted: a booking has one room line (the code loops over lines, treating
each alike under the same locks); prices, guests and add-ons are left out; a
room type missing from Core's bundle is `enabled = FALSE`; a hold runs from the
moment its booking is placed, where the code takes the time a little earlier,
before it waits for the rows.

`BookingPromise` is the abstract specification: bookings go through one life
in order, begin by taking rooms and end by giving some back, nothing else
takes rooms or gives them back, and what is taken fits the capacity the hotel
has at that moment. It knows neither counters, rows, closures nor rebuilds.
`Promised` in `BookingInventory` is the refinement mapping (`life` from
`Booking.status`, `taken` from `held_rooms + reserved_rooms`, `capacity` from
`total_rooms`), and `KeepsPromise` says the pool implements it.

`Outline` is what is left of the promise where one step may take rooms on one
night and give others back on the next (a correction), or counters are
replaced by a recount: lives still go in order, `Turns`, one booking at a time
unless they expire together, and what is taken still fits. `InventorySilos` and
`RoomStays` keep the outline (`KeepsOutline`, `RoomsKeepOutline`): no sequence
of mode switches, corrections, check-outs room by room or recounts commits more
rooms than there are or turns a life back, though some of them make the
counters inexact. `PromiseHasOutline` shows that the outline is part of the
promise.

### `InventorySilos`

Extends `BookingInventory` with what makes the two inventories of a hotel
interfere: `SwitchMode` (`OTARoomSelectionView.patch` with its rebuild of the
window), `CorrectReservation` (`update_reservation_for_check_in`),
`SetAllotment`, the no-show job, which reads a list (`FindNoShows`) and works
through it booking by booking (`CancelNoShow`, `PassOver`) while others act,
and an OTA request that reads the hotel's mode (`AskForBooking`) and places its
booking after a switch (`BookAsAsked`). A switch computes with the pool's own
operators under the mode it has just saved (`Under`, an `INSTANCE` of
`BookingInventory`).

Two history variables say when a statement about the counters is meant to
hold: `settled`, the dates the last rebuild covered, and `strayed`, whether a
request has placed a booking in a mode it had read before a switch.

### `RoomStays` and `RoomRaces`

The physical rooms of one type in a physical-room hotel: the assignments not
yet released, the status of each room, the blocks, and `reserved_rooms`. In
`RoomStays` every action is one request served alone. `record_payment`
auto-assigns rooms in the same action; `check_in` first repairs rooms left
OCCUPIED by nobody; `create_walk_in_booking` rebuilds the counters of its
nights before it charges them; `cancel_booking` frees rooms left occupied;
`CorrectReservation` moves a reservation and names its rooms.

Abstracted: which of the candidates auto-assignment prefers (any may be
taken, so OTA-open flags and preferred numbers need no state); totals (a
booking is accepted while the hotel has rooms for it; the totals are the
subject of `BookingInventory`); the expiry of a hold, which does here what a
cancellation of a pending booking does; unpaid invoices, which stop a
check-out and nothing else; one block a room at a time. A hotel that overrides
by hand the status of a room with a guest in it is left out: it may set any
status it likes, and what it then sees is what it asked for.

`StaySpec` gives rooms by form to paid reservations alone; `FormSpec` lets the
form name rooms for a reservation still waiting for its payment, as the code
does. The first is what every property is checked under, the second is the
subject of a [finding](#where-the-code-and-its-documentation-part-ways).

`RoomRaces` adds one request caught between what it reads and what it writes,
while any others are served. The gaps are those the code has under
PostgreSQL's READ COMMITTED, where a statement sees what was committed when it
began, even if it then waits for a row lock: `unassign_room` and `change_room`
check a booking they have not locked; edits of `PhysicalRoom` and
`PhysicalRoomBlock` validate in the serializer and save later, in no
transaction; auto-assignment, `cancel_booking` and `check_out` lock their
booking and then read rooms or assignments in one statement that may wait.
`LocksKept` is what the caught request's locks exclude: nobody changes its
booking or the counters of its nights. `Fail` lets it roll back. One caught
request shows each race; a race that needs two caught at once is not covered.

### `RoomBoard`

Extends `RoomStays` with what the staff are told. The board (`Board`,
`Timeline`, `Counts`), a room's detail page (`RoomDetail`), the room search
(`Searched`), the readiness shown on the check-in form (`Ready`) and the OTA
records of a room and their totals (`Records`, `TotalBookings`) are operators
over the rows, one per piece of code, computed in every state. Three variables
are added: which bookings came from the OTA, the released assignments, and the
status the last event of each room's log named. Each action is an action of
`RoomStays` together with the log events its handler writes; the events of
`unassign_room` and of blocks name no status (`views.py:6178-6186`,
`4736-4793`), so `told` stays as it was.

### `Invoicing`

The bill of one booking. `bill` holds the charges, the invoices with their
lines, and the receipts; a helper maps a bill to the set of bills that may
follow, empty where a `ValidationError` rolls the request back, so a handler is
the composition of its calls in order. Actions: `SaveCheckInForm` (charges,
manual rows, deposit), `RecordPayment`, `CreateBookingInvoice`, the gateway
(`PayAtGateway`, then `ReportPayment` any number of times), `Cancel`,
`Expire`, `CheckIn`, `CheckOut`, and refunds in two steps (`StartRefund` takes
the locks and computes what is allowed, `WriteRefund` writes), any number of
requests side by side. The cut-off of the policy may pass at any time
(`PassCutOff`), also between the two: a refund is quoted at one moment
(`services.py:3600`) and written at a later one. `Lockable` is the code's locking query: its join makes
two refunds of one booking wait for one another.

Abstracted: service charges and taxes are one fee, a multiple of the base;
manual charges, taxes, discount and adjustment are one signed amount a form;
payments left PENDING; receipts as documents; inventory.

### `Remittance`

What Visit77 owes one hotel. `Synced` is the ledger synchronisation
(held or collected when paid, released at check-in, refunded), `Generated` is
`generate_weekly_remittance` for one payout period. Workers run the rolling
refresh (`StartRefresh`) or the weekly finaliser (`StartFinalizer`): each is a
list of periods to close, then the active one to accrue (`Turn`), one
transaction at a time, and may die in between (`Crash`). A statement that is
found is locked and written in one step (`WriteNext`). One that is not found is
not locked: the look-up (`FindNone`), the reading of the entries
(`ReadEntries`) and the write (`WriteMissing`, the `get_or_create` and its
`else`) are steps of their own, and others may write, check or pay the
statement in between, or give the entries to another.
People check, adjust, recalculate, pay, confirm, reopen and reset statements; the hotel or
the command changes the payout option (`SwitchPayoutOption`,
`SetThreeTimesWeekly`). Where one transaction writes several statements
(`WrittenAnew`, `AllClosed`), it is a fold of `Generated`.

Abstracted: tax and commission scale the amount; backfill and clean-up of old
ledgers; uploads, actors and passcodes. `Recalculate` takes it as given whether
a statement bore commission under an older rule.

### `RemittanceViews`

Extends `Remittance` with what people are shown of it, computed in every state
by operators, one per piece of code: the hotel's revenue page, which reads the
payments (`Revenue`); held funds and refunds, which read the ledger
(`HeldFunds`, `Refunds`); a statement's items in sections (`DetailTotals`); the
statement the hotel is to be paid next (`AvailableRevenue`, after the refresh
the page runs, `Refreshed`); the row and the payment list the accountants act
on (`ActionRecord`, `ToPay`). Search, filters and paging are left out.

### `CoreEvents`

Core (external) publishes versions of its bundle and one event for each
change. A delivery claims its event (`Claim`), fetches the bundle (`Fetch`) and
applies it (`Apply`, `Deprovision`, `ExpireTrial`), and the claim is visible to
others only when it commits; `Refused` and `Fails` roll it back. Manual syncs
and the command run among the deliveries. `SyncedRows` brings the
`PhysicalRoom` rows up to date one after the other, finding a row by Core id or,
for a deleted room, by its number; `Conflict` is the database's unique
constraint on numbers. The hotel meanwhile opens rooms to the OTA and puts
guests in them.

### `Notices`

A payment confirms a booking; after commit the request's hook stores the
notification and hands one task for each message to the broker; a worker takes
a task off, sends, and puts it back at most `MaxRetries` times. A task may also
end for good (`Refused`): the SMS gateway rejects the number (`sms.py:64-70`,
caught at `tasks.py:363-375`), or building the text raises what the task does
not retry. Mail tasks retry every exception (`tasks.py:220`); the payout mail
only an `OSError`, and is sent under its statement's lock and then logged. Faults: a crash, a broker
that is down, an answer that is lost, a task delivered twice, `MaxFaults` in
all.

### `Pricing`

One room type, one market, the base currency. Prices, plans, daily rates,
periods, campaigns and Core's bundle are edited while guests search and book
and staff save the form. `Offered` (search), `EstimatedNight`,
`DirectoryPrice`, `DeskPrice` and `BookedRoom` are the code's separate
computations of one price; any of them may be nothing, as the serializers
allow. Staff edit the custom plan and the standard plan made here
(`SaveRatePlan`). Requests are atomic, except edits of `RatePeriod`: a create,
or an update that names the plan, locks it and validates against the periods it
sees (`BeginPeriod`); an update that does not name it waits for the lock of the
plan it found the period on (`ReadPeriod`), then reads the period again and
validates it on the plan it is on by then (`RecheckPeriod`). `SavePeriod` saves
later. The history variable `strays` has the periods saved to a plan that was
not the one locked.

Abstracted: exchange rates, other markets, invoice charge rules, taxes.

### `MC*` modules

They add symmetry sets, name values a cfg cannot write, and, for the four
largest models, restrict the next-state relation (`MCNext`) so that the run
ends in minutes:

- `MCBookingInventory`: bookings of two rooms, and the last tick, are explored
  without hotel edits; payments of desk bookings, which change nothing in the
  pool, are not followed.
- `MCInventorySilos`: rooms come back from cleaning at once; payments of desk
  bookings are not followed; a request and the no-show job are not under way
  together; after a stray the next thing of interest is the next switch.
- `MCRoomBoard`: at most one released assignment is followed and one room is
  blocked at a time.
- `MCRemittance`: one worker at a time is late with the statement it did not
  find, and only the command changes anything bounded by `MaxChanges` meanwhile.

Bookings are interchangeable wherever they are declared symmetric: no action
compares or orders primary keys. Rooms are too, as the preference among
candidates is left open. The runs that check liveness use no symmetry.

Definitions whose comment begins "Seeded fault" are not part of any
specification. Each is a plausible bug in the definition it stands next to,
kept to show that the property it is paired with in `PROJECT.json` notices it.

## The runs

`cd tla; tlc -workers 2 -config <cfg> <module>`

| Run | Module, cfg | What it checks and shows |
|---|---|---|
| `pool` | `MCBookingInventory`, `Pool.cfg` | Two bookings, two nights, two rooms, both modes, one hotel edit. Counters are exact (`CountersMatchBookings`), only open rooms are sold (`OnlySellsOpenRooms`), a revoked hotel holds rooms for overtaken requests only (`RevokedHotelHoldsOnlyOvertaken`), and the pool implements `BookingPromise`, commitments within the totals included (`KeepsPromise`) |
| `holds` | `MCBookingInventory`, `Holds.cfg` | `HoldsEnd`, under fairness |
| `silos` | `MCInventorySilos`, `Silos.cfg` | Two switches of the mode, one edit, two bookings. Counters are rebuilt right by every switch and stay right (`CountersFollowMode`); an allotment nobody set sells nothing (`UnsetAllotmentSellsNothing`); the no-show job cancels nobody who came (`NoShowsNeverCame`); lives go in order and commitments fit, whatever the counters have lost track of (`KeepsOutline`) |
| `stays` | `MCRoomBoard`, `Stays.cfg` | Two bookings of up to two rooms share two rooms over two nights. No room is promised twice, guests have their rooms and those are OCCUPIED, no booking has more rooms than it asked for or any once closed, no reservation is on an unusable room; the board tells who is in and what comes next (`BoardTellsStays`), board, search, detail page and handlers agree and a reservation shown ready can be checked in (`ViewsAgree`), totals match lists (`TotalsMatchRecords`), the log names the status (`HistoryTellsStatus`) |
| `races` | `MCRoomRaces`, `Races.cfg` | Three one-room bookings, two rooms, one night, one request caught in its gap: the locks keep its booking open and the pool exact, whatever else is served (`LocksProtectPool`) |
| `remittance` | `MCRemittance`, `Remittance.cfg` | One payment around the payout periods of two weeks, two workers, days 6, 7 and 10: checked statements are final but for a worker that did not find them (`StatementsFinal`), only closed periods are due (`OnlyClosedPeriodsDue`), no statement claims more than its details list unless a late write took from it (`TotalsAreListed`), the hotel's revenue page and the pages read from the ledger agree (`RevenueTellsLedger`), the hotel is told of the current period only when the week's earlier ones are paid (`PaidInTurn`) |
| `invoicing` | `MCInvoicing`, `Invoicing.cfg` | Two forms, three invoices, two receipts, two refund requests at once: balances agree (`BalancesMatch`), no charge is lost (`EveryChargeInvoiced`), paid invoices stay (`PaidInvoicesFrozen`), manual rows are put back while one invoice that may be changed has any (`ManualRowsKept`), a refund is written only by a request that was quoted for it, within what the policy allowed at the quote, others' refunds counted (`RefundsWithinPolicy`), a gateway payment is one receipt (`RecordedOnce`) |
| `core_events` | `MCCoreEvents`, `CoreEvents.cfg` | Two changes in Core, two workers, one manual sync, one failure, one choice of the hotel: events apply once (`AppliedOnce`), rooms mirror one version (`RoomsMirrorOneVersion`), choices and guests stay with the door (`ChoicesStayWithTheDoor`), events get through (`EventsGetThrough`, under fairness) |
| `notices` | `MCNotices`, `Notices.cfg` | Three payment requests for one booking, a mail and a text message, two faults: told once, and not of what was not paid (`ToldOnce`), the payout mail once (`PayoutToldOnce`), and told in the end, or the message given up: a mail only after its retries, a text also when the gateway rejects it (`ConfirmedIsTold`, under fairness) |
| `pricing` | `MCPricing`, `Pricing.cfg` | Three edits of any kind, two editors of periods, one campaign, two nights: one period a night but for strays (`OnePeriodANight`), offers can be booked at their price where no periods overlap (`OffersHonoured`), a sync restores the prices (`SyncRestoresPrices`), nights sold keep theirs (`NightsKeepTheirPrice`) |
| `billed_twice` | `MCInvoicing`, `BilledTwice.cfg` | Refutes `ChargesInvoicedOnce`: see below |
| `form_rooms` | `MCRoomStays`, `FormRooms.cfg` | Refutes `NoRoomPromisedTwice` where the form names rooms for a pending booking |

Each passing run ends in little more than three minutes at most on two cores (the largest, `silos`,
has some 800,000 distinct states).

Bounds, and why they are enough to make the cases happen:

- `LastDay = 1`: two nights, so a stay may cover both, the first or the second,
  and two stays overlap in part. `Window = 0` makes the rolling window one
  date, so the second night's row is outside it: created on the fly, missed by
  the refreshes of today, reached by a later day's. `races` and `form_rooms`
  use one night: their requests meet on the same one.
- `MaxRooms = 2` (a room can run out with one booking or with two),
  `MaxQuantity = 2` (one booking can take both). `silos` has one room, which
  two bookings of different modes contend for.
- `HoldTicks = 1`, `TicksPerDay = 1`, `LastTick` 2 or 3: a hold is created,
  reaches its expiry instant (paid too late, not yet expired) and passes it,
  and a stay's check-in date passes, which the no-show job and restoring a
  no-show need. A hold is not created when the clock could no longer pass it.
- In the pool a revocation overtakes one request at most, in runs without a
  hotel edit (`MCNext`); `holds` and the proofs have no such limit.
- `MaxEdits = 1` in the pool: one edit anywhere. Several are covered by the
  proofs, which have no bound on anything. `MaxSwitches = 2`: away and back.
- `Remittance`: `Dates = {6, 7, 10}` are the last day of a week, the first of
  the next, and a day in a later period of that week, whatever the payout option
  (but for the weekly one); amount 2 allows a part refund; two workers are enough
  for two jobs to overlap; `MaxChanges = 1` allows one refund, moved stay,
  adjustment, reversal, recalculation or change of option beside any number of job runs.
  One worker at a time is late with the statement it did not find, and only the
  command may change the payout option meanwhile (`MCNext`): enough for a late
  write to undo a checked statement, and to take an entry from another
  statement. The proofs have no such limit.
- `Invoicing`: one charge beside the room, charges of 0 or 1, `MaxForms = 2`
  (a charge added and removed again), manual sums -1 and 1, two receipts (a
  second payment, or one after a refund), three invoices (initial,
  supplemental, extra).
- `CoreEvents`: two Core rooms and two numbers, so that a room can be deleted
  and come back under another id, or take the other's number.
- `Notices`: three requests (a report, its repetition, a demo payment), so
  that two hooks may be under way; `MaxFaults = 2`; `MaxRetries = 3` as in the
  code.
- `Pricing`: `MCRules` has an open night at a price of nothing and one that is
  dear, long and closed; `MCBundles` a Core with and without a standard plan,
  and one that lacks its default meal. Initially the hotel is new, or has a
  season on Core's plan already, so that three edits are enough for one to move
  it while another waits. Without `\ strays`, `OnePeriodANight` fails in seven
  steps.

`CHECK_DEADLOCK FALSE` everywhere: once the clock has stopped, the bounds are
used up and every booking is closed there is nothing to do, as in the code.

## Fairness

- `BookingInventory!FairSpec`: `WF(Tick)`, time passes, and
  `WF(ExpirePendingBookings)`, Celery beat runs the expiry every minute
  (`config/settings/base.py:174-177`, `README.md:319`). The job is one
  transaction over every overdue hold, so weak fairness needs it to be able to
  succeed: it can, because `CountersMatchBookings` makes `CanRelease(Overdue)`
  true.
- `CoreEvents!FairSpec`: Core repeats an event until it got through (the code
  answers a failed sync with an error for that purpose, `views.py:4059-4064`),
  and a request that runs ends.
- `Notices!FairSpec`: a request that has begun its hook goes on unless it
  crashes, and workers take tasks off the queue. How often a message can be
  sent is left open: no fairness is assumed of the mail or message gateway.

No fairness is assumed of anything a guest or a hotel does.

## What is proved

`tlapm <module>`. Every theorem is about the specification of the module it
names, without the restrictions that some runs add to it
([above](#mc-modules)), and holds for every value of the constants
that the named assumptions allow; the bounds of the runs play no part in them. Each proof goes along the same lines:
an inductive invariant, true initially and kept by each action (one lemma an
action, or for each way several actions change the rows), and the property as
its consequence or as what a step from a state of the invariant does.

| Module | Theorem | States |
|---|---|---|
| `BookingInventory_proofs` | `Invariance` | `Spec => []IInv` |
| | `TypeCorrect` | `Spec => []TypeOK`: no counter ever goes below zero |
| | `CountersCorrect` | `Spec => []CountersMatchBookings` |
| | `TotalsCorrect` | `Spec => []CommittedWithinTotal` |
| | `RevokedCorrect` | `Spec => []RevokedHotelHoldsOnlyOvertaken` |
| | `PromiseKept` | `Spec => KeepsPromise`: the pool implements `BookingPromise` |
| | `OnlyOpenSold` | `Spec => OnlySellsOpenRooms` |
| | `NothingRefused` | `Spec => [](\A S \in SUBSET Bookings : CanRelease(S))`: nothing that was taken is refused when it is given back |
| | `PromiseHasOutline` | `KeepsPromise => KeepsOutline` |
| | `SilosKeepOutline` | `SiloSpec => KeepsOutline` |
| | `SettledNightsRefuseNothing` | `SiloSpec`: unless a request has strayed, bookings whose nights are settled can be given back |
| | `SilosInvariance` | `SiloSpec => []SiloInv` |
| | `CountersFollow` | `SiloSpec => []CountersFollowMode` |
| | `UnsetSellsNothing` | `SiloSpec => UnsetAllotmentSellsNothing` |
| | `NoShowsOnly` | `SiloSpec => NoShowsNeverCame` |
| `Rooms_proofs` | `StaysInvariant` | `StaySpec => []StayInv` |
| | `NeverPromisedTwice` | `StaySpec => []NoRoomPromisedTwice` |
| | `GuestsAreHoused` | `StaySpec => []GuestsHaveTheirRooms` |
| | `NoRoomTooMany` | `StaySpec => []RoomsWithinBooking` |
| | `RoomsStayUsable` | `StaySpec => []ReservedRoomsUsable` |
| | `BoardImplementsStays` | `BoardSpec => StaySpec` |
| | `LogsTellStatus` | `BoardSpec => []HistoryTellsStatus` |
| | `OtaTotalsMatch` | `BoardSpec => []TotalsMatchRecords` |
| | `BoardTellsTruth` | `BoardSpec => []BoardTellsStays` |
| | `ViewsTellTheSame` | `BoardSpec => []ViewsAgree` |
| | `LocksKeepPool` | `RaceSpec /\ [][~RoomByRoom]_raceVars => []LocksProtectPool` |
| | `LocksKeepSingleRooms` | `RaceSpec => []LocksProtectPool`, for `MaxQuantity = 1` |
| | `NoReleaseRefused` | `RaceSpec /\ [][~RoomByRoom]_raceVars`: the counter always has what a reservation is to give back |
| | `FormKeepsOutline` | `FormSpec => RoomsKeepOutline` |
| | `RacesKeepOutline` | `RaceSpec => RoomsKeepOutline` |
| `CoreEvents_proofs` | `CoreInvariant` | `Spec => []CoreInv` |
| | `EventsApplyOnce` | `Spec => []AppliedOnce` |
| | `RoomsMirrorCore` | `Spec => []RoomsMirrorOneVersion` |
| | `ChoicesStay` | `Spec => ChoicesStayWithTheDoor` |
| `Notices_proofs` | `PayoutsToldOnce` | `Spec => []PayoutToldOnce` |
| | `BookingsToldOnce` | `Spec => []ToldOnce` |
| `Pricing_proofs` | `PricingInvariant` | `PricingSpec => []PricingInv` |
| | `SeasonsDisjoint` | `PricingSpec => []OnePeriodANight` |
| | `PricesRestored` | `PricingSpec => SyncRestoresPrices` |
| | `NightsKept` | `PricingSpec => NightsKeepTheirPrice` |
| | `OffersKept` | `PricingSpec => []OffersHonoured` |
| `Invoicing_proofs` | `InvoicingInvariant` | `Spec => []InvoicingInv` |
| | `BooksBalance` | `Spec => []BalancesMatch` |
| | `ChargesAllInvoiced` | `Spec => []EveryChargeInvoiced` |
| | `GatewayRecordedOnce` | `Spec => []RecordedOnce` |
| | `PaidStayFrozen` | `Spec => PaidInvoicesFrozen` |
| | `RefundsKeepPolicy` | `Spec => RefundsWithinPolicy` |
| | `ManualRowsStay` | `Spec => ManualRowsKept` |
| `Remittance_proofs` | `RemittanceInvariance` | `Spec => []RemittanceInv` |
| | `DueWhenClosed` | `Spec => []OnlyClosedPeriodsDue` |
| | `SettledIsFinal` | `Spec => StatementsFinal` |
| | `ClaimsListed` | `Spec => []TotalsAreListed` |
| | `PagesAgree` | `Spec => []RevenueTellsLedger` |
| | `InOrder` | `Spec => []PaidInTurn` |

Two of these properties are in no run's cfg: `CommittedWithinTotal`, a part of
what `KeepsPromise` checks, and `RoomsKeepOutline`, which is proved of `FormSpec` and
`RaceSpec` only.

`Sums_proofs` has the lemmas on sums and on greatest and least elements that
`Pricing_proofs`, `Invoicing_proofs` and `Remittance_proofs` need.
`SumFunctionOnSet` of the community modules applies a function CHOOSEn to
satisfy a recursive equation: the lemmas show that one exists (from a smallest
subset on which it would not), that it is unique, and so that a sum can be taken
in any order, split in two, taken over other names of its terms, and changed in
one term.

Assumptions, all named in the modules they are about and evaluated by the runs:
finitely many bookings, rooms, requests and rooms of Core; natural-number
bounds, that of the mode switches among them (`SwitchesAssumption`); a day of
one tick or more (`BookingInventory`); room for at least the
initial invoice (`MaxInvoices`); finitely many periods and campaigns with keys in order (`PricingAssumption`);
a positive amount and at least one date (`RemittanceAssumption`).
Three theorems have a hypothesis of their own. `LocksKeepPool` and
`NoReleaseRefused` are about behaviours in which no booking of several rooms
gives them back one by one (`RoomByRoom` is the step that does), for bookings of
any number of rooms; `LocksKeepSingleRooms` is about bookings of one room, of
which nobody can do so. Without either, checking out single rooms and then the
booking gives the same rooms back twice (see
[Known deviations](#known-deviations)), and the statements are false of the
code. What is true of the code even then is `RacesKeepOutline`.

### The pool

`IInv` is `TypeOK`, `CountersMatchBookings`, `CommittedWithinTotal` and two
more facts:

- `MissingRowsEmpty`: a row that does not exist counts nothing. Without it a
  row created on the fly by `_lock_inventory`, whose total ignores commitments,
  might start out over-committed.
- `PendingOvertaken`: in a revoked hotel only overtaken requests have pending
  bookings, which with the exact counters gives `RevokedHotelHoldsOnlyOvertaken`.

The four conjuncts need one another. Totals are kept by `Ensured`, which
reads the counters; `Reconciled` replaces the counters with a recount, which is
harmless only where they were exact; a release is within its counter only
because the counter counts the booking released.

The proof has three layers. *Counting*: `QuantityType`, `QuantitySum`,
`QuantityOfOne`, `QuantitySame` say what the cardinality sums do when a set of
bookings is split, and that they depend on dates and quantities only. *Rows*:
`EnsuredRow`, `ReconciledRow`, `LockedRow` say what each row operation leaves.
*Steps*: `PlaceStep`, `CommitStep`, `ReleaseStep`, `EnsureStep`, `RestoreStep`
and `SameRowsStep` give the effect of each way rows change on the row part of
the invariant, and `NewBookingsInv`, `BookingStepsInv`, `HotelEditsInv`,
`ExpireInv`, `DeprovisionInv` apply them action by action up to `NextInv`.

The refinement is proved from `Invariance`, twice: the invariant of a state
turns a rebuild (`Reconciled`) into a step that keeps what is taken, since the
recount finds the counters as they were, and the invariant of the next state
gives `Fits`. What remains is, action by action, that the status moves as a
life does and that rooms go up or down as that life demands.

`OnlyOpenSold` uses those steps again: only a new booking and a restored
no-show take rooms, every other step leaves or lowers what is taken. For a new
booking, `OpenedRow` says that opening a row, with or without a rebuild, keeps
what is taken, so that the check of availability that follows it is about the
row the booking is then charged to (`PlaceOpens`).

`NothingRefused` is what `_move_inventory` needs for never raising "Inventory
state is inconsistent.": exact counters of all bookings are at least those of
any set of them, so every cancellation, check-out and expiry of a batch finds
what it gives back. It is the safety half of `HoldsEnd`: the expiry job can
always run.

### The two inventories

`IInv` does not hold once the hotel can switch: bookings of the other mode stay
in the counters of every date the rebuild of a switch does not reach.
`SiloInv` therefore speaks of one night at a time. It has `CountersFollowMode`,
the exact counters on the settled dates while no request has strayed, and
`TypeOK` on all of them, which is what is left to say of the others;
`NoShowsConfirmed`, that what the no-show job has read was confirmed once, so
that a later look at its status tells whether the guest came; and
`UnsetMeansEmpty`, that an allotment which a switch found unset is empty.

A step that keeps the mode is shown to keep every night that was exact
(`NightsFollow`): `NightStep` and `ChargedNight` say what one booking more or
less does to one night's counters, and
`ReleaseNights`, `CommitNights`, `PlaceFollows`, `RestoreFollows`,
`CorrectionFollows`, `AskedFollows` apply them to the handlers. A correction
gives back the old stay and charges the new one, so a night in both goes
through two steps. A switch is the other case: `RebuiltRow` computes the
counters under the mode and the allotment just saved, whatever they were
before, which is why a switch ends a stray.

`UnsetTakesNothing` follows in count mode from an empty allotment: a rebuilt row
has nothing available (`EmptyAllotmentClosed`), and whatever books from the
allotment rebuilds the rows of its nights first. A booking in the mode read
before the switch does not, and takes nothing of it.

`SilosKeepOutline` cannot rest on exact counters, which the other mode's
bookings do not leave. `SoundRow` is what every row keeps, next to its type,
whatever it has lost track of: commitments within the total, and nothing in a
row that does not exist. Each way
rows change is shown to keep it (`EnsuredSound`, `ReconciledSound`,
`ReleasedSound`, `CommittedSound`, `TookSound`, up to `SwitchSound`). Two of
them are where the code could fail: a rebuild replaces both counters by a
recount that may be larger, and holds only because it raises the total with
them; a release subtracts from counters that need not include the booking, and
holds only because `CanRelease` is asked first. The turns of the lives are
shown action by action (`PlaceTurns`, `StepsTurn`, `ExpiryTurns`).

`SettledNightsRefuseNothing` puts the two together: on the dates a rebuild
covered the counters are exact, so what was taken there can be given back. It
is also sharp, as a cancellation on a date beyond the window may be refused
(see [Known deviations](#known-deviations)).

No action of `InventorySilos` changes the hotel's access: revocations and their
race with bookings are proved of the pool.

### Rooms, board and races

`StayInv` is the five properties of a well-run house written so that each step
can use the others: only reservations have rooms (`RoomsAreReserved`), no more
than they asked for (`WithinQuantity`), apart from one another on every night
(`StaysApart`), guests in OCCUPIED rooms of their own (`GuestsInside`), rooms in
service and unblocked (`RoomsUsable`). A room that becomes free may be cleaned
or blocked only because nobody else's assignment names it, and a guest may be
let in only because no other guest is there, which is why none of the five is
inductive alone.

`BoardImplementsStays` shows that the board's actions are those of the stays,
so `StayInv` holds there too. `BoardInv` adds that an OCCUPIED room has a guest
(`OccupiedByGuest`), that stays have a night (`DatesInOrder`), and that the log
tells the status. `OccupiedByGuest` is what makes the repair inside `check_in`
idle while requests are served one by one. The races give it up, along with
most of `StayInv`: `RaceInv` keeps the types, the pool's counter against the
reservations (`PoolMatchesBookings`), rooms within their booking
(`RoomsWithinStay`), and that a booking whose row is locked stays open.

`ViewsTellTheSame` compares the computations of the board, the detail page and
the search (`ShownAvailable`, `SearchedIsShown`) in a state of `BoardInv`, and
shows that a reservation the form shows ready fulfils `CanCheckIn`, the
conditions of `check_in` (`ReadyIsLetIn`). The last needs `OccupiedByGuest`: the
form looks at the rooms as they are, `check_in` after a repair that then has
nothing to do.

The outline needs neither exact counters nor any invariant of the rooms.
`FitInv` says that reservations, as the counter has them, and holds, as the
bookings have them, fit the rooms of the hotel. A step that changes one booking
is measured by what it adds to the counter and to the holds on each night
(`FitStep`), and a step that adds nothing needs no more (`FitLess`). A walk-in
replaces the counter of its nights by a recount, which may be above what the
counter was, and is then checked against the rooms: that check is what the
proof uses, not the counter before. A correction gives the old stay back before
it fits the new one next to the others' holds (`OthersHold`).
`FitRaceNext` repeats this for requests that act on what they have read: a
payment, a cancellation or a check-out asks for the status again under its
lock, which is all that the order of the lives needs.

### Core

`CoreInv` has four parts. *Catalogue*: the versions, with distinct numbers in
each, and rooms that agree between versions as long as nothing was renumbered.
*Claims*: an event a worker holds is published, not in the inbox, and no other
worker holds it; with that, applying it increases a count that is 0. *Rows*: a
Core id or a number is on one row only, and each row has the number some
version gave that room. *Access*: a bundle was fetched while Core gave access,
and the rooms in use are those of one version. The lemma that carries the proof
is `SyncKeepsRows`: bringing up to date the rows that match and adding the ones
that are missing leaves one row a room, whatever order Core lists them in.

### Notices

For each booking and message, `TellInv` counts three things together: what was
sent, the tasks the broker holds (`Waiting`), and the requests whose hook has
still to queue that message (`Owed`). Their sum never exceeds one for a
confirmed booking and nothing for another, plus the sends that went unanswered.
Each step moves one unit from one place to the next, or loses it; a text the
gateway rejects is lost as well. The payout
mail has an invariant of its own (`MailInv`): a mail is under way only while the
log has none.

### Prices

`PricingInv`: at most one edit holds the lock of a plan (`EditorsApart`), and
one that saves to the plan it has locked has seen every period there that was
saved under its lock (`EditsChecked`), so saving keeps one such period a night
(`OneEach`). An edit of a period that has been moved since it was read holds the
lock of another plan: what it saves is a stray, and `EditsChecked` and `OneEach`
say nothing about it. `OffersKept` compares the computations of a price case by
case; periods ordered one way or the other give the same rule only where there
is one at most, hence its condition.

### Invoices

`InvoicingInv` is `Good`, that the rows are well formed and say what the
receipts say; `Covered`, that live invoices bill all charges; and `RefundsHeld`,
that at most one refund is between check and write, for a receipt and an
amount that are allowed under the policy as it was quoted. Each helper of the module has a lemma that it
keeps `Good` (`SyncedGood`, `ReplacedGood`, `SupplementedGood`,
`ChargesSyncedGood`, `RecordedGood`, ...), and the handlers are their
compositions. `Follows` is the part of a step that the action properties are
about: paid invoices stay and nothing is refunded.

`ManualRowsStay` was found to be false without its first condition: after a
refund has opened a second invoice to changes, and both have manual rows, the
form carries over those of one (see [Known deviations](#known-deviations)).
The bounds of the `invoicing` run are too small for that, so the condition came
from the proof.

### Remittances

`RemittanceInv` says that payout options begin on Mondays (`OptionOK`), so that
the option of a day is that of its week; that only payments made are refunded,
and in the past (`PaymentOK`); that a job closes periods that have ended
(`JobOK`), which it read before and may write much later, and that a statement
it did not find is one it has to write; that no statement of a
period still running is to be checked or paid (`ClosedBy`); that the ledger has
refunds of refunded payments alone (`RefundsLedgered`); and that the books are
sound (`SoundBooks`): an item belongs to an entry of the ledger that is not
held, and a statement claims no more than its items come to (`ClaimListed`),
unless a late write robbed it of one. It claims less where a statement was written again after an entry moved to
another day, since the item stays.

`GeneratedSound`, `GeneratedClosed` and `GeneratedFinal` say what one call of
`generate_weekly_remittance` keeps when it finds the statement, and
`WriteMissingKeeps` what it keeps when it did not: every settled statement but
its own and those that have its entries. Requests that write several statements fold
it over a set of periods. The fold is a function CHOOSEn to satisfy a recursive
equation, so `WrittenOneByOne` first shows that it exists and is unique: what
each call takes from one set of books into the next, the fold takes from the
first into the last. The people's actions are one lemma, `ReviewRewrites`: they
rewrite a statement and keep its amounts.

The properties of the pages follow from the invariant, state by state.
`ClaimsListed` adds the rows of the two sections up: the rows are the items less
the refunds shown in the row of their payment, and naming each refund by the
row that shows it first (`ShownIn`, one refund a row) turns the sum of the
refunds into a part of the sum of the rows. `InOrder` follows the refresh of the
page through its fold: what had ended is closed, or has nothing left to be
written for. That second case was found by the attempt to prove `PaidInTurn`
without it; it is `Stranded`, described under
[Known deviations](#known-deviations).

### Only model-checked

- Liveness: `HoldsEnd`, `EventsGetThrough`, `ConfirmedIsTold`. Out of the
  prover's reach.

## Where the code and its documentation part ways

- **An add-on billed though it was removed** (`billed_twice`,
  `services.py:2549`). An add-on paid on a supplemental invoice is refunded, as
  the form asks ("Paid invoice charges cannot be removed. Refund or void the
  paid charge first.", `services.py:2536-2537`), and then removed. The
  supplemental has receipts, so it is neither voided nor rebuilt to nothing,
  and its line stays billed.
- **A room promised twice** (`form_rooms`, `views.py:6218`). The check-in form
  creates `RoomAssignment`s for a booking in PENDING_PAYMENT
  (`services.py:3499-3504`), while `change_room` looks for overlapping bookings
  among the CONFIRMED and CHECKED_IN only, though it means to refuse "The new
  room is assigned to an overlapping booking." (`views.py:6223`). Another
  reservation is moved into the room; the payment then confirms the first.

## Known deviations

The rest of what was met while the code was read and modelled. What the runs
show to hold, holds with these left out of the modules or confined as said.

**Pool.** The generic `PATCH`/`PUT` and `DELETE` of a `DailyInventory` row
(`views.py:4810`) run in no transaction and save counters they read before
(`README.md:321`: "Inventory changes use database transactions and row
locks."); a booking that commits in between is forgotten. A repeated admin
reservation whose payment is pending (`services.py:3193`) moves its rooms from
held to reserved again, at the expense of another hold, and confirms the
booking even if it was canceled (`README.md:315`: "does not consume inventory
twice."). After `check-out-room` has given one room of a booking back,
`check-out` gives back the whole quantity (`services.py:2021`); `CheckOut` in
`BookingInventory` gives a booking back whole, and `LocksProtectPool` is
checked for one-room bookings, and proved for larger ones that give their rooms
back together. The counter errs the other way too: a walk-in recounts its
nights first (`services.py:3010`) and counts every checked-in booking whole, so
rooms given back one by one are charged again, and when the last room is
checked out alone the others stay charged though nobody has them, until the
next recount. Either way no more rooms are sold than there are
(`RacesKeepOutline`).

**Rooms.** With requests overlapping: auto-assignment leaves out taken rooms in
the statement that waits for the room locks, so a room assigned meanwhile is
taken again (`services.py:988`); `unassign_room` checks a booking it has not
locked, so a guest checked in meanwhile has no room (`views.py:6166`);
`change_room` does likewise, so the new assignment may stay active on a
booking canceled meanwhile (`views.py:6194`; the test `tests.py:8474` expects a
cancellation to release); edits of a room or a block are validated before they
are saved (`serializers.py:771`, `959`), so a reserved room may go out of
service. `RoomRaces` contains all of these; `stays` checks the same properties
for requests served one after the other. Expiry leaves the rooms the form gave
a pending booking assigned to the expired one, and neither blocks nor the
out-of-service check look at pending bookings.

**Modes.** A PMS user cannot open an OTA booking of the other mode for
correction (`views.py:349-360`), so only the desk's own are corrected across
modes. Dates beyond the rolling window are not rebuilt by a switch: a payment
taken in the other mode leaves held and reserved swapped there, and a later
cancellation is refused with "Inventory state is inconsistent.". A switch while
the room type is off rebuilds nothing. A booking request that read the old mode
moves the counters of the new one (`views.py:2503`, `services.py:1427-1429`),
and a cancellation that did takes another booking's hold, after which the
expiry job raises every minute until the counters are rebuilt.
The no-show job cancels a reservation corrected into the future after
its list was read.

**Room board.** A search for `reserve` offers rooms in CLEANING that the
reservation endpoints refuse. A board of a future date shows today's guest as
its occupant and hides a reservation that began before the date. OTA records go
on listing a booking as active today under a room it has left; the query of
active OTA bookings leaves out checked-in stays. The number of vacant days
ignores blocks to come. The log event of a walk-in (V1) is written outside the
booking's transaction, and again by a retry. A retried admin reservation creates
its `RoomAssignment`s again.

**Invoices.** A refund quoted before the policy's cut-off may be written after
it (`services.py:3600`, `3540-3551`): the quote's moment counts. An initial PMS invoice reopened by a refund is repriced with all
charges while paid supplementals remain. A supplemental that holds nothing but
manual rows becomes PAID with a total of 0 at the next save, and a new one is
created. The discount of a service invoice is applied again, and the totals of
manual rows and service invoices drop out of `grand_total` at the next save. The
form carries over the manual rows of the first invoice that may be changed
(`views.py:5925-5932`): where a part refund has opened a second one with rows of
its own, a form that lowers the price settles the first and loses rows. An
OTA booking waiting for its payment that staff edit has an amount at the
gateway above the initial invoice's balance, and the report is refused. A
payment on a VOID invoice named by id is accepted; an invoice may be overpaid;
a booking with the same add-on twice cannot be edited once paid. The charge
records of a hotel and the JSON it bills from are synchronised without a lock on
the hotel (`views.py:4184-4206`), while another endpoint writes the JSON with no
transaction (`views.py:4310-4336`).

**Remittance.** A held payment that is released may be collected a second time
(`models.py:1469`, `remittance_services.py:103`). A second part refund, or a
released stay that is moved, changes `effective_at` while the entry stays in
its old statement (`docs/remittance-commission.md:8`). A stale accruing job
reopens a PENDING statement and drops its adjustment. Of two `generate` calls
that find no statement the later writes over the one the other has made, back to
PENDING or ACCRUING even if it was checked or paid meanwhile: nothing is locked at the look-up
(`remittance_services.py:278-283`), `get_or_create` writes a row it finds
whatever its status (339-379), and the comment at 293-296 says that this must
not happen. If entries it read were given to another statement meanwhile, it
takes their items, and that statement keeps its amounts. The model has both;
`StatementsFinal` leaves out the step that writes late (`Overtaken`), and
`TotalsAreListed` the statements that lost an item (`robbed`). A call that finds
its statement locks it and is one step of the model; in the code, entries that
it reads while the statement of an overlapping period (of a payout option since
changed) is being written may move over too. The
command and the change of the payout option are one step each, their calls of
`generate` included. `settlement_status` is overwritten by a
later synchronisation; payments synchronised after their period closed stay in
no statement; a synchronisation reads the payment without a lock. A stay moved
over its payment or its release leaves the revenue page and the held-funds page
in disagreement, so `RevenueTellsLedger` speaks of the others (`LedgerInOrder`).
A job that began before a change of the payout option writes a statement for a
period of the old option, which the page of the hotel does not wait for:
`PaidInTurn` looks at the current option's periods. A statement left accruing
when its period ends, all of whose entries have moved to other days since (a
moved stay, a second part refund), is written no more: `generate_weekly_remittance`
returns before it sets a status (`remittance_services.py:321`). The hotel's page
keeps waiting for it (`remittance_views.py:637-662`) and accountants see nothing
to act on; `PaidInTurn` leaves such a statement out (`Stranded`). A statement of refunds alone
is outstanding and never on the payment list. A recalculation that sends a
checked statement back leaves its bookings' settlement CHECKED.

**Core.** A room that takes the number of another, or of a deleted room, fails
every sync on the unique number (`views.py:4059-4064`), hence the exception in
`EventsGetThrough`. A sync that fetched before a revocation reopens the hotel
(`README.md:123`). A late `trial_expired` overwrites an upgrade. Of two syncs
the one with the older bundle may commit last. A custom plan with the code of a
Core plan fails every sync. Each sync sets `booking_enabled` again. A booking
request that passed its check before a revocation commits its hold after it
(`services.py:1705`), which then stands until it is paid or expires: hence the
exception in `RevokedHotelHoldsOnlyOvertaken`.

**Notices.** A crash after commit, or a broker that is down, loses the notices.
A text message the gateway rejects is never tried again and only logged, so
the guest or the hotel of a confirmed booking may never get it.
Two demo-payment retries before the hook runs may store two NEW notifications.
Tasks are acknowledged before they run, so a worker that dies loses them.

**Prices.** An update of a rate period that does not name its plan locks the
plan of an instance read before the lock, and validates one read after
(`views.py:4917-4920`): if another edit has moved the period meanwhile, its new
plan is not locked, and a create there may overlap it. A period deleted while
its edit is under way is saved anew. Rates, periods and plans may cost nothing
(`serializers.py:1193`, `1275`, `1299`, `1328`), and staff may switch on the
standard plan made here without a price, for only Core's are read-only
(`1203`): the search and `create_booking` then sell the room for nothing, and
only the directory leaves it out (`directory_pricing.py:64`), while the guide
promises that no booking is published without a price
(`docs/rates-frontend-guide.md:421-423`). Saving the form pairs rooms by position (`services.py:3351`), so
removing the first of two reprices the second. A market may have a standard
plan made here and one made by Core; an edit of the room price follows only
one, until the next sync. An estimate ignores closed-to-arrival, closed-to-departure,
minimum stay and inventory, and still reports `can_create_booking`. The desk's
room search leaves out campaigns (`views.py:1803-1824`). A missing default
breakfast makes the search raise. Saving the form makes the booking anew, so a
closure set since can make a confirmed booking unsavable, and breakfast, meals
and extra beds are charged at today's prices. `create_booking` reads plan,
rates and campaigns without locks. The search is limited by the OTA pool, which
`create_booking` does not look at in the same way. Directory and desk order
periods by `-start_date`, the booking by `start_date`: they agree as long as no
two periods of the plan overlap.

**Elsewhere.** A booking sequence stops at 999999 a year (`models.py:990`) and
a hotel's document code may be reused by another (`views.py:4296-4308`).
`reviewing` and `reject` save an add-on request they have not locked
(`views.py:5039`, `5088`) while `approve` and `publish` lock it.

## What is not modelled

- The OTA's selection and sale status of physical rooms (`views.py:2593-2673`,
  `2964-3073`), which restrict what the OTA is offered.
- Document numbers and booking codes: sequences under row locks.
- Add-on templates and requests: a catalogue reviewed by hand.
- Exchange rates, invoice charge rules, taxes: decimal arithmetic within one
  request.
- Receipts, PDF and spreadsheet export, storage: formatting and file output.
- Serializers, permissions, authentication, routing, admin: they decide which
  inputs arrive; the validators that guard a state change are guards of the
  actions.
- Management commands and migrations, but for the restore of no-shows, the
  sync of all hotels, the change to three payouts a week and the recalculation
  of unpaid statements. The
  other commands about remittances (`backfill_ota_remittances`,
  `cleanup_non_ota_revenue`) put old data right once.
- Locks as such. Transactions that share rows are atomic, so lock order and
  deadlock are not visible. `ensure_daily_inventory_for_room_type` locks the
  `RoomType` and then its rows, `create_booking` locks rows and then needs the
  `RoomType` for its foreign key; the database aborts one of two deadlocked
  transactions, which every handler reports as a failed request.
- Compositions across modules: a refund in `Invoicing` is not the refund
  `Remittance` synchronises, and a revocation in `CoreEvents` is not the one the
  pool sees. Each module takes the other's effect as an input it may receive at
  any time.
- SQLite, which the code supports for development: it has no row locks.

## Plan

The modules planned at the start are written, but for `Documents` and
`InventoryLocks`, for the reasons above. Every safety property of a passing run
is a theorem; the three liveness properties are model-checked. What would come
next:

1. `RoomRaces` with two requests caught at once: the races it shows need one,
   others may need two;
2. one composition across modules, a refund in `Invoicing` that `Remittance`
   synchronises.
