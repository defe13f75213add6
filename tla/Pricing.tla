------------------------------ MODULE Pricing ------------------------------
(***************************************************************************)
(* What a night in one RoomType costs, for the guests of one market and in *)
(* the hotel's base currency, and what becomes of the price of a booking   *)
(* (room_pricing.py, booking/services.py and the rate view sets).          *)
(*                                                                         *)
(* A RoomType has a normal price, standard RatePlans that follow it (one   *)
(* made here, one made by Core), custom plans, DailyRates and RatePeriods  *)
(* that override a plan, campaigns that lower the result, and extras       *)
(* (breakfast, meal plans, extra beds, preferences).  Hotel staff and Core *)
(* edit all of it while guests search, book and staff save the reservation *)
(* form of a booking.                                                      *)
(*                                                                         *)
(* Requests are atomic, except the edits of RatePeriods: these lock a      *)
(* plan, are checked against the periods they can see, and saved later.    *)
(* An edit that does not name its plan locks the one its period had before *)
(* it waited for the lock, and reads the period again.                     *)
(***************************************************************************)
EXTENDS Integers, FiniteSets, Sequences, FiniteSetsExt, Functions

CONSTANTS
  LastNight,    \* stay dates are 0..LastNight
  MaxPrice,     \* prices are at most this; a null room price is 0, and never sold
  Rules,        \* what a DailyRate or a RatePeriod may ask for
  Bundles,      \* what Core may send of the RoomType
  PeriodIds,    \* primary keys of RatePeriods
  Campaigns,    \* primary keys of RoomPriceDiscounts
  Editors,      \* requests that create or update a RatePeriod
  Extras,       \* meal plans, extra beds and preferences guests may ask for
  MaxRooms,     \* the most rooms in the booking
  MaxEdits      \* the most edits by hotel and Core

Nights == 0 .. LastNight
Price == 1 .. MaxPrice

\* An extra is Refused, or has a nightly price, 0 when it is included or free.
Refused == -1
Offer == Refused .. MaxPrice

\* Staff may set a plan or a rule to nothing; room prices and campaigns are positive.
Rule == [price : 0 .. MaxPrice, min_stay : 1 .. LastNight + 1,
         closed_to_arrival : BOOLEAN, closed_to_departure : BOOLEAN]

BreakfastTypes == {"no_breakfast", "included", "hotel_default", "custom"}

\* plan: Core's standard plan of this market; price: that plan's price, used
\* until the hotel has set its own; meal: the default breakfast plan.
Bundle == [plan : {"absent", "inactive", "active"}, price : 0 .. MaxPrice,
           breakfast : BreakfastTypes, meal : Offer, custom : 0 .. MaxPrice,
           extras : [Extras -> Offer]]

ASSUME PricingAssumption ==
  /\ LastNight \in Nat
  /\ MaxPrice \in Nat \ {0}
  /\ Rules \subseteq Rule
  /\ Bundles \subseteq Bundle
  /\ PeriodIds \subseteq Nat /\ IsFiniteSet(PeriodIds)
  /\ Campaigns \subseteq Nat /\ IsFiniteSet(Campaigns)
  /\ MaxRooms \in Nat
  /\ MaxEdits \in Nat

VARIABLES
  setup,      \* RoomType.room_price_setup
  normal,     \* RoomType.<market>_<currency>_price
  plans,      \* RatePlan: does it exist, is it active, what is its base_price
  daily,      \* DailyRate, by plan and night
  periods,    \* RatePeriod, by primary key
  campaigns,  \* RoomPriceDiscount, by primary key
  bundle,     \* what was last synced from Core
  editing,    \* an unsaved edit of a RatePeriod, by editor
  strays,     \* periods saved under a plan their edit had not locked (history)
  booking,    \* a booking of this type of room, with its BookingRoomNights
  edits       \* edits so far

catalogue == <<setup, normal, plans, daily, periods, campaigns, bundle>>
pricingVars == <<setup, normal, plans, daily, periods, campaigns, bundle, editing, strays, booking,
                 edits>>

-----------------------------------------------------------------------------
(* Data. *)

\* "booking" is the standard plan sync_market_price makes when there is none
\* of the market: it is older than any plan Core adds later.
Standard == {"booking", "core"}
Plans == Standard \cup {"custom"}

Plan(state, price) == [state |-> state, price |-> price]
NoPlan == Plan("absent", 0)
Active(p) == plans[p].state = "active"

NoRule == [price |-> 0]

Period(p, first, last, active, rule) ==
  [plan |-> p, first |-> first, last |-> last, active |-> active, rule |-> rule]
NoPeriod == [plan |-> "absent"]
AllPeriods == {q \in [plan : Plans, first : Nights, last : Nights, active : BOOLEAN,
                      rule : Rules] : q.first <= q.last}

NoCampaign == [price |-> 0]
Campaign == {c \in [price : Price, first : Nights, last : Nights, ended : BOOLEAN] :
               c.first <= c.last}

\* An edit waits for the lock of a plan, or has it and was checked.
Idle == [step |-> "idle"]
Waiting(i, p) == [step |-> "waiting", id |-> i, plan |-> p]
Checked(i, p, q) == [step |-> "checked", id |-> i, plan |-> p, period |-> q]
NoBooking == [rooms |-> <<>>]

Stay(check_in, check_out) == check_in .. check_out - 1

\* BookingRoom with its nights: the plan, the unit price of each night, 0 for
\* nights outside the stay, and what each extra asked for adds to a night.
BookingRoom == [plan : Plans, unit : [Nights -> 0 .. MaxPrice],
                extra : UNION {[asked -> 0 .. MaxPrice] :
                                 asked \in SUBSET (Extras \cup {"breakfast"})}]

Booking == {NoBooking} \cup
  {b \in [check_in : Nights, check_out : 1 .. LastNight + 1,
          rooms : UNION {[1 .. n -> BookingRoom] : n \in 1 .. MaxRooms}] :
     b.check_in < b.check_out}

-----------------------------------------------------------------------------
(* The price of a night. *)

Covers(q, night) == q.first <= night /\ night <= q.last

\* Active RatePeriods of plan p that hold on a night.
PeriodsOn(p, night) ==
  {i \in PeriodIds : /\ periods[i] # NoPeriod
                     /\ periods[i].plan = p
                     /\ periods[i].active
                     /\ Covers(periods[i], night)}

\* _period_by_date and the search order them by start_date ...
Earliest(ids) == CHOOSE i \in ids : \A j \in ids : periods[i].first <= periods[j].first
\* ... the directory and the room search of the desk by -start_date, -id.
Latest(ids) ==
  CHOOSE i \in ids : \A j \in ids :
    \/ periods[j].first < periods[i].first
    \/ periods[j].first = periods[i].first /\ j <= i

RuleOf(ids, pick(_)) == IF ids = {} THEN NoRule ELSE periods[pick(ids)].rule

\* A DailyRate goes before a RatePeriod.
RuleFor(p, night) ==
  IF daily[p][night] # NoRule THEN daily[p][night] ELSE RuleOf(PeriodsOn(p, night), Earliest)

BasePrice(p, rule) == IF rule = NoRule THEN plans[p].price ELSE rule.price

Running(night) == {c \in Campaigns : /\ campaigns[c] # NoCampaign
                                     /\ ~campaigns[c].ended
                                     /\ Covers(campaigns[c], night)}

\* RoomPriceDiscount.Meta.ordering: the campaign that started last, then the
\* newest.
Prevailing(ids) ==
  CHOOSE c \in ids : \A d \in ids :
    \/ campaigns[d].first < campaigns[c].first
    \/ campaigns[d].first = campaigns[c].first /\ d <= c

\* discounted_room_amounts
Discounted(price, night) ==
  IF Running(night) = {} THEN price
  ELSE Min({price, campaigns[Prevailing(Running(night))].price})

\* Search, estimate and booking: _rate_amounts of the rule of the night.
NightPrice(p, night) == Discounted(BasePrice(p, RuleFor(p, night)), night)

\* minimum_room_prices_today, for a plan and the hotel's today: a plan that
\* costs nothing is not listed.
DirectoryPrice(p, today) ==
  Discounted(BasePrice(p, IF daily[p][today] # NoRule THEN daily[p][today]
                          ELSE RuleOf(PeriodsOn(p, today), Latest)), today)
Listed(p, today) == {DirectoryPrice(p, today)} \ {0}

\* PMSAvailableRoomSearchView._effective_plan_price: campaigns left out.
DeskPrice(p, night) ==
  BasePrice(p, IF daily[p][night] # NoRule THEN daily[p][night]
               ELSE RuleOf(PeriodsOn(p, night), Latest))

\* Seeded fault: a rule of the night after the last forbids departure.
RestrictionsOnDeparture(p, check_in, check_out) ==
  LET rules == {RuleFor(p, night) : night \in Stay(check_in, check_out)} \ {NoRule}
  IN  /\ RuleFor(p, check_in) # NoRule => ~RuleFor(p, check_in).closed_to_arrival
      /\ check_out \in Nights /\ RuleFor(p, check_out) # NoRule
           => ~RuleFor(p, check_out).closed_to_departure
      /\ \A rule \in rules : rule.min_stay <= check_out - check_in

\* create_booking: the plan may be arrived on, left and stayed for so long.
RestrictionsMet(p, check_in, check_out) ==
  LET rules == {RuleFor(p, night) : night \in Stay(check_in, check_out)} \ {NoRule}
  IN  /\ RuleFor(p, check_in) # NoRule => ~RuleFor(p, check_in).closed_to_arrival
      /\ RuleFor(p, check_out - 1) # NoRule => ~RuleFor(p, check_out - 1).closed_to_departure
      /\ \A rule \in rules : rule.min_stay <= check_out - check_in

\* RatePlan and RoomType are still there for a guest.
OnSale(p) == setup /\ Active(p)

-----------------------------------------------------------------------------
(* Extras. *)

\* _resolve_booking_breakfast: the default plan must be there, asked for or not.
BreakfastFails == bundle.breakfast = "hotel_default" /\ bundle.meal = Refused

\* What breakfast adds to a night: nothing when it is in the room price.
Breakfast ==
  CASE bundle.breakfast = "no_breakfast"  -> Refused
    [] bundle.breakfast = "included"      -> 0
    [] bundle.breakfast = "hotel_default" -> bundle.meal
    [] bundle.breakfast = "custom"        -> bundle.custom

\* _resolve_booking_meal_plans, validate_requested_extra_beds with
\* validate_extra_bed_settlement, and resolve_room_preferences.
Extra(x) == IF x = "breakfast" THEN Breakfast ELSE bundle.extras[x]

Granted(asked) == ~BreakfastFails /\ \A x \in asked : Extra(x) # Refused
ExtraTotal(asked) == MapThenSumSet(Extra, asked)

-----------------------------------------------------------------------------
(* What guests are shown, and what they get. *)

\* availability_for_hotels: the plans of a room type with rooms to sell.  A
\* missing default breakfast makes the whole search fail.
Offered(check_in, check_out) ==
  IF BreakfastFails THEN {}
  ELSE {p \in Plans :
          LET arrival   == RuleFor(p, check_in)
              departure == RuleFor(p, check_out - 1)
          IN  /\ OnSale(p)
              /\ arrival = NoRule \/ ~arrival.closed_to_arrival
              /\ departure = NoRule \/ ~departure.closed_to_departure
              /\ \A night \in Stay(check_in, check_out) :
                   RuleFor(p, night) = NoRule \/ RuleFor(p, night).min_stay <= check_out - check_in}

\* ... and the total shown with a plan.
OfferedTotal(p, check_in, check_out) ==
  MapThenSumSet(LAMBDA night : NightPrice(p, night), Stay(check_in, check_out))

\* estimate_booking: restrictions are not looked at.
Estimates(p, asked) == OnSale(p) /\ Granted(asked)
EstimatedNight(p, asked, night) == NightPrice(p, night) + ExtraTotal(asked)

\* create_booking, for one room.
Accepts(p, asked, check_in, check_out) ==
  OnSale(p) /\ Granted(asked) /\ RestrictionsMet(p, check_in, check_out)

BookedRoom(p, asked, check_in, check_out) ==
  [plan |-> p, extra |-> [x \in asked |-> Extra(x)],
   unit |-> [n \in Nights |-> IF n \in Stay(check_in, check_out) THEN NightPrice(p, n) ELSE 0]]

Request == UNION {[1 .. n -> Plans \X SUBSET (Extras \cup {"breakfast"})] : n \in 1 .. MaxRooms}

CreateBooking(check_in, check_out, request) ==
  /\ booking = NoBooking
  /\ \A i \in DOMAIN request : Accepts(request[i][1], request[i][2], check_in, check_out)
  /\ booking' = [check_in |-> check_in, check_out |-> check_out,
                 rooms |-> [i \in DOMAIN request |->
                              BookedRoom(request[i][1], request[i][2], check_in, check_out)]]
  /\ UNCHANGED <<catalogue, editing, strays, edits>>

\* Seeded fault: nights already booked get the price of today.
UnitRepriced(i, fresh, check_in, check_out) == fresh.unit

\* The nights a room of the form shares with the room that had its place in the
\* booking keep their unit price; everything else has the price of today.
Unit(i, fresh, check_in, check_out) ==
  IF i \in DOMAIN booking.rooms /\ booking.rooms[i].plan = fresh.plan
  THEN [n \in Nights |-> IF n \in Stay(check_in, check_out)
                              \cap Stay(booking.check_in, booking.check_out)
                         THEN booking.rooms[i].unit[n] ELSE fresh.unit[n]]
  ELSE fresh.unit

\* update_reservation_for_check_in: the booking is made again as the form has
\* it, from today's catalogue, and takes the nights it had.
SaveForm(check_in, check_out, request) ==
  /\ booking # NoBooking
  /\ \A i \in DOMAIN request : Accepts(request[i][1], request[i][2], check_in, check_out)
  /\ booking' =
       [check_in |-> check_in, check_out |-> check_out,
        rooms |-> [i \in DOMAIN request |->
          LET fresh == BookedRoom(request[i][1], request[i][2], check_in, check_out)
          IN  [fresh EXCEPT !.unit = Unit(i, fresh, check_in, check_out)]]]
  /\ UNCHANGED <<catalogue, editing, strays, edits>>

-----------------------------------------------------------------------------
(* Standard plans. *)

\* A plan without a price in the base currency is not published.
Published(price) == Plan(IF price > 0 THEN "active" ELSE "inactive", price)

\* The standard plan sync_market_price picks: by -is_active, id; or a new one.
Follower(current) ==
  CASE current["booking"].state = "active" -> "booking"
    [] current["booking"].state # "active" /\ current["core"].state = "active" -> "core"
    [] OTHER -> IF current["booking"].state = "absent" /\ current["core"].state # "absent"
                THEN "core" ELSE "booking"

\* sync_market_price
MarketSynced(current, price) == [current EXCEPT ![Follower(current)] = Published(price)]

Edit == edits < MaxEdits /\ edits' = edits + 1

\* RoomPricingMixin.room_price: this market's price is set or cleared, another
\* one being set.
SetRoomPrice(price) ==
  /\ Edit
  /\ setup' = TRUE
  /\ normal' = price
  /\ plans' = MarketSynced(plans, price)
  /\ UNCHANGED <<daily, periods, campaigns, bundle, editing, strays, booking>>

\* Seeded fault: Core's price stays, though the hotel has set one.
CorePlanAsSent(b) ==
  IF b.plan = "absent" THEN IF plans["core"] = NoPlan THEN NoPlan ELSE Plan("inactive", plans["core"].price)
  ELSE Plan(b.plan, b.price)

\* sync_business_from_core: Core's plan takes the hotel's price once there is
\* one, a plan Core no longer has is switched off, and the market is synced.
CorePlan(b) ==
  CASE b.plan = "absent" ->
         IF plans["core"] = NoPlan THEN NoPlan ELSE Plan("inactive", plans["core"].price)
    [] OTHER -> Plan(b.plan, IF setup THEN normal ELSE b.price)

SyncFromCore(b) ==
  /\ Edit
  /\ bundle' = b
  /\ LET current == [plans EXCEPT !["core"] = CorePlan(b)]
     IN  plans' = IF setup THEN MarketSynced(current, normal) ELSE current
  /\ UNCHANGED <<setup, normal, daily, periods, campaigns, editing, strays, booking>>

-----------------------------------------------------------------------------
(* Rates and campaigns. *)

\* RatePlanViewSet: custom plans are made, changed and switched off, and the
\* standard plan made here is changed: only Core's plans are read-only.
SaveRatePlan(p, state, price) ==
  /\ Edit
  /\ p = "booking" => plans[p] # NoPlan
  /\ plans' = [plans EXCEPT ![p] = Plan(state, price)]
  /\ UNCHANGED <<setup, normal, daily, periods, campaigns, bundle, editing, strays, booking>>

\* DailyRateViewSet.bulk_upsert, and its removal of one.
UpsertDailyRates(p, first, last, rule) ==
  /\ Edit
  /\ first <= last /\ (rule = NoRule => first = last)
  /\ plans[p] # NoPlan
  /\ daily' = [daily EXCEPT ![p] = [n \in Nights |-> IF first <= n /\ n <= last THEN rule
                                                     ELSE daily[p][n]]]
  /\ UNCHANGED <<setup, normal, plans, periods, campaigns, bundle, editing, strays, booking>>

\* RoomPriceDiscountSerializer: lower than the normal price as it is now.
SaveCampaign(c, price, first, last) ==
  /\ Edit
  /\ setup
  /\ campaigns[c] # NoCampaign => ~campaigns[c].ended
  /\ price < normal
  /\ campaigns' = [campaigns EXCEPT ![c] = [price |-> price, first |-> first, last |-> last,
                                            ended |-> FALSE]]
  /\ UNCHANGED <<setup, normal, plans, daily, periods, bundle, editing, strays, booking>>

EndCampaign(c) ==
  /\ Edit
  /\ campaigns[c] # NoCampaign
  /\ ~campaigns[c].ended
  /\ campaigns' = [campaigns EXCEPT ![c].ended = TRUE]
  /\ UNCHANGED <<setup, normal, plans, daily, periods, bundle, editing, strays, booking>>

\* Seeded fault: nothing is locked.
UnlockedAlways(p) == TRUE

\* Nobody holds the lock of the RatePlan.
Unlocked(p) == \A e \in Editors : editing[e].step = "checked" => editing[e].plan # p

\* RatePeriodSerializer.validate
NoOverlap(i, q) ==
  q.active => \A night \in q.first .. q.last : PeriodsOn(q.plan, night) \subseteq {i}

\* RatePeriodViewSet.create, and update when the request names the plan: that
\* plan is locked, and the period checked against those saved so far.  A new
\* period gets a key of its own.
BeginPeriod(e, i, q) ==
  /\ Edit
  /\ editing[e] = Idle
  /\ periods[i] = NoPeriod => \A f \in Editors : editing[f] # Idle => editing[f].id # i
  /\ plans[q.plan] # NoPlan
  /\ Unlocked(q.plan)
  /\ NoOverlap(i, q)
  /\ editing' = [editing EXCEPT ![e] = Checked(i, q.plan, q)]
  /\ UNCHANGED <<catalogue, strays, booking>>

\* An update that does not name the plan asks for the lock of the one it finds
\* the period on ...
ReadPeriod(e, i) ==
  /\ Edit
  /\ editing[e] = Idle
  /\ periods[i] # NoPeriod
  /\ editing' = [editing EXCEPT ![e] = Waiting(i, periods[i].plan)]
  /\ UNCHANGED <<catalogue, strays, booking>>

\* ... and once it has it, reads the period again and checks it on the plan it
\* is on by then.
RecheckPeriod(e, q) ==
  /\ editing[e].step = "waiting"
  /\ Unlocked(editing[e].plan)
  /\ periods[editing[e].id] # NoPeriod
  /\ q.plan = periods[editing[e].id].plan
  /\ NoOverlap(editing[e].id, q)
  /\ editing' = [editing EXCEPT ![e] = Checked(@.id, @.plan, q)]
  /\ UNCHANGED <<catalogue, strays, booking, edits>>

\* It is gone, or the edit is refused.
RefusePeriod(e) ==
  /\ editing[e].step = "waiting"
  /\ editing' = [editing EXCEPT ![e] = Idle]
  /\ UNCHANGED <<catalogue, strays, booking, edits>>

\* The period is saved, and the transaction ends with its locks.
SavePeriod(e) ==
  /\ editing[e].step = "checked"
  /\ periods' = [periods EXCEPT ![editing[e].id] = editing[e].period]
  /\ strays' = IF editing[e].plan = editing[e].period.plan THEN strays \ {editing[e].id}
               ELSE strays \union {editing[e].id}
  /\ editing' = [editing EXCEPT ![e] = Idle]
  /\ UNCHANGED <<setup, normal, plans, daily, campaigns, bundle, booking, edits>>

\* No lock is taken: an edit that is under way saves the period anew.
DeletePeriod(i) ==
  /\ Edit
  /\ periods[i] # NoPeriod
  /\ periods' = [periods EXCEPT ![i] = NoPeriod]
  /\ UNCHANGED <<setup, normal, plans, daily, campaigns, bundle, editing, strays, booking>>

-----------------------------------------------------------------------------
\* A new hotel, or one that has a custom plan and a season of Core's plan.
PricingInit ==
  /\ setup = FALSE
  /\ normal = 0
  /\ bundle \in Bundles
  /\ LET core == IF bundle.plan # "absent" THEN Plan(bundle.plan, bundle.price) ELSE NoPlan
         With(custom) == [p \in Plans |-> CASE p = "core" -> core [] p = "custom" -> custom
                                            [] OTHER -> NoPlan]
     IN  \/ /\ plans = With(NoPlan)
            /\ periods = [i \in PeriodIds |-> NoPeriod]
         \/ /\ core # NoPlan
            /\ plans = With(Plan("active", MaxPrice))
            /\ \E first \in PeriodIds, rule \in Rules :
                 /\ \A i \in PeriodIds : first <= i
                 /\ periods = [i \in PeriodIds |->
                                 IF i = first THEN Period("core", 0, LastNight, TRUE, rule) ELSE NoPeriod]
  /\ daily = [p \in Plans |-> [n \in Nights |-> NoRule]]
  /\ campaigns = [c \in Campaigns |-> NoCampaign]
  /\ editing = [e \in Editors |-> Idle]
  /\ strays = {}
  /\ booking = NoBooking
  /\ edits = 0

Hotel ==
  \/ \E price \in 0 .. MaxPrice : SetRoomPrice(price)
  \/ \E b \in Bundles : SyncFromCore(b)
  \/ \E p \in {"custom", "booking"}, state \in {"active", "inactive"}, price \in 0 .. MaxPrice :
       SaveRatePlan(p, state, price)
  \/ \E p \in Plans, first, last \in Nights, rule \in Rules \cup {NoRule} :
       UpsertDailyRates(p, first, last, rule)
  \/ \E c \in Campaigns :
       \/ \E price \in Price, first, last \in Nights :
            first <= last /\ SaveCampaign(c, price, first, last)
       \/ EndCampaign(c)

RatePeriods ==
  \/ \E e \in Editors : \/ \E i \in PeriodIds, q \in AllPeriods : BeginPeriod(e, i, q)
                        \/ \E i \in PeriodIds : ReadPeriod(e, i)
                        \/ \E q \in AllPeriods : RecheckPeriod(e, q)
                        \/ RefusePeriod(e) \/ SavePeriod(e)
  \/ \E i \in PeriodIds : DeletePeriod(i)

Guests ==
  \E check_in \in Nights, check_out \in 1 .. LastNight + 1, request \in Request :
    /\ check_in < check_out
    /\ \/ CreateBooking(check_in, check_out, request)
       \/ SaveForm(check_in, check_out, request)

PricingNext == Hotel \/ RatePeriods \/ Guests

PricingSpec == PricingInit /\ [][PricingNext]_pricingVars

-----------------------------------------------------------------------------
(* Properties. *)

\* Every variable keeps its type.
PricingTypeOK ==
  /\ setup \in BOOLEAN
  /\ normal \in 0 .. MaxPrice
  /\ plans \in [Plans -> [state : {"absent", "inactive", "active"}, price : 0 .. MaxPrice]]
  /\ daily \in [Plans -> [Nights -> Rules \cup {NoRule}]]
  /\ periods \in [PeriodIds -> AllPeriods \cup {NoPeriod}]
  /\ campaigns \in [Campaigns -> Campaign \cup {NoCampaign}]
  /\ bundle \in Bundles
  /\ editing \in [Editors -> {Idle} \cup [step : {"waiting"}, id : PeriodIds, plan : Plans]
                     \cup [step : {"checked"}, id : PeriodIds, plan : Plans, period : AllPeriods]]
  /\ strays \subseteq PeriodIds
  /\ booking \in Booking
  /\ edits \in 0 .. MaxEdits

\* "Active periods for one rate plan cannot overlap": two staff editing the
\* seasons of a plan at the same time cannot make two rules hold on a night,
\* unless one of the two periods was moved to the plan while its edit waited
\* for the lock of another (views.py:4917-4920 reads the plan before the lock).
OnePeriodANight ==
  /\ PricingTypeOK
  /\ \A p \in Plans, n \in Nights : Cardinality(PeriodsOn(p, n) \ strays) <= 1

\* A price shown is the price paid: where no two periods overlap, whatever the
\* search offers can be booked as it is, every night at the price that an
\* estimate gives too, and at the directory's, though each of them finds the
\* rule of the night in its own way.  A night that costs nothing is sold like
\* any other, and only the directory leaves it out.
OffersHonoured ==
  \A check_in \in Nights, check_out \in 1 .. LastNight + 1 : check_in < check_out =>
    \A p \in Offered(check_in, check_out) :
      (\A n \in Stay(check_in, check_out) : Cardinality(PeriodsOn(p, n)) <= 1) =>
        /\ Accepts(p, {}, check_in, check_out)
        /\ OfferedTotal(p, check_in, check_out) =
             SumFunction(BookedRoom(p, {}, check_in, check_out).unit)
        /\ \A n \in Stay(check_in, check_out) :
             /\ Listed(p, n) = {BookedRoom(p, {}, check_in, check_out).unit[n]} \ {0}
             /\ Estimates(p, {})
             /\ EstimatedNight(p, {}, n) = BookedRoom(p, {}, check_in, check_out).unit[n]

\* A sync from Core leaves every standard plan on sale at the hotel's price of
\* the market, whatever plans Core has added or dropped.
SyncRestoresPrices ==
  [][bundle' # bundle /\ setup =>
       \A p \in Standard : plans'[p].state = "active" => plans'[p].price = normal]_pricingVars

\* Nights a booking keeps are not repriced by saving its form, when it keeps
\* its rooms: only the nights added are sold at today's prices.
NightsKeepTheirPrice ==
  [][booking # NoBooking /\ booking'.rooms # <<>>
       /\ Len(booking.rooms) = Len(booking'.rooms)
       /\ (\A i \in DOMAIN booking.rooms : booking.rooms[i].plan = booking'.rooms[i].plan)
     => \A i \in DOMAIN booking.rooms :
          \A n \in Stay(booking.check_in, booking.check_out)
                     \cap Stay(booking'.check_in, booking'.check_out) :
            booking'.rooms[i].unit[n] = booking.rooms[i].unit[n]]_pricingVars
=============================================================================
