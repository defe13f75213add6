--------------------------- MODULE Pricing_proofs ---------------------------
(***************************************************************************)
(* Proofs about Pricing, for every calendar, price range, set of rules,    *)
(* bundles, editors, campaigns and number of edits: the seasons of a plan  *)
(* never overlap; what the search offers can be booked at the price shown; *)
(* a synchronisation restores the hotel's prices; and nights that were     *)
(* booked keep theirs.                                                     *)
(***************************************************************************)
EXTENDS Pricing, Sums_proofs

-----------------------------------------------------------------------------
(* Types. *)

LEMMA CampaignIds == Campaigns \subseteq Nat /\ IsFiniteSet(Campaigns)
<1>1. Campaigns \subseteq Nat
  BY PricingAssumption, Zenon
<1>2. IsFiniteSet(Campaigns)
  BY PricingAssumption, Zenon
<1>3. QED
  BY <1>1, <1>2

LEMMA NoRuleIsNoRule ==
    \A rule \in Rules : rule # NoRule /\ rule \in Rule /\ rule.price \in 0 .. MaxPrice
<1>1. \A rule \in Rule : rule # NoRule /\ rule.price \in 0 .. MaxPrice
  <2> TAKE rule \in Rule
  <2>1. rule.price \in 0 .. MaxPrice /\ "min_stay" \in DOMAIN rule
    BY DEF Rule
  <2>2. "min_stay" \notin DOMAIN NoRule
    BY DEF NoRule
  <2>3. QED
    BY <2>1, <2>2
<1>2. QED
  BY <1>1, PricingAssumption

PlanRow == [state : {"absent", "inactive", "active"}, price : 0 .. MaxPrice]

LEMMA PeriodTypes ==
    /\ \A q \in AllPeriods : /\ q.plan \in Plans /\ q.first \in Nights /\ q.last \in Nights
                            /\ q.first <= q.last /\ q.rule \in Rules /\ q # NoPeriod
    /\ NoPeriod \notin AllPeriods
<1>1. "absent" \notin Plans
  BY DEF Plans, Standard
<1>2. \A q \in AllPeriods : /\ q.plan \in Plans /\ q.first \in Nights /\ q.last \in Nights
                           /\ q.first <= q.last /\ q.rule \in Rules
  BY DEF AllPeriods
<1>3. NoPeriod.plan = "absent"
  BY DEF NoPeriod
<1>4. QED
  BY <1>1, <1>2, <1>3

\* An edit waits with a plan to lock, or has its lock and a period to save.
WaitingEdit == [step : {"waiting"}, id : PeriodIds, plan : Plans]
CheckedEdit == [step : {"checked"}, id : PeriodIds, plan : Plans, period : AllPeriods]
AnyEdit == {Idle} \cup WaitingEdit \cup CheckedEdit

LEMMA EditTypes ==
    /\ Idle.step = "idle" /\ Idle \in AnyEdit
    /\ \A x \in AnyEdit : x.step = "waiting" => x \in WaitingEdit
    /\ \A x \in AnyEdit : x.step = "checked" => x \in CheckedEdit
    /\ \A i \in PeriodIds, p \in Plans :
         Waiting(i, p) \in AnyEdit /\ Waiting(i, p).step = "waiting"
    /\ \A i \in PeriodIds, p \in Plans, q \in AllPeriods :
         /\ Checked(i, p, q) \in AnyEdit /\ Checked(i, p, q).step = "checked"
         /\ Checked(i, p, q).id = i /\ Checked(i, p, q).plan = p /\ Checked(i, p, q).period = q
BY DEF AnyEdit, Idle, WaitingEdit, CheckedEdit, Waiting, Checked

\* What an extra costs, when the guest may have it.
LEMMA ExtraTypes ==
    ASSUME bundle \in Bundle, NEW asked \in SUBSET (Extras \cup {"breakfast"}), Granted(asked)
    PROVE  \A x \in asked : Extra(x) \in 0 .. MaxPrice
<1>1. \A o \in Offer : o # Refused => o \in 0 .. MaxPrice
  BY PricingAssumption DEF Offer, Refused
<1>2. Breakfast \in Offer
  BY PricingAssumption DEF Breakfast, Bundle, BreakfastTypes, Offer, Refused
<1>3. \A x \in asked : Extra(x) \in Offer
  BY <1>2 DEF Extra, Bundle
<1>4. QED
  BY <1>1, <1>3 DEF Granted

-----------------------------------------------------------------------------
(* Campaigns. *)

\* One campaign goes before all others that run.
LEMMA PrevailingOne ==
    ASSUME NEW ids \in SUBSET Campaigns, ids # {},
           \A c \in ids : campaigns[c].first \in Int
    PROVE  Prevailing(ids) \in ids
<1> DEFINE First(c) == campaigns[c].first
           Before(d, c) == First(d) < First(c) \/ (First(d) = First(c) /\ d <= c)
           T == {A \in SUBSET ids : A # {} /\ \A c \in A : \E d \in A : ~Before(d, c)}
<1>0. \A c \in ids : First(c) \in Int /\ c \in Int
  <2>1. Campaigns \subseteq Int
    BY CampaignIds
  <2>2. QED
    BY <2>1
<1>1. ASSUME T # {} PROVE FALSE
  <2>1. PICK A \in T : \A B \in T : B \subseteq A => B = A
    <3>1. T \in SUBSET SUBSET Campaigns
      OBVIOUS
    <3> HIDE DEF T
    <3>2. IsFiniteSet(Campaigns)
      BY CampaignIds
    <3>3. QED
      BY <1>1, <3>1, <3>2, SmallestSet
  <2>2. PICK x \in A : TRUE
    OBVIOUS
  <2>3. A \ {x} \notin T
    BY <2>1, <2>2
  <2>4. A \ {x} # {} => \E c \in A \ {x} : \A d \in A \ {x} : Before(d, c)
    BY <2>3
  <2> HIDE DEF Before
  <2>5. \A c, d, e \in ids : /\ Before(c, c) /\ (Before(c, d) \/ Before(d, c))
                             /\ (Before(c, d) /\ Before(d, e) => Before(c, e))
    <3> HIDE DEF First
    <3>1. QED
      BY <1>0 DEF Before
  <2>6. A \subseteq ids /\ \A c \in A : \E d \in A : ~Before(d, c)
    BY <2>1
  <2>7. CASE A \ {x} = {}
    BY <2>2, <2>5, <2>6, <2>7
  <2>8. CASE A \ {x} # {}
    <3>1. PICK c \in A \ {x} : \A d \in A \ {x} : Before(d, c)
      BY <2>4, <2>8
    <3>2. Before(x, c)
        => \A d \in A : Before(d, c)
      BY <3>1
    <3>3. Before(c, x) => \A d \in A : Before(d, x)
      BY <2>2, <2>5, <2>6, <3>1
    <3>4. QED
      BY <2>2, <2>5, <2>6, <3>1, <3>2, <3>3
  <2>9. QED
    BY <2>7, <2>8
<1>2. \E c \in ids : \A d \in ids : Before(d, c)
  BY <1>1
<1>3. QED
  BY <1>2 DEF Prevailing

-----------------------------------------------------------------------------
(* The invariant. *)

\* A plan whose lock is held is edited by one request.
EditorsApart ==
    \A e, f \in Editors :
        editing[e].step = "checked" /\ editing[f].step = "checked" /\ editing[e].plan = editing[f].plan
          => e = f

\* An edit that holds the lock of the period's plan has looked at all periods
\* the plan has, but for those that came to it past its lock.
Concerns(e, p, n) ==
    /\ editing[e].step = "checked" /\ editing[e].plan = p
    /\ editing[e].period.plan = p /\ editing[e].period.active /\ Covers(editing[e].period, n)

EditsChecked ==
    \A e \in Editors, p \in Plans, n \in Nights :
        Concerns(e, p, n) => PeriodsOn(p, n) \subseteq {editing[e].id} \cup strays

OneEach == \A p \in Plans, n \in Nights : \A i, j \in PeriodsOn(p, n) \ strays : i = j

PricingInv == PricingTypeOK /\ EditorsApart /\ EditsChecked /\ OneEach

LEMMA PricingInitInv == PricingInit => PricingInv
<1> SUFFICES ASSUME PricingInit PROVE PricingInv
  OBVIOUS
<1> DEFINE core == IF bundle.plan # "absent" THEN Plan(bundle.plan, bundle.price) ELSE NoPlan
           With(custom) == [p \in Plans |-> CASE p = "core" -> core [] p = "custom" -> custom
                                              [] OTHER -> NoPlan]
<1>1. bundle \in Bundles /\ bundle \in Bundle
  BY PricingAssumption DEF PricingInit
<1>2. NoPlan \in PlanRow /\ Plan("active", MaxPrice) \in PlanRow /\ core \in PlanRow
  BY <1>1, PricingAssumption DEF NoPlan, Plan, PlanRow, Bundle
<1> HIDE DEF core
<1>3. \A custom \in PlanRow : With(custom) \in [Plans -> PlanRow]
  <2> TAKE custom \in PlanRow
  <2>1. \A p \in Plans : With(custom)[p] \in PlanRow
    BY <1>2
  <2>2. QED
    BY <2>1
<1>4. plans = With(NoPlan) \/ plans = With(Plan("active", MaxPrice))
  BY DEF PricingInit, core
<1>5. plans \in [Plans -> PlanRow]
  <2> HIDE DEF With
  <2>1. QED
    BY <1>2, <1>3, <1>4
<1>6. PICK first : /\ periods \in [PeriodIds -> AllPeriods \cup {NoPeriod}]
                    /\ \A i \in PeriodIds : i # first => periods[i] = NoPeriod
  <2>1. CASE periods = [i \in PeriodIds |-> NoPeriod]
    BY <2>1
  <2>2. ASSUME NEW k \in PeriodIds, NEW rule \in Rules,
               periods = [i \in PeriodIds |->
                            IF i = k THEN Period("core", 0, LastNight, TRUE, rule) ELSE NoPeriod]
        PROVE  /\ periods \in [PeriodIds -> AllPeriods \cup {NoPeriod}]
               /\ \A i \in PeriodIds : i # k => periods[i] = NoPeriod
    <3>1. Period("core", 0, LastNight, TRUE, rule) \in AllPeriods
      BY PricingAssumption DEF Period, AllPeriods, Plans, Standard, Nights
    <3>2. QED
      BY <2>2, <3>1
  <2>3. \/ periods = [i \in PeriodIds |-> NoPeriod]
        \/ \E k \in PeriodIds, rule \in Rules :
             periods = [i \in PeriodIds |->
                          IF i = k THEN Period("core", 0, LastNight, TRUE, rule) ELSE NoPeriod]
    BY DEF PricingInit
  <2>4. QED
    BY <2>1, <2>2, <2>3
<1>7. PricingTypeOK
  <2>1. 0 \in 0 .. MaxPrice /\ 0 \in 0 .. MaxEdits
    BY PricingAssumption
  <2>2. booking \in Booking
    BY DEF PricingInit, Booking
  <2>3. /\ setup \in BOOLEAN /\ normal \in 0 .. MaxPrice /\ edits \in 0 .. MaxEdits
        /\ daily \in [Plans -> [Nights -> Rules \cup {NoRule}]]
        /\ campaigns \in [Campaigns -> Campaign \cup {NoCampaign}]
        /\ editing \in [Editors -> AnyEdit] /\ strays \subseteq PeriodIds
    BY <2>1, EditTypes DEF PricingInit
  <2>4. QED
    BY <1>1, <1>5, <1>6, <2>2, <2>3 DEF PricingTypeOK, PlanRow, AnyEdit, WaitingEdit, CheckedEdit
<1>8. \A p, n : PeriodsOn(p, n) \subseteq {first}
  BY <1>6 DEF PeriodsOn
<1>9. EditorsApart /\ EditsChecked /\ OneEach
  <2>1. \A e \in Editors : editing[e].step # "checked"
    BY EditTypes DEF PricingInit
  <2>2. OneEach
    BY <1>8 DEF OneEach
  <2>3. QED
    BY <2>1, <2>2 DEF EditorsApart, EditsChecked, Concerns
<1>10. QED
  BY <1>7, <1>9 DEF PricingInv

\* Nothing about the seasons changes.
LEMMA SeasonsKept ==
    ASSUME PricingInv, UNCHANGED <<periods, editing, strays>>
    PROVE  EditorsApart' /\ EditsChecked' /\ OneEach'
<1>1. \A p, n : PeriodsOn(p, n)' = PeriodsOn(p, n)
  BY DEF PeriodsOn
<1>2. QED
  BY <1>1 DEF PricingInv, EditorsApart, EditsChecked, OneEach, Concerns

\* An edit that has no lock yet, or none any more, is no concern of the others.
LEMMA SeasonsAwaited ==
    ASSUME PricingInv, NEW e \in Editors, NEW x \in AnyEdit, x.step # "checked",
           editing' = [editing EXCEPT ![e] = x], UNCHANGED <<periods, strays>>
    PROVE  EditorsApart' /\ EditsChecked' /\ OneEach' /\ editing' \in [Editors -> AnyEdit]
<1>1. \A p, n : PeriodsOn(p, n)' = PeriodsOn(p, n)
  BY DEF PeriodsOn
<1>2. editing \in [Editors -> AnyEdit]
  BY DEF PricingInv, PricingTypeOK, AnyEdit, WaitingEdit, CheckedEdit
<1>3. \A f \in Editors : editing'[f].step = "checked" => editing'[f] = editing[f]
  BY <1>2
<1>4. EditorsApart'
  BY <1>3 DEF EditorsApart, PricingInv
<1>5. EditsChecked'
  <2> SUFFICES ASSUME NEW f \in Editors, NEW p \in Plans, NEW n \in Nights, Concerns(f, p, n)'
               PROVE  (PeriodsOn(p, n) \subseteq {editing[f].id} \cup strays)'
    BY DEF EditsChecked
  <2>1. editing'[f] = editing[f]
    BY <1>3 DEF Concerns
  <2>2. Concerns(f, p, n)
    BY <2>1 DEF Concerns
  <2>3. QED
    BY <1>1, <2>1, <2>2 DEF PricingInv, EditsChecked
<1>6. QED
  BY <1>1, <1>2, <1>4, <1>5 DEF OneEach, PricingInv

\* The lock of a plan is taken by one who finds it free, and looks at the
\* period's plan, be it that one or another.
LEMMA SeasonsBegun ==
    ASSUME PricingInv, NEW e \in Editors, NEW i \in PeriodIds, NEW p \in Plans, NEW q \in AllPeriods,
           Unlocked(p), NoOverlap(i, q), editing' = [editing EXCEPT ![e] = Checked(i, p, q)],
           UNCHANGED <<periods, strays>>
    PROVE  EditorsApart' /\ EditsChecked' /\ OneEach' /\ editing' \in [Editors -> AnyEdit]
<1> DEFINE c == Checked(i, p, q)
<1>1. \A r, n : PeriodsOn(r, n)' = PeriodsOn(r, n)
  BY DEF PeriodsOn
<1>2. editing \in [Editors -> AnyEdit]
  BY DEF PricingInv, PricingTypeOK, AnyEdit, WaitingEdit, CheckedEdit
<1>3. c \in AnyEdit /\ c.step = "checked" /\ c.id = i /\ c.plan = p /\ c.period = q
  BY EditTypes
<1> HIDE DEF c
<1>4. \A f \in Editors : editing'[f] = IF f = e THEN c ELSE editing[f]
  BY <1>2 DEF c
<1>5. EditorsApart'
  <2>1. \A f \in Editors : f # e => editing'[f] = editing[f]
    BY <1>4
  <2>2. editing'[e].plan = p
    BY <1>3, <1>4
  <2>3. QED
    BY <2>1, <2>2 DEF EditorsApart, PricingInv, Unlocked
<1>6. EditsChecked'
  <2> SUFFICES ASSUME NEW f \in Editors, NEW r \in Plans, NEW n \in Nights, Concerns(f, r, n)'
               PROVE  (PeriodsOn(r, n) \subseteq {editing[f].id} \cup strays)'
    BY DEF EditsChecked
  <2>1. CASE f = e
    <3>1. q.plan = r /\ q.active /\ Covers(q, n) /\ editing'[f].id = i
      BY <1>3, <1>4, <2>1 DEF Concerns
    <3>2. PeriodsOn(r, n) \subseteq {i}
      BY <3>1, PeriodTypes DEF NoOverlap, Covers, Nights
    <3>3. QED
      BY <1>1, <3>1, <3>2
  <2>2. CASE f # e
    <3>1. editing'[f] = editing[f]
      BY <1>4, <2>2
    <3>2. Concerns(f, r, n)
      BY <3>1 DEF Concerns
    <3>3. QED
      BY <1>1, <3>1, <3>2 DEF PricingInv, EditsChecked
  <2>3. QED
    BY <2>1, <2>2
<1>7. QED
  BY <1>1, <1>3, <1>4, <1>5, <1>6, <1>2 DEF OneEach, PricingInv

LEMMA SeasonsSaved ==
    ASSUME PricingInv, NEW e \in Editors, SavePeriod(e)
    PROVE  EditorsApart' /\ EditsChecked' /\ OneEach' /\ editing' \in [Editors -> AnyEdit]
<1> DEFINE i == editing[e].id
           q == editing[e].period
           p == editing[e].plan
<1>1. /\ editing \in [Editors -> AnyEdit] /\ periods \in [PeriodIds -> AllPeriods \cup {NoPeriod}]
      /\ editing[e].step = "checked"
      /\ periods' = [periods EXCEPT ![i] = q] /\ editing' = [editing EXCEPT ![e] = Idle]
      /\ strays' = IF p = q.plan THEN strays \ {i} ELSE strays \cup {i}
  BY DEF SavePeriod, PricingInv, PricingTypeOK, AnyEdit, WaitingEdit, CheckedEdit
<1>2. i \in PeriodIds /\ q \in AllPeriods
  <2>1. editing[e] \in CheckedEdit
    BY <1>1, EditTypes
  <2>2. QED
    BY <2>1 DEF CheckedEdit
<1>3. \A f \in Editors : editing'[f] = IF f = e THEN Idle ELSE editing[f]
  BY <1>1
<1>4. \A n \in Nights : p = q.plan /\ q.active /\ Covers(q, n)
        => PeriodsOn(q.plan, n) \subseteq {i} \cup strays
  BY <1>1, <1>2, PeriodTypes DEF PricingInv, EditsChecked, Concerns
<1>5. \A f \in Editors : editing'[f].step = "checked" =>
        f # e /\ editing'[f] = editing[f] /\ editing[f].plan # p
  BY <1>1, <1>3, EditTypes DEF PricingInv, EditorsApart
<1> HIDE DEF i, q, p
<1>6. \A k \in PeriodIds : periods'[k] = IF k = i THEN q ELSE periods[k]
  BY <1>1
<1>7. \A r, n : PeriodsOn(r, n)' \subseteq PeriodsOn(r, n) \cup {i}
  BY <1>6 DEF PeriodsOn
<1>8. \A r, n : i \in PeriodsOn(r, n)' => q.plan = r /\ q.active /\ Covers(q, n)
  BY <1>2, <1>6 DEF PeriodsOn
<1>9. EditorsApart'
  BY <1>5 DEF EditorsApart, PricingInv
<1>10. EditsChecked'
  <2> SUFFICES ASSUME NEW f \in Editors, NEW r \in Plans, NEW n \in Nights, Concerns(f, r, n)'
               PROVE  (PeriodsOn(r, n) \subseteq {editing[f].id} \cup strays)'
    BY DEF EditsChecked
  <2>1. editing'[f] = editing[f] /\ r # p
    BY <1>5 DEF Concerns
  <2>2. Concerns(f, r, n)
    BY <2>1 DEF Concerns
  <2>3. PeriodsOn(r, n) \subseteq {editing[f].id} \cup strays
    BY <2>2 DEF PricingInv, EditsChecked
  <2>4. CASE p = q.plan
    <3>1. i \notin PeriodsOn(r, n)'
      BY <1>8, <2>1, <2>4
    <3>2. PeriodsOn(r, n)' \subseteq PeriodsOn(r, n) /\ strays' = strays \ {i}
      BY <1>1, <1>7, <2>4, <3>1
    <3>3. PeriodsOn(r, n)' \subseteq {editing[f].id} \cup strays'
      BY <2>3, <3>1, <3>2
    <3>4. QED
      BY <2>1, <3>3
  <2>5. CASE p # q.plan
    <3>1. PeriodsOn(r, n)' \subseteq PeriodsOn(r, n) \cup {i} /\ strays' = strays \cup {i}
      BY <1>1, <1>7, <2>5
    <3>2. PeriodsOn(r, n)' \subseteq {editing[f].id} \cup strays'
      BY <2>3, <3>1
    <3>3. QED
      BY <2>1, <3>2
  <2>6. QED
    BY <2>4, <2>5
<1>11. OneEach'
  <2> SUFFICES ASSUME NEW r \in Plans, NEW n \in Nights,
                      NEW j \in PeriodsOn(r, n)' \ strays', NEW k \in PeriodsOn(r, n)' \ strays'
               PROVE  j = k
    BY DEF OneEach
  <2>1. j # i => j \in PeriodsOn(r, n) \ strays
    BY <1>1, <1>7
  <2>2. k # i => k \in PeriodsOn(r, n) \ strays
    BY <1>1, <1>7
  <2>3. CASE i \in PeriodsOn(r, n)' \ strays'
    <3>1. p = q.plan /\ q.plan = r /\ q.active /\ Covers(q, n)
      BY <1>1, <1>8, <2>3
    <3>2. PeriodsOn(r, n) \subseteq {i} \cup strays
      BY <1>4, <3>1
    <3>3. QED
      BY <2>1, <2>2, <3>2
  <2>4. CASE i \notin PeriodsOn(r, n)' \ strays'
    BY <2>1, <2>2, <2>4 DEF PricingInv, OneEach
  <2>5. QED
    BY <2>3, <2>4
<1>12. QED
  BY <1>1, <1>9, <1>10, <1>11, EditTypes

LEMMA SeasonsDeleted ==
    ASSUME PricingInv, NEW i \in PeriodIds, DeletePeriod(i)
    PROVE  EditorsApart' /\ EditsChecked' /\ OneEach'
<1>1. /\ periods \in [PeriodIds -> AllPeriods \cup {NoPeriod}]
      /\ periods' = [periods EXCEPT ![i] = NoPeriod] /\ UNCHANGED <<editing, strays>>
  BY DEF DeletePeriod, PricingInv, PricingTypeOK
<1>2. \A p, n : PeriodsOn(p, n)' \subseteq PeriodsOn(p, n)
  BY <1>1 DEF PeriodsOn
<1>3. EditorsApart' /\ OneEach'
  BY <1>1, <1>2 DEF PricingInv, EditorsApart, OneEach
<1>4. EditsChecked'
  <2> SUFFICES ASSUME NEW f \in Editors, NEW p \in Plans, NEW n \in Nights, Concerns(f, p, n)'
               PROVE  (PeriodsOn(p, n) \subseteq {editing[f].id} \cup strays)'
    BY DEF EditsChecked
  <2>1. Concerns(f, p, n)
    BY <1>1 DEF Concerns
  <2>2. PeriodsOn(p, n) \subseteq {editing[f].id} \cup strays
    BY <2>1 DEF PricingInv, EditsChecked
  <2>3. QED
    BY <1>1, <1>2, <2>2
<1>5. QED
  BY <1>3, <1>4

-----------------------------------------------------------------------------
(* Prices of the standard plans. *)

LEMMA PlanNames == /\ Plans = {"booking", "core", "custom"} /\ Standard = {"booking", "core"}
  BY DEF Plans, Standard

\* The plan that follows the room price is published with it, or switched off
\* without one; the others stay.
LEMMA Follows ==
    ASSUME NEW current \in [Plans -> PlanRow], NEW price \in 0 .. MaxPrice
    PROVE  /\ MarketSynced(current, price) \in [Plans -> PlanRow]
           /\ Follower(current) \in Standard
           /\ \A p \in Plans : MarketSynced(current, price)[p] =
                IF p = Follower(current) THEN Published(price) ELSE current[p]
           /\ Published(price).price = price
           /\ Published(price).state = IF price > 0 THEN "active" ELSE "inactive"
<1>1. Follower(current) \in Standard
  BY DEF Follower, Standard
<1>2. /\ Published(price) \in PlanRow /\ Published(price).price = price
      /\ Published(price).state = IF price > 0 THEN "active" ELSE "inactive"
  BY DEF Published, Plan, PlanRow
<1>3. QED
  BY <1>1, <1>2 DEF MarketSynced, Plans

LEMMA RoomPriceSet ==
    ASSUME PricingInv, NEW price \in 0 .. MaxPrice, SetRoomPrice(price)
    PROVE  plans' \in [Plans -> PlanRow]
<1>1. plans \in [Plans -> PlanRow] /\ plans' = MarketSynced(plans, price)
  BY DEF SetRoomPrice, PricingInv, PricingTypeOK, PlanRow
<1>2. QED
  BY <1>1, Follows

\* Core's plan comes with the hotel's price, and the follower is published.
LEMMA CoreSynced ==
    ASSUME PricingInv, NEW b \in Bundles, SyncFromCore(b)
    PROVE  /\ plans' \in [Plans -> PlanRow]
           /\ setup => \A p \in Standard : plans'[p].state = "active" => plans'[p].price = normal
<1> DEFINE current == [plans EXCEPT !["core"] = CorePlan(b)]
<1>1. /\ plans \in [Plans -> PlanRow] /\ normal \in 0 .. MaxPrice /\ b \in Bundle /\ setup \in BOOLEAN
      /\ plans' = IF setup THEN MarketSynced(current, normal) ELSE current
  BY PricingAssumption DEF SyncFromCore, PricingInv, PricingTypeOK, PlanRow
<1>2. plans["core"] \in PlanRow
  BY <1>1, PlanNames
<1>3. /\ CorePlan(b) \in PlanRow
      /\ setup /\ CorePlan(b).state = "active" => CorePlan(b).price = normal
  BY <1>1, <1>2, PricingAssumption DEF CorePlan, Plan, NoPlan, PlanRow, Bundle
<1>4. current \in [Plans -> PlanRow] /\ current["core"] = CorePlan(b)
  BY <1>1, <1>3, PlanNames
<1> HIDE DEF current
<1>5. CASE ~setup
  BY <1>1, <1>4, <1>5
<1>6. CASE setup
  <2>1. /\ plans' \in [Plans -> PlanRow] /\ Follower(current) \in Standard
        /\ \A p \in Plans : plans'[p] = IF p = Follower(current) THEN Published(normal) ELSE current[p]
        /\ Published(normal).price = normal
    BY <1>1, <1>4, <1>6, Follows
  <2>2. current["booking"].state = "active" => Follower(current) = "booking"
    BY DEF Follower
  <2>3. plans'["booking"].state = "active" => plans'["booking"].price = normal
    BY <2>1, <2>2, PlanNames
  <2>4. plans'["core"].state = "active" => plans'["core"].price = normal
    BY <1>3, <1>4, <1>6, <2>1, PlanNames
  <2>5. QED
    BY <2>1, <2>3, <2>4, PlanNames
<1>7. QED
  BY <1>1, <1>5, <1>6

-----------------------------------------------------------------------------
(* Prices of a night. *)

\* Of any periods, one starts first.
LEMMA EarliestOne ==
    ASSUME PricingInv, NEW ids \in SUBSET PeriodIds, ids # {}, \A i \in ids : periods[i] # NoPeriod
    PROVE  Earliest(ids) \in ids
<1> DEFINE T == {0 .. periods[i].first : i \in ids}
<1>1. \A i \in ids : periods[i].first \in Nights
  BY PeriodTypes DEF PricingInv, PricingTypeOK
<1>2. PICK A \in T : \A B \in T : B \subseteq A => B = A
  <2>1. T \in SUBSET SUBSET Nights /\ T # {}
    <3>1. \A m \in Nights : 0 .. m \subseteq Nights
      BY PricingAssumption DEF Nights
    <3>2. QED
      BY <1>1, <3>1
  <2>2. IsFiniteSet(Nights)
    BY FS_Interval, PricingAssumption DEF Nights
  <2> HIDE DEF T
  <2>3. QED
    BY <2>1, <2>2, SmallestSet
<1>3. PICK i \in ids : A = 0 .. periods[i].first
  OBVIOUS
<1>4. ASSUME NEW j \in ids, ~(periods[i].first <= periods[j].first) PROVE FALSE
  <2>1. periods[i].first \in Nat /\ periods[j].first \in Nat
    BY <1>1, PricingAssumption DEF Nights
  <2> DEFINE m == periods[i].first
             n == periods[j].first
  <2>2. 0 .. n \in T
    OBVIOUS
  <2>3. 0 .. n \subseteq 0 .. m => 0 .. n = 0 .. m
    BY <1>2, <1>3, <2>2
  <2>4. m \in Nat /\ n \in Nat /\ n < m
    BY <1>4, <2>1
  <2> HIDE DEF m, n
  <2>5. m \in 0 .. m /\ m \notin 0 .. n /\ 0 .. n \subseteq 0 .. m
    BY <2>4
  <2>6. QED
    BY <2>3, <2>5
<1>5. QED
  BY <1>4 DEF Earliest

\* The rule of a night, a DailyRate or a period of the night, is one of the
\* hotel's; with one period at most, the directory and the desk find the same.
LEMMA RuleOfNight ==
    ASSUME PricingInv, NEW p \in Plans, NEW n \in Nights
    PROVE  /\ RuleFor(p, n) \in Rules \cup {NoRule}
           /\ (\A i, j \in PeriodsOn(p, n) : i = j) =>
                RuleFor(p, n) = IF daily[p][n] # NoRule THEN daily[p][n]
                                ELSE RuleOf(PeriodsOn(p, n), Latest)
<1>1. daily[p][n] \in Rules \cup {NoRule}
  BY DEF PricingInv, PricingTypeOK
<1>2. CASE PeriodsOn(p, n) = {}
  BY <1>1, <1>2 DEF RuleFor, RuleOf
<1>3. \A i \in PeriodsOn(p, n) : i \in PeriodIds /\ periods[i] # NoPeriod /\ periods[i] \in AllPeriods
  BY DEF PeriodsOn, PricingInv, PricingTypeOK
<1>4. CASE PeriodsOn(p, n) # {}
  <2>1. Earliest(PeriodsOn(p, n)) \in PeriodsOn(p, n)
    <3>1. PeriodsOn(p, n) \in SUBSET PeriodIds
      BY <1>3
    <3>2. QED
      BY <1>3, <1>4, <3>1, EarliestOne
  <2>2. RuleOf(PeriodsOn(p, n), Earliest) \in Rules
    BY <1>3, <1>4, <2>1, PeriodTypes DEF RuleOf
  <2>3. ASSUME NEW i \in PeriodsOn(p, n), \A j \in PeriodsOn(p, n) : j = i
        PROVE  RuleOf(PeriodsOn(p, n), Earliest) = RuleOf(PeriodsOn(p, n), Latest)
    <3>1. PeriodsOn(p, n) = {i}
      BY <2>3
    <3>2. i \in Int /\ periods[i].first \in Int
      <4>1. i \in PeriodIds /\ periods[i].first \in Nights
        BY <1>3, PeriodTypes
      <4>2. PeriodIds \subseteq Nat
        BY PricingAssumption, Zenon
      <4>3. QED
        BY <4>1, <4>2, PricingAssumption DEF Nights
    <3>3. Earliest({i}) = i /\ Latest({i}) = i
      BY <3>2 DEF Earliest, Latest
    <3>4. QED
      BY <3>1, <3>3 DEF RuleOf
  <2>4. QED
    BY <1>1, <1>4, <2>2, <2>3 DEF RuleFor
<1>5. QED
  BY <1>2, <1>4

\* Below a campaign's price or at it.
LEMMA DiscountedPrice ==
    ASSUME PricingInv, NEW price \in 0 .. MaxPrice, NEW n \in Nights
    PROVE  Discounted(price, n) \in 0 .. MaxPrice
<1>1. CASE Running(n) = {}
  BY <1>1 DEF Discounted
<1>2. CASE Running(n) # {}
  <2>1. \A c \in Running(n) : c \in Campaigns /\ campaigns[c] \in Campaign
    BY DEF Running, PricingInv, PricingTypeOK
  <2>2. \A c \in Running(n) : campaigns[c].first \in Int /\ campaigns[c].price \in 1 .. MaxPrice
    BY <2>1, PricingAssumption DEF Campaign, Nights, Price
  <2> DEFINE c == Prevailing(Running(n))
  <2>3. c \in Running(n)
    BY <1>2, <2>1, <2>2, PrevailingOne
  <2>4. campaigns[c].price \in 1 .. MaxPrice
    BY <2>2, <2>3
  <2> DEFINE q == campaigns[c].price
  <2>5. Discounted(price, n) = Min({price, q})
    BY <1>2 DEF Discounted
  <2> HIDE DEF q
  <2>6. price \in Int /\ q \in Int /\ q > 0 /\ q <= MaxPrice /\ price >= 0 /\ price <= MaxPrice
    BY <2>4, PricingAssumption DEF q
  <2>7. Min({price, q}) = IF price <= q THEN price ELSE q
    BY <2>6 DEF Min
  <2>8. QED
    BY <2>5, <2>6, <2>7, PricingAssumption
<1>3. QED
  BY <1>1, <1>2

LEMMA NightPriced ==
    ASSUME PricingInv, NEW p \in Plans, NEW n \in Nights
    PROVE  /\ NightPrice(p, n) \in 0 .. MaxPrice
           /\ (\A i, j \in PeriodsOn(p, n) : i = j) => DirectoryPrice(p, n) = NightPrice(p, n)
<1> DEFINE price == BasePrice(p, RuleFor(p, n))
<1>1. plans[p].price \in 0 .. MaxPrice
  BY DEF PricingInv, PricingTypeOK
<1>2. RuleFor(p, n) \in Rules \cup {NoRule}
  BY RuleOfNight
<1>3. price \in 0 .. MaxPrice
  <2>1. CASE RuleFor(p, n) = NoRule
    BY <1>1, <2>1 DEF BasePrice
  <2>2. CASE RuleFor(p, n) # NoRule
    BY <1>2, <2>2, NoRuleIsNoRule DEF BasePrice
  <2>3. QED
    BY <2>1, <2>2
<1>4. (\A i, j \in PeriodsOn(p, n) : i = j) => DirectoryPrice(p, n) = NightPrice(p, n)
  BY RuleOfNight DEF DirectoryPrice, NightPrice
<1> HIDE DEF price
<1>5. Discounted(price, n) \in 0 .. MaxPrice
  BY <1>3, DiscountedPrice
<1>6. QED
  BY <1>4, <1>5 DEF NightPrice, price

LEMMA BookedRoomType ==
    ASSUME PricingInv, NEW p \in Plans, NEW asked \in SUBSET (Extras \cup {"breakfast"}),
           NEW check_in \in Nights, NEW check_out \in 1 .. LastNight + 1, Granted(asked)
    PROVE  BookedRoom(p, asked, check_in, check_out) \in BookingRoom
<1>1. bundle \in Bundle
  BY PricingAssumption DEF PricingInv, PricingTypeOK
<1>2. [x \in asked |-> Extra(x)] \in [asked -> 0 .. MaxPrice]
  BY <1>1, ExtraTypes
<1> DEFINE unit == [n \in Nights |-> IF n \in Stay(check_in, check_out) THEN NightPrice(p, n) ELSE 0]
           extra == [x \in asked |-> Extra(x)]
<1>3. unit \in [Nights -> 0 .. MaxPrice]
  <2>1. 0 \in 0 .. MaxPrice
    BY PricingAssumption
  <2>2. \A n \in Nights : NightPrice(p, n) \in 0 .. MaxPrice
    BY NightPriced
  <2>3. QED
    BY <2>1, <2>2
<1>4. BookedRoom(p, asked, check_in, check_out) = [plan |-> p, extra |-> extra, unit |-> unit]
  BY DEF BookedRoom
<1> HIDE DEF unit, extra
<1>5. extra \in UNION {[a -> 0 .. MaxPrice] : a \in SUBSET (Extras \cup {"breakfast"})}
  BY <1>2 DEF extra
<1>6. QED
  BY <1>3, <1>4, <1>5 DEF BookingRoom

\* The length of a list of rooms.
LEMMA LenDomain == \A s, n : n \in Nat /\ DOMAIN s = 1 .. n => Len(s) = n
OBVIOUS

-----------------------------------------------------------------------------
(* Every step. *)

\* The booking of a guest, and what its form makes of it.
LEMMA BookingsTyped ==
    ASSUME PricingInv, NEW check_in \in Nights, NEW check_out \in 1 .. LastNight + 1, check_in < check_out,
           NEW request \in Request, CreateBooking(check_in, check_out, request)
                                      \/ SaveForm(check_in, check_out, request)
    PROVE  booking' \in Booking /\ UNCHANGED <<catalogue, editing, strays, edits>>
<1>1. PICK n \in 1 .. MaxRooms : request \in [1 .. n -> Plans \X SUBSET (Extras \cup {"breakfast"})]
  BY DEF Request
<1> DEFINE fresh(i) == BookedRoom(request[i][1], request[i][2], check_in, check_out)
<1>2. \A i \in 1 .. n : /\ request[i][1] \in Plans
                        /\ request[i][2] \in SUBSET (Extras \cup {"breakfast"})
                        /\ Granted(request[i][2])
  BY <1>1 DEF CreateBooking, SaveForm, Accepts
<1>3. \A i \in 1 .. n : fresh(i) \in BookingRoom
  BY <1>2, BookedRoomType
<1> HIDE DEF fresh
<1>4. ASSUME NEW rooms \in [1 .. n -> BookingRoom],
             booking' = [check_in |-> check_in, check_out |-> check_out, rooms |-> rooms]
      PROVE  booking' \in Booking
  <2>1. rooms \in UNION {[1 .. k -> BookingRoom] : k \in 1 .. MaxRooms}
    BY <1>4
  <2>2. QED
    BY <1>4, <2>1 DEF Booking
<1>5. CASE CreateBooking(check_in, check_out, request)
  <2> DEFINE rooms == [i \in DOMAIN request |-> fresh(i)]
  <2>1. booking' = [check_in |-> check_in, check_out |-> check_out, rooms |-> rooms]
    BY <1>5 DEF CreateBooking, fresh
  <2>2. rooms \in [1 .. n -> BookingRoom]
    BY <1>1, <1>3
  <2> HIDE DEF rooms
  <2>3. QED
    BY <1>4, <1>5, <2>1, <2>2 DEF CreateBooking
<1>6. CASE SaveForm(check_in, check_out, request)
  <2> DEFINE kept(i) == [fresh(i) EXCEPT !.unit = Unit(i, fresh(i), check_in, check_out)]
             rooms == [i \in DOMAIN request |-> kept(i)]
  <2>1. booking' = [check_in |-> check_in, check_out |-> check_out, rooms |-> rooms]
    BY <1>6 DEF SaveForm, fresh
  <2>2. \A i \in DOMAIN booking.rooms : booking.rooms[i] \in BookingRoom
    BY <1>6 DEF SaveForm, PricingInv, PricingTypeOK, Booking
  <2>3. ASSUME NEW i \in 1 .. n PROVE kept(i) \in BookingRoom
    <3>1. fresh(i).unit \in [Nights -> 0 .. MaxPrice]
      BY <1>3 DEF BookingRoom
    <3>2. i \in DOMAIN booking.rooms => booking.rooms[i].unit \in [Nights -> 0 .. MaxPrice]
      BY <2>2 DEF BookingRoom
    <3>3. Unit(i, fresh(i), check_in, check_out) \in [Nights -> 0 .. MaxPrice]
      BY <3>1, <3>2 DEF Unit
    <3> HIDE DEF fresh
    <3>4. QED
      BY <1>3, <3>3 DEF BookingRoom
  <2>4. rooms \in [1 .. n -> BookingRoom]
    BY <1>1, <2>3
  <2> HIDE DEF rooms, kept
  <2>5. QED
    BY <1>4, <1>6, <2>1, <2>4 DEF SaveForm
<1>7. QED
  BY <1>5, <1>6

\* What a request that is no season's and no guest's leaves as it is.
LEMMA HotelEdits ==
    ASSUME PricingInv, Edit, UNCHANGED <<periods, editing, strays, booking>>,
           setup' \in BOOLEAN, normal' \in 0 .. MaxPrice, plans' \in [Plans -> PlanRow],
           daily' \in [Plans -> [Nights -> Rules \cup {NoRule}]],
           campaigns' \in [Campaigns -> Campaign \cup {NoCampaign}], bundle' \in Bundles
    PROVE  PricingInv'
<1>1. edits' \in 0 .. MaxEdits
  BY PricingAssumption DEF Edit, PricingInv, PricingTypeOK
<1>2. PricingTypeOK'
  BY <1>1 DEF PricingInv, PricingTypeOK, PlanRow
<1>3. QED
  BY <1>2, SeasonsKept DEF PricingInv

LEMMA PricingStep == PricingInv /\ [PricingNext]_pricingVars => PricingInv'
<1> SUFFICES ASSUME PricingInv, [PricingNext]_pricingVars PROVE PricingInv'
  OBVIOUS
<1>1. PricingTypeOK /\ plans \in [Plans -> PlanRow] /\ editing \in [Editors -> AnyEdit]
  BY DEF PricingInv, PricingTypeOK, PlanRow, AnyEdit, WaitingEdit, CheckedEdit
<1>2. CASE UNCHANGED pricingVars
  <2>1. PricingTypeOK'
    BY <1>1, <1>2 DEF pricingVars, PricingTypeOK
  <2>2. QED
    BY <1>2, <2>1, SeasonsKept DEF pricingVars, PricingInv
<1>3. ASSUME NEW price \in 0 .. MaxPrice, SetRoomPrice(price) PROVE PricingInv'
  BY <1>1, <1>3, RoomPriceSet, HotelEdits DEF SetRoomPrice, PricingTypeOK
<1>4. ASSUME NEW b \in Bundles, SyncFromCore(b) PROVE PricingInv'
  <2>1. plans' \in [Plans -> PlanRow]
    BY <1>4, CoreSynced
  <2>2. QED
    BY <1>1, <1>4, <2>1, HotelEdits DEF SyncFromCore, PricingTypeOK
<1>5. ASSUME NEW p \in {"custom", "booking"}, NEW state \in {"active", "inactive"},
             NEW price \in 0 .. MaxPrice, SaveRatePlan(p, state, price)
      PROVE  PricingInv'
  <2>1. Plan(state, price) \in PlanRow
    BY DEF Plan, PlanRow
  <2>2. plans' \in [Plans -> PlanRow]
    BY <1>1, <1>5, <2>1 DEF SaveRatePlan
  <2>3. QED
    BY <1>1, <1>5, <2>2, HotelEdits DEF SaveRatePlan, PricingTypeOK
<1>6. ASSUME NEW p \in Plans, NEW first \in Nights, NEW last \in Nights, NEW rule \in Rules \cup {NoRule},
             UpsertDailyRates(p, first, last, rule)
      PROVE  PricingInv'
  <2>1. daily' \in [Plans -> [Nights -> Rules \cup {NoRule}]]
    BY <1>1, <1>6 DEF UpsertDailyRates, PricingTypeOK
  <2>2. QED
    BY <1>1, <1>6, <2>1, HotelEdits DEF UpsertDailyRates, PricingTypeOK
<1>7. ASSUME NEW c \in Campaigns, NEW price \in Price, NEW first \in Nights, NEW last \in Nights,
             first <= last, SaveCampaign(c, price, first, last)
      PROVE  PricingInv'
  <2>1. [price |-> price, first |-> first, last |-> last, ended |-> FALSE] \in Campaign
    BY <1>7 DEF Campaign
  <2>2. campaigns' \in [Campaigns -> Campaign \cup {NoCampaign}]
    BY <1>1, <1>7, <2>1 DEF SaveCampaign, PricingTypeOK
  <2>3. QED
    BY <1>1, <1>7, <2>2, HotelEdits DEF SaveCampaign, PricingTypeOK
<1>8. ASSUME NEW c \in Campaigns, EndCampaign(c) PROVE PricingInv'
  <2>1. campaigns[c] \in Campaign
    BY <1>1, <1>8 DEF EndCampaign, PricingTypeOK
  <2>2. [campaigns[c] EXCEPT !.ended = TRUE] \in Campaign
    BY <2>1 DEF Campaign
  <2>3. campaigns' = [campaigns EXCEPT ![c] = [campaigns[c] EXCEPT !.ended = TRUE]]
    BY <1>8 DEF EndCampaign
  <2>4. campaigns' \in [Campaigns -> Campaign \cup {NoCampaign}]
    BY <1>1, <2>2, <2>3 DEF PricingTypeOK
  <2>5. QED
    BY <1>1, <1>8, <2>4, HotelEdits DEF EndCampaign, PricingTypeOK
<1>9. ASSUME UNCHANGED <<setup, normal, plans, daily, campaigns, bundle, booking>>,
             edits' \in 0 .. MaxEdits, EditorsApart' /\ EditsChecked' /\ OneEach',
             periods' \in [PeriodIds -> AllPeriods \cup {NoPeriod}], strays' \subseteq PeriodIds,
             editing' \in [Editors -> AnyEdit]
      PROVE  PricingInv'
  <2>1. PricingTypeOK'
    BY <1>1, <1>9 DEF PricingTypeOK, AnyEdit, WaitingEdit, CheckedEdit
  <2>2. QED
    BY <1>9, <2>1 DEF PricingInv
<1>10. Edit => edits' \in 0 .. MaxEdits
  BY <1>1, PricingAssumption DEF Edit, PricingTypeOK
<1>11. ASSUME NEW e \in Editors, NEW i \in PeriodIds, NEW q \in AllPeriods, BeginPeriod(e, i, q)
       PROVE  PricingInv'
  <2>1. q.plan \in Plans
    BY PeriodTypes
  <2>2. /\ Unlocked(q.plan) /\ NoOverlap(i, q) /\ editing' = [editing EXCEPT ![e] = Checked(i, q.plan, q)]
        /\ UNCHANGED <<periods, strays>>
    BY <1>11 DEF BeginPeriod, catalogue
  <2>3. EditorsApart' /\ EditsChecked' /\ OneEach' /\ editing' \in [Editors -> AnyEdit]
    BY <2>1, <2>2, SeasonsBegun
  <2>4. QED
    BY <1>1, <1>9, <1>10, <1>11, <2>3 DEF BeginPeriod, PricingTypeOK, catalogue
<1>12. ASSUME NEW e \in Editors, NEW i \in PeriodIds, ReadPeriod(e, i) PROVE PricingInv'
  <2>1. periods[i].plan \in Plans
    BY <1>1, <1>12, PeriodTypes DEF ReadPeriod, PricingTypeOK
  <2> DEFINE x == Waiting(i, periods[i].plan)
  <2>2. x \in AnyEdit /\ x.step # "checked"
    <3>1. x.step = "waiting"
      BY <2>1, EditTypes
    <3>2. QED
      BY <2>1, <3>1, EditTypes
  <2>3. editing' = [editing EXCEPT ![e] = x] /\ UNCHANGED <<periods, strays>>
    BY <1>12 DEF ReadPeriod, catalogue
  <2> HIDE DEF x
  <2>4. EditorsApart' /\ EditsChecked' /\ OneEach' /\ editing' \in [Editors -> AnyEdit]
    BY <2>2, <2>3, SeasonsAwaited
  <2>5. QED
    BY <1>1, <1>9, <1>10, <1>12, <2>4 DEF ReadPeriod, PricingTypeOK, catalogue
<1>13. ASSUME NEW e \in Editors, NEW q \in AllPeriods, RecheckPeriod(e, q) PROVE PricingInv'
  <2>1. editing[e] \in WaitingEdit
    BY <1>1, <1>13, EditTypes DEF RecheckPeriod
  <2> DEFINE i == editing[e].id
             p == editing[e].plan
  <2>2. i \in PeriodIds /\ p \in Plans
    BY <2>1 DEF WaitingEdit
  <2>3. /\ Unlocked(p) /\ NoOverlap(i, q) /\ editing' = [editing EXCEPT ![e] = Checked(i, p, q)]
        /\ UNCHANGED <<periods, strays>>
    BY <1>1, <1>13 DEF RecheckPeriod, catalogue
  <2> HIDE DEF i, p
  <2>4. EditorsApart' /\ EditsChecked' /\ OneEach' /\ editing' \in [Editors -> AnyEdit]
    BY <2>2, <2>3, SeasonsBegun
  <2>5. QED
    BY <1>1, <1>9, <1>13, <2>4 DEF RecheckPeriod, PricingTypeOK, catalogue
<1>14. ASSUME NEW e \in Editors, RefusePeriod(e) PROVE PricingInv'
  <2>1. Idle \in AnyEdit /\ Idle.step # "checked"
    BY EditTypes
  <2>2. editing' = [editing EXCEPT ![e] = Idle] /\ UNCHANGED <<periods, strays>>
    BY <1>14 DEF RefusePeriod, catalogue
  <2>3. EditorsApart' /\ EditsChecked' /\ OneEach' /\ editing' \in [Editors -> AnyEdit]
    BY <2>1, <2>2, SeasonsAwaited
  <2>4. QED
    BY <1>1, <1>9, <1>14, <2>3 DEF RefusePeriod, PricingTypeOK, catalogue
<1>15. ASSUME NEW e \in Editors, SavePeriod(e) PROVE PricingInv'
  <2>1. editing[e] \in CheckedEdit
    BY <1>1, <1>15, EditTypes DEF SavePeriod
  <2>2. editing[e].id \in PeriodIds /\ editing[e].period \in AllPeriods
    BY <2>1 DEF CheckedEdit
  <2>3. periods' \in [PeriodIds -> AllPeriods \cup {NoPeriod}] /\ strays' \subseteq PeriodIds
    BY <1>1, <1>15, <2>2 DEF SavePeriod, PricingTypeOK
  <2>4. EditorsApart' /\ EditsChecked' /\ OneEach' /\ editing' \in [Editors -> AnyEdit]
    BY <1>15, SeasonsSaved
  <2>5. QED
    BY <1>1, <1>9, <1>15, <2>3, <2>4 DEF SavePeriod, PricingTypeOK
<1>16. ASSUME NEW i \in PeriodIds, DeletePeriod(i) PROVE PricingInv'
  <2>1. periods' \in [PeriodIds -> AllPeriods \cup {NoPeriod}]
    BY <1>1, <1>16 DEF DeletePeriod, PricingTypeOK
  <2>2. EditorsApart' /\ EditsChecked' /\ OneEach'
    BY <1>16, SeasonsDeleted
  <2>3. QED
    BY <1>1, <1>9, <1>10, <1>16, <2>1, <2>2 DEF DeletePeriod, PricingTypeOK
<1>17. CASE Guests
  <2>1. booking' \in Booking /\ UNCHANGED <<catalogue, editing, strays, edits>>
    BY <1>17, BookingsTyped DEF Guests
  <2>2. PricingTypeOK'
    BY <1>1, <2>1 DEF catalogue, PricingTypeOK
  <2>3. QED
    BY <2>1, <2>2, SeasonsKept DEF catalogue, PricingInv
<1>18. CASE Hotel
  BY <1>3, <1>4, <1>5, <1>6, <1>7, <1>8, <1>18 DEF Hotel
<1>19. CASE RatePeriods
  BY <1>11, <1>12, <1>13, <1>14, <1>15, <1>16, <1>19 DEF RatePeriods
<1>20. QED
  BY <1>2, <1>17, <1>18, <1>19 DEF PricingNext

\* Every variable keeps its type; the lock of a plan is held by one edit, which
\* has seen every period of the plan that was saved under its lock; and those
\* are apart: RatePeriodViewSet and RatePeriodSerializer.
THEOREM PricingInvariant == PricingSpec => []PricingInv
<1>1. QED
  BY PricingInitInv, PricingStep, PTL DEF PricingSpec

\* "Active periods for one rate plan cannot overlap", with any number of staff
\* editing them, but for those that were moved to the plan while their edit
\* waited for the lock of another: RatePeriodSerializer checks all others
\* under the lock of the plan they are saved to.
THEOREM SeasonsDisjoint == PricingSpec => []OnePeriodANight
<1>1. PricingInv => OnePeriodANight
  <2> SUFFICES ASSUME PricingInv, NEW p \in Plans, NEW n \in Nights
               PROVE  Cardinality(PeriodsOn(p, n) \ strays) <= 1
    BY DEF OnePeriodANight, PricingInv
  <2> DEFINE checked == PeriodsOn(p, n) \ strays
  <2>1. CASE checked = {}
    BY <2>1, FS_EmptySet
  <2>2. ASSUME NEW i \in checked PROVE Cardinality(checked) <= 1
    <3>1. checked = {i}
      BY DEF PricingInv, OneEach
    <3>2. Cardinality({i}) = 1
      BY FS_Singleton, Zenon
    <3>3. QED
      BY <3>1, <3>2
  <2>3. QED
    BY <2>1, <2>2
<1>2. QED
  BY <1>1, PricingInvariant, PTL

\* sync_business_from_core leaves each standard plan on sale at the price the
\* hotel has set, however Core's own plan comes and goes.
THEOREM PricesRestored == PricingSpec => SyncRestoresPrices
<1>1. PricingInv /\ [PricingNext]_pricingVars =>
        [bundle' # bundle /\ setup =>
           \A p \in Standard : plans'[p].state = "active" => plans'[p].price = normal]_pricingVars
  <2> SUFFICES ASSUME PricingInv, PricingNext, bundle' # bundle, setup
               PROVE  \A p \in Standard : plans'[p].state = "active" => plans'[p].price = normal
    OBVIOUS
  <2>1. \E b \in Bundles : SyncFromCore(b)
    BY DEF PricingNext, Hotel, RatePeriods, Guests, SetRoomPrice, SaveRatePlan, UpsertDailyRates, SaveCampaign,
           EndCampaign, BeginPeriod, ReadPeriod, RecheckPeriod, RefusePeriod, SavePeriod, DeletePeriod,
           CreateBooking, SaveForm, catalogue
  <2>2. QED
    BY <2>1, CoreSynced
<1>2. QED
  BY <1>1, PricingInvariant, PTL DEF PricingSpec, SyncRestoresPrices

\* update_reservation_for_check_in: nights a booking keeps are not priced anew.
THEOREM NightsKept == PricingSpec => NightsKeepTheirPrice
<1> DEFINE shared == Stay(booking.check_in, booking.check_out) \cap Stay(booking'.check_in, booking'.check_out)
           Claim == booking # NoBooking /\ booking'.rooms # <<>>
                      /\ Len(booking.rooms) = Len(booking'.rooms)
                      /\ (\A i \in DOMAIN booking.rooms : booking.rooms[i].plan = booking'.rooms[i].plan)
                    => \A i \in DOMAIN booking.rooms : \A n \in shared :
                         booking'.rooms[i].unit[n] = booking.rooms[i].unit[n]
<1>1. ASSUME PricingInv, NEW check_in \in Nights, NEW check_out \in 1 .. LastNight + 1,
             NEW request \in Request, SaveForm(check_in, check_out, request)
      PROVE  Claim
  <2> DEFINE fresh(i) == BookedRoom(request[i][1], request[i][2], check_in, check_out)
             kept(i) == [fresh(i) EXCEPT !.unit = Unit(i, fresh(i), check_in, check_out)]
             rooms == [i \in DOMAIN request |-> kept(i)]
  <2>1. /\ booking # NoBooking
        /\ booking' = [check_in |-> check_in, check_out |-> check_out, rooms |-> rooms]
    BY <1>1 DEF SaveForm
  <2>2. PICK k \in 1 .. MaxRooms : booking.rooms \in [1 .. k -> BookingRoom]
    BY <2>1, <1>1 DEF PricingInv, PricingTypeOK, Booking
  <2>3. PICK n \in 1 .. MaxRooms : DOMAIN request = 1 .. n
    BY DEF Request
  <2>4. Len(booking.rooms) = k /\ Len(rooms) = n
    <3>1. k \in Nat /\ n \in Nat
      BY PricingAssumption
    <3>2. DOMAIN rooms = 1 .. n /\ DOMAIN booking.rooms = 1 .. k
      BY <2>2, <2>3
    <3>3. QED
      BY <3>1, <3>2, <2>2, <2>3, LenDomain
  <2>5. ASSUME Len(booking.rooms) = Len(booking'.rooms), NEW i \in DOMAIN booking.rooms,
               booking.rooms[i].plan = booking'.rooms[i].plan, NEW m \in shared
        PROVE  booking'.rooms[i].unit[m] = booking.rooms[i].unit[m]
    <3>1. i \in DOMAIN request /\ booking'.rooms[i] = kept(i)
      BY <2>1, <2>2, <2>3, <2>4, <2>5
    <3>2. fresh(i).unit = [x \in Nights |-> IF x \in Stay(check_in, check_out)
                                            THEN NightPrice(request[i][1], x) ELSE 0]
      BY DEF BookedRoom
    <3>3. kept(i).plan = fresh(i).plan /\ kept(i).unit = Unit(i, fresh(i), check_in, check_out)
      BY DEF BookedRoom
    <3> HIDE DEF fresh, kept
    <3>4. m \in Nights
      BY <2>1, <2>5, PricingAssumption DEF Stay, Nights
    <3>5. m \in Stay(check_in, check_out) \cap Stay(booking.check_in, booking.check_out)
      BY <2>1
    <3>6. kept(i).unit[m] = booking.rooms[i].unit[m]
      BY <2>5, <3>1, <3>3, <3>4, <3>5 DEF Unit
    <3>7. QED
      BY <3>1, <3>6
  <2>6. QED
    BY <2>5
<1>2. PricingInv /\ [PricingNext]_pricingVars => [Claim]_pricingVars
  <2> SUFFICES ASSUME PricingInv, PricingNext PROVE Claim
    OBVIOUS
  <2>1. CASE UNCHANGED booking
    BY <2>1
  <2>2. CASE Guests
    <3>1. PICK check_in \in Nights, check_out \in 1 .. LastNight + 1, request \in Request :
            CreateBooking(check_in, check_out, request) \/ SaveForm(check_in, check_out, request)
      BY <2>2 DEF Guests
    <3>2. CASE CreateBooking(check_in, check_out, request)
      BY <3>2 DEF CreateBooking
    <3>3. CASE SaveForm(check_in, check_out, request)
      BY <1>1, <3>3
    <3>4. QED
      BY <3>1, <3>2, <3>3
  <2>3. Hotel \/ RatePeriods => UNCHANGED booking
    BY DEF Hotel, RatePeriods, SetRoomPrice, SyncFromCore, SaveRatePlan, UpsertDailyRates,
           SaveCampaign, EndCampaign, BeginPeriod, ReadPeriod, RecheckPeriod, RefusePeriod, SavePeriod,
           DeletePeriod
  <2> HIDE DEF Claim
  <2>4. QED
    BY <2>1, <2>2, <2>3 DEF PricingNext
<1>3. QED
  BY <1>2, PricingInvariant, PTL DEF PricingSpec, NightsKeepTheirPrice

-----------------------------------------------------------------------------
(* Offers. *)

\* No extra costs nothing.
LEMMA NoExtras == ExtraTotal({}) = 0
<1> DEFINE P(u) == u = [s \in SUBSET {} |-> IF s = {} THEN 0
                                            ELSE Extra(Taken(s)) + u[s \ {Taken(s)}]]
           zero == [s \in SUBSET {} |-> 0]
<1>1. ExtraTotal({}) = (CHOOSE u : P(u))[{}]
  BY DEF ExtraTotal, MapThenSumSet, MapThenFoldSet, Taken
<1>2. P(zero)
  OBVIOUS
<1>3. \A u : P(u) => u[{}] = 0
  OBVIOUS
<1> HIDE DEF P, zero
<1>4. P(CHOOSE u : P(u))
  BY <1>2
<1>5. QED
  BY <1>1, <1>3, <1>4

\* The total shown is the sum of the nights that are booked.
LEMMA TotalOfNights ==
    ASSUME PricingInv, NEW p \in Plans, NEW check_in \in Nights, NEW check_out \in 1 .. LastNight + 1
    PROVE  OfferedTotal(p, check_in, check_out) = SumFunction(BookedRoom(p, {}, check_in, check_out).unit)
<1> DEFINE stay == Stay(check_in, check_out)
           unit == [n \in Nights |-> IF n \in stay THEN NightPrice(p, n) ELSE 0]
<1>0. stay \in SUBSET Nights
  BY PricingAssumption DEF Stay, Nights
<1>1. unit = BookedRoom(p, {}, check_in, check_out).unit
  BY DEF BookedRoom
<1>2. \A n \in Nights : unit[n] \in Int /\ (n \notin stay => unit[n] = 0)
  <2>1. \A n \in Nights : NightPrice(p, n) \in 0 .. MaxPrice
    BY NightPriced
  <2>2. QED
    BY <2>1, PricingAssumption
<1>3. \A n \in stay : unit[n] = NightPrice(p, n)
  BY <1>0
<1>4. DOMAIN unit = Nights
  OBVIOUS
<1> HIDE DEF unit, stay
<1>5. IsFiniteSet(Nights)
  BY FS_Interval, PricingAssumption DEF Nights
<1>6. SumFunction(unit) = SumFunctionOnSet(unit, stay)
  <2>1. SumFunctionOnSet(unit, Nights) = SumFunctionOnSet(unit, stay)
    BY <1>0, <1>2, <1>5, SumOfRest
  <2>2. QED
    BY <1>4, <2>1 DEF SumFunction
<1> DEFINE P(u) == u = [s \in SUBSET stay |-> IF s = {} THEN 0
                                              ELSE NightPrice(p, Taken(s)) + u[s \ {Taken(s)}]]
           Q(u) == u = Equation(unit, stay, u)
<1>7. \A u : P(u) <=> Q(u)
  <2>1. \A s \in SUBSET stay : s # {} => Taken(s) \in stay
    BY FirstIn
  <2>2. QED
    BY <1>3, <2>1 DEF Equation
<1>8. OfferedTotal(p, check_in, check_out) = (CHOOSE u : P(u))[stay]
  BY DEF OfferedTotal, MapThenSumSet, MapThenFoldSet, Taken, stay
<1>9. SumFunctionOnSet(unit, stay) = (CHOOSE u : Q(u))[stay]
  BY SumIsSolution
<1> HIDE DEF P, Q
<1>10. (CHOOSE u : P(u)) = (CHOOSE u : Q(u))
  BY <1>7
<1>11. QED
  BY <1>1, <1>6, <1>8, <1>9, <1>10

\* A set of which every two elements are the same has at most one.
LEMMA OneOrNone == \A S : Cardinality(S) <= 1 /\ IsFiniteSet(S) => \A x, y \in S : x = y
<1> SUFFICES ASSUME NEW S, Cardinality(S) <= 1, IsFiniteSet(S), NEW x \in S, NEW y \in S, x # y PROVE FALSE
  OBVIOUS
<1>1. Cardinality({x} \cup {y}) = 2
  <2>1. IsFiniteSet({x}) /\ Cardinality({x}) = 1 /\ y \notin {x}
    BY FS_Singleton, Zenon
  <2>2. Cardinality({x} \cup {y}) = Cardinality({x}) + 1
    BY <2>1, FS_AddElement
  <2>3. QED
    BY <2>1, <2>2
<1>2. Cardinality({x} \cup {y}) <= Cardinality(S)
  BY FS_Subset
<1>3. Cardinality(S) \in Nat
  BY FS_CardinalityType
<1>4. QED
  BY <1>1, <1>2, <1>3

\* "A price shown is the price paid": availability_for_hotels, the directory,
\* estimate_booking and create_booking agree on every night of every offer on
\* which no two periods overlap; the directory leaves out what costs nothing.
THEOREM OffersKept == PricingSpec => []OffersHonoured
<1>1. PricingInv => OffersHonoured
  <2> SUFFICES ASSUME PricingInv, NEW check_in \in Nights, NEW check_out \in 1 .. LastNight + 1,
                      check_in < check_out, NEW p \in Offered(check_in, check_out),
                      \A n \in Stay(check_in, check_out) : Cardinality(PeriodsOn(p, n)) <= 1
               PROVE  /\ Accepts(p, {}, check_in, check_out)
                      /\ OfferedTotal(p, check_in, check_out) =
                           SumFunction(BookedRoom(p, {}, check_in, check_out).unit)
                      /\ \A n \in Stay(check_in, check_out) :
                           /\ Listed(p, n) = {BookedRoom(p, {}, check_in, check_out).unit[n]} \ {0}
                           /\ Estimates(p, {})
                           /\ EstimatedNight(p, {}, n) = BookedRoom(p, {}, check_in, check_out).unit[n]
    BY DEF OffersHonoured
  <2>1. p \in Plans /\ OnSale(p) /\ ~BreakfastFails
    BY DEF Offered
  <2>2. Granted({}) /\ Estimates(p, {})
    BY <2>1 DEF Granted, Estimates
  <2>3. RestrictionsMet(p, check_in, check_out)
    <3>1. /\ RuleFor(p, check_in) = NoRule \/ ~RuleFor(p, check_in).closed_to_arrival
          /\ RuleFor(p, check_out - 1) = NoRule \/ ~RuleFor(p, check_out - 1).closed_to_departure
          /\ \A night \in Stay(check_in, check_out) :
               RuleFor(p, night) = NoRule \/ RuleFor(p, night).min_stay <= check_out - check_in
      BY DEF Offered
    <3>2. QED
      BY <3>1 DEF RestrictionsMet
  <2>4. OfferedTotal(p, check_in, check_out) = SumFunction(BookedRoom(p, {}, check_in, check_out).unit)
    BY <2>1, TotalOfNights
  <2>5. ASSUME NEW n \in Stay(check_in, check_out)
        PROVE  /\ Listed(p, n) = {BookedRoom(p, {}, check_in, check_out).unit[n]} \ {0}
               /\ EstimatedNight(p, {}, n) = BookedRoom(p, {}, check_in, check_out).unit[n]
    <3>1. n \in Nights
      BY PricingAssumption DEF Stay, Nights
    <3>2. \A i, j \in PeriodsOn(p, n) : i = j
      <4>1. IsFiniteSet(PeriodsOn(p, n))
        <5>1. PeriodsOn(p, n) \subseteq PeriodIds
          BY DEF PeriodsOn
        <5>2. IsFiniteSet(PeriodIds)
          BY PricingAssumption, Zenon
        <5>3. QED
          BY <5>1, <5>2, FS_Subset
      <4>2. QED
        BY <4>1, OneOrNone
    <3>3. NightPrice(p, n) \in 0 .. MaxPrice /\ DirectoryPrice(p, n) = NightPrice(p, n)
      BY <2>1, <3>1, <3>2, NightPriced
    <3>4. BookedRoom(p, {}, check_in, check_out).unit[n] = NightPrice(p, n)
      BY <3>1 DEF BookedRoom
    <3>5. EstimatedNight(p, {}, n) = NightPrice(p, n)
      BY <3>3, NoExtras, PricingAssumption DEF EstimatedNight
    <3>6. QED
      BY <3>3, <3>4, <3>5 DEF Listed
  <2>6. QED
    BY <2>1, <2>2, <2>3, <2>4, <2>5 DEF Accepts
<1>2. QED
  BY <1>1, PricingInvariant, PTL
=============================================================================
