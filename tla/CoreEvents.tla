----------------------------- MODULE CoreEvents -----------------------------
(***************************************************************************)
(* The inbox of Visit77 Core's events and the synchronisation of one       *)
(* business (CoreEventView, CoreSyncView, sync_business_from_core,         *)
(* deprovision_hotel, the two sync commands).                              *)
(*                                                                         *)
(* Core owns the subscription, the room types and the physical rooms; each *)
(* change writes an event, which Core delivers until it got through, in    *)
(* any order and possibly several times at once.  A delivery claims the *)
(* event by its unique id, fetches the provisioning bundle over HTTP and   *)
(* applies it, all in one transaction: a failure on the way rolls the      *)
(* claim back.  The hotel keeps, on the rows Core owns, choices of its own *)
(* (the rooms it offers online, the guests assigned to them).              *)
(*                                                                         *)
(* Abstracted: descriptive fields, meal plans and rate plans (RatePlans),  *)
(* the packages and the daily inventory (BookingInventory).  The branch    *)
(* that merges several rows of one Core room cannot be reached: the        *)
(* database admits one row per Core room.                                  *)
(***************************************************************************)
EXTENDS Naturals, FiniteSets, Sequences, SequencesExt

CONSTANTS
    Workers,          \* processes that serve deliveries and run the commands
    CoreRooms,        \* ids Core gives to physical rooms, never reused
    Numbers,          \* numbers on the doors
    Types,            \* room types
    TypeOf,           \* the room type of each Core room
    FirstRooms,       \* Core's rooms and their numbers at the start
    MaxChanges,       \* bound: changes Core makes, and so events it writes
    MaxRenumberings,  \* bound: changes that give an existing room a number
    MaxFailures,      \* bound: unanswered requests and crashes
    MaxSyncs,         \* bound: synchronisations asked for by hand
    MaxChoices        \* bound: choices the hotel makes on its rooms

ASSUME TypeOfAssumption == TypeOf \in [CoreRooms -> Types]
ASSUME FirstRoomsAssumption ==
    /\ IsFiniteSet(CoreRooms)
    /\ DOMAIN FirstRooms \subseteq CoreRooms
    /\ FirstRooms \in [DOMAIN FirstRooms -> Numbers]
    /\ \A c, d \in DOMAIN FirstRooms : FirstRooms[c] = FirstRooms[d] => c = d
ASSUME BoundsAssumption == {MaxChanges, MaxRenumberings, MaxFailures, MaxSyncs, MaxChoices} \subseteq Nat

VARIABLES
    versions,  \* what Core's bundle said, version after version
    events,    \* the types of the events Core has written, by event id
    inbox,     \* event ids with a CoreIntegrationEvent row
    applied,   \* how often each event took effect (history)
    hotel,     \* Hotel.is_active and the trial part of Hotel.access_snapshot
    enabled,   \* room types with booking_enabled
    rows,      \* PhysicalRoom rows of the hotel, in order of creation
    work,      \* what each worker is doing
    tally      \* renumberings, failures, manual syncs and choices so far

core == <<versions, events>>
projection == <<hotel, enabled, rows>>
vars == <<versions, events, inbox, applied, hotel, enabled, rows, work, tally>>

Core == Last(versions)
EventTypes == {"activated", "catalog_changed", "trial_expired", "revoked"}
Published == DOMAIN events
Idle == [job |-> "none", event |-> 0, version |-> 0]

RowsOf(c) == {i \in DOMAIN rows : rows[i].core = c}
ActiveRows == {i \in DOMAIN rows : rows[i].active}

-----------------------------------------------------------------------------
(* Visit77 Core (external).  Numbers are unique in Core at any moment.     *)

EverUsed == UNION {DOMAIN versions[v].rooms : v \in DOMAIN versions}
NumbersInUse == {Core.rooms[c] : c \in DOMAIN Core.rooms}

CoreChanges(type, version) ==
    /\ Len(events) < MaxChanges
    /\ versions' = Append(versions, version)
    /\ events' = Append(events, type)
    /\ UNCHANGED <<inbox, applied, hotel, enabled, rows, work>>

Subscribe ==
    /\ Core.access # "paid"
    /\ CoreChanges("activated", [Core EXCEPT !.access = "paid"])
    /\ UNCHANGED tally

Revoke ==
    /\ Core.access # "none"
    /\ CoreChanges("revoked", [Core EXCEPT !.access = "none"])
    /\ UNCHANGED tally

TrialEnds ==
    /\ Core.access = "trial"
    /\ CoreChanges("trial_expired", [Core EXCEPT !.access = "none"])
    /\ UNCHANGED tally

AddRoom(c, n) ==
    /\ c \notin EverUsed /\ n \notin NumbersInUse
    /\ CoreChanges("catalog_changed",
           [Core EXCEPT !.rooms = [d \in DOMAIN @ \union {c} |-> IF d = c THEN n ELSE @[d]]])
    /\ UNCHANGED tally

RemoveRoom(c) ==
    /\ c \in DOMAIN Core.rooms
    /\ CoreChanges("catalog_changed",
           [Core EXCEPT !.rooms = [d \in DOMAIN @ \ {c} |-> @[d]]])
    /\ UNCHANGED tally

RemoveType(t) ==
    /\ t \in Core.types
    /\ CoreChanges("catalog_changed", [Core EXCEPT !.types = @ \ {t}])
    /\ UNCHANGED tally

\* Room c takes number n; a room that had it takes c's.
Renumber(c, n) ==
    /\ c \in DOMAIN Core.rooms /\ n # Core.rooms[c]
    /\ tally.renumbered < MaxRenumberings
    /\ CoreChanges("catalog_changed",
           [Core EXCEPT !.rooms = [d \in DOMAIN @ |-> IF d = c THEN n
                                                      ELSE IF @[d] = n THEN @[c] ELSE @[d]]])
    /\ tally' = [tally EXCEPT !.renumbered = @ + 1]

-----------------------------------------------------------------------------
(* The transaction of one delivery or one manual synchronisation.          *)

Begin(w, job, e) == work' = [work EXCEPT ![w] = [job |-> job, event |-> e, version |-> 0]]

\* Seeded fault: the claim is committed before the event is processed.
ClaimFirst(w, e) ==
    /\ e \notin inbox
    /\ Begin(w, "event", e)
    /\ inbox' = inbox \union {e}

\* The row of event e is inserted: an insert of the same id by a transaction
\* still open has to end first.  A delivery that finds the row answers
\* "duplicate" and changes nothing.
Claim(w, e) ==
    /\ e \notin inbox
    /\ \A v \in Workers : work[v].event # e
    /\ Begin(w, "event", e)
    /\ UNCHANGED <<inbox>>

Deliver(w, e) ==
    /\ work[w] = Idle
    /\ Claim(w, e)
    /\ UNCHANGED <<core, applied, projection, tally>>

\* sync_core_business and CoreSyncView ("manual"); sync_all_core_businesses
\* goes through the hotels it knows and preserves their access ("catalog").
StartSync(w, job) ==
    /\ work[w] = Idle
    /\ tally.syncs < MaxSyncs
    /\ job = "catalog" => hotel.access # "unknown"
    /\ Begin(w, job, 0)
    /\ tally' = [tally EXCEPT !.syncs = @ + 1]
    /\ UNCHANGED <<core, inbox, applied, projection>>

\* The transaction is rolled back, and the claim with it.
RollBack(w) ==
    /\ work' = [work EXCEPT ![w] = Idle]
    /\ UNCHANGED <<inbox, applied, projection>>

Commit(w) ==
    /\ work' = [work EXCEPT ![w] = Idle]
    /\ inbox' = inbox \union ({work[w].event} \ {0})
    /\ applied' = [e \in DOMAIN applied |-> applied[e] + (IF e = work[w].event THEN 1 ELSE 0)]

TypeOfEvent(w) == events[work[w].event]
IsSync(w) == \/ work[w].job \in {"manual", "catalog"}
             \/ work[w].job = "event" /\ TypeOfEvent(w) \in {"activated", "catalog_changed"}

Fails(w) ==
    /\ work[w] # Idle
    /\ tally.failures < MaxFailures
    /\ RollBack(w)
    /\ tally' = [tally EXCEPT !.failures = @ + 1]
    /\ UNCHANGED core

Deprovision(w) ==
    /\ work[w].job = "event" /\ TypeOfEvent(w) = "revoked"
    /\ hotel' = [hotel EXCEPT !.active = FALSE]
    /\ enabled' = {}
    /\ Commit(w)
    /\ UNCHANGED <<core, rows, tally>>

ExpireTrial(w) ==
    /\ work[w].job = "event" /\ TypeOfEvent(w) = "trial_expired"
    /\ hotel' = [hotel EXCEPT !.access = IF @ = "unknown" THEN @ ELSE "expired"]
    /\ Commit(w)
    /\ UNCHANGED <<core, enabled, rows, tally>>

Fetch(w) ==
    /\ IsSync(w) /\ work[w].version = 0
    /\ Core.access # "none"
    /\ work' = [work EXCEPT ![w].version = Len(versions)]
    /\ UNCHANGED <<core, inbox, applied, projection, tally>>

\* Core answers 403 while the subscription is not active.
Refused(w) ==
    /\ IsSync(w) /\ work[w].version = 0
    /\ Core.access = "none"
    /\ RollBack(w)
    /\ UNCHANGED <<core, tally>>

-----------------------------------------------------------------------------
(* The bundle applied to the rows.                                         *)

\* Rooms of a type the bundle does not have are passed over.
Listed(bundle) == {c \in DOMAIN bundle.rooms : TypeOf[c] \in bundle.types}

NewRow(c, n) == [core |-> c, number |-> n, active |-> TRUE, ota |-> FALSE, guest |-> FALSE]

Holder(n) == {i \in DOMAIN rows : rows[i].number = n}

\* A room without a row of its own finds the row a deleted room left behind.
LeftBehind(i, c, bundle) ==
    /\ RowsOf(c) = {}
    /\ rows[i].number = bundle.rooms[c]
    /\ rows[i].core \notin DOMAIN bundle.rooms

\* Seeded fault: a row that is found again is written as a new one.
RefreshedAfresh(i, c, bundle) == NewRow(c, bundle.rooms[c])

Refreshed(i, c, bundle) ==
    [rows[i] EXCEPT !.core = c, !.number = bundle.rooms[c], !.active = TRUE]

\* Seeded fault: rooms the bundle no longer has stay in use.
RetiredNot(i) == rows[i]

Retired(i) == [rows[i] EXCEPT !.active = FALSE]

Matches(i, c, bundle) == rows[i].core = c \/ LeftBehind(i, c, bundle)

SyncedRow(i, bundle) ==
    LET mine == {c \in Listed(bundle) : Matches(i, c, bundle)}
    IN  IF mine = {} THEN Retired(i) ELSE Refreshed(i, CHOOSE c \in mine : TRUE, bundle)

\* The rooms without a row, in the order they are listed.
NewRooms(order, bundle) ==
    {new \in SetToSeqs({c \in Listed(bundle) : \A i \in DOMAIN rows : ~Matches(i, c, bundle)}) :
        \A k, m \in DOMAIN new : k < m =>
            \E a, b \in DOMAIN order : a < b /\ order[a] = new[k] /\ order[b] = new[m]}

\* A room that finds no row gets one, and is not offered online.
SyncedRows(new, bundle) ==
    [i \in DOMAIN rows |-> SyncedRow(i, bundle)]
        \o [k \in DOMAIN new |-> NewRow(new[k], bundle.rooms[new[k]])]

\* Seeded fault: a number is free only if no other row ever had it.
ConflictWithAny(order, bundle) ==
    \E c \in Listed(bundle) : \E i \in Holder(bundle.rooms[c]) : rows[i].core # c

\* The rooms are written one after the other.  A number that is still on the
\* row of another room when its turn comes fails the transaction: by the
\* unique constraint if the room has a row, by the check for duplicates if
\* it has none and the other one is in the bundle too.
Conflict(order, bundle) ==
    \E c \in Listed(bundle) : \E i \in Holder(bundle.rooms[c]) :
        LET other == rows[i].core
        IN  /\ other # c /\ ~LeftBehind(i, c, bundle)
            /\ ~\E k, m \in DOMAIN order : k < m /\ order[k] = other /\ order[m] = c

AccessAfter(w, bundle) ==
    IF work[w].job = "catalog" /\ hotel.access # "unknown" THEN hotel.access ELSE bundle.access

\* Core lists the rooms in an order of its own.
Apply(w) ==
    /\ IsSync(w) /\ work[w].version # 0
    /\ LET bundle == versions[work[w].version]
       IN  \E order \in SetToSeqs(Listed(bundle)) :
             \/ /\ ~Conflict(order, bundle)
                /\ \E new \in NewRooms(order, bundle) : rows' = SyncedRows(new, bundle)
                /\ hotel' = [active |-> TRUE, access |-> AccessAfter(w, bundle)]
                /\ enabled' = bundle.types
                /\ Commit(w)
             \/ Conflict(order, bundle) /\ RollBack(w)
    /\ UNCHANGED <<core, tally>>

-----------------------------------------------------------------------------
(* The hotel's own choices on rows Core owns.                              *)

OfferOnline(i) ==
    /\ i \in ActiveRows /\ ~rows[i].ota
    /\ tally.choices < MaxChoices
    /\ rows' = [rows EXCEPT ![i].ota = TRUE]
    /\ tally' = [tally EXCEPT !.choices = @ + 1]
    /\ UNCHANGED <<core, inbox, applied, hotel, enabled, work>>

AssignGuest(i) ==
    /\ i \in ActiveRows /\ ~rows[i].guest
    /\ tally.choices < MaxChoices
    /\ rows' = [rows EXCEPT ![i].guest = TRUE]
    /\ tally' = [tally EXCEPT !.choices = @ + 1]
    /\ UNCHANGED <<core, inbox, applied, hotel, enabled, work>>

-----------------------------------------------------------------------------
Init ==
    /\ versions = <<[access |-> "trial", types |-> Types, rooms |-> FirstRooms]>>
    /\ events = <<>> /\ inbox = {}
    /\ applied = [e \in 1..MaxChanges |-> 0]
    /\ hotel = [active |-> FALSE, access |-> "unknown"]
    /\ enabled = {} /\ rows = <<>>
    /\ work = [w \in Workers |-> Idle]
    /\ tally = [renumbered |-> 0, failures |-> 0, syncs |-> 0, choices |-> 0]

CoreStep ==
    \/ Subscribe \/ Revoke \/ TrialEnds
    \/ \E c \in CoreRooms : RemoveRoom(c) \/ \E n \in Numbers : AddRoom(c, n) \/ Renumber(c, n)
    \/ \E t \in Types : RemoveType(t)

WorkerStep(w) == Deprovision(w) \/ ExpireTrial(w) \/ Fetch(w) \/ Refused(w) \/ Apply(w)

Next ==
    \/ CoreStep
    \/ \E w \in Workers : \/ \E e \in Published : Deliver(w, e)
                          \/ \E job \in {"manual", "catalog"} : StartSync(w, job)
                          \/ Fails(w)
                          \/ WorkerStep(w)
    \/ \E i \in DOMAIN rows : OfferOnline(i) \/ AssignGuest(i)

\* Core repeats an event until it got through; a request that runs ends.
Fairness ==
    /\ \A e \in 1..MaxChanges : WF_vars(\E w \in Workers : e \in Published /\ Deliver(w, e))
    /\ \A w \in Workers : WF_vars(WorkerStep(w))

Spec == Init /\ [][Next]_vars
FairSpec == Spec /\ Fairness

-----------------------------------------------------------------------------
(* Properties.                                                             *)

\* Types, and what the constraints of PhysicalRoom demand: one row for each
\* Core room and one for each number of the hotel.
CoreTypeOK ==
    /\ inbox \subseteq Published
    /\ hotel \in [active : BOOLEAN, access : {"unknown", "trial", "expired", "paid"}]
    /\ enabled \subseteq Types
    /\ \A i \in DOMAIN rows : rows[i] \in [core : CoreRooms, number : Numbers, active : BOOLEAN,
                                           ota : BOOLEAN, guest : BOOLEAN]
    /\ \A i, j \in DOMAIN rows :
         rows[i].core = rows[j].core \/ rows[i].number = rows[j].number => i = j

\* An event takes effect once, however often and however concurrently it is
\* delivered, and not at all while every delivery of it has failed
\* (CoreEventView.post: the claim and the processing in one transaction).
AppliedOnce ==
    \A e \in 1..MaxChanges : applied[e] = (IF e \in inbox THEN 1 ELSE 0)

\* The rooms in use are those of one version of Core's catalogue, never a
\* mixture of two (sync_business_from_core), and the constraints of
\* PhysicalRoom hold whatever order the rows were brought up to date in.
RoomsMirrorOneVersion ==
    /\ CoreTypeOK
    /\ hotel.access # "unknown" =>
         \E v \in DOMAIN versions :
             {<<rows[i].core, rows[i].number>> : i \in ActiveRows}
                 = {<<c, versions[v].rooms[c]>> : c \in Listed(versions[v])}

\* What the hotel chose for a room and the guest assigned to it stay with
\* the number on the door when Core deletes the room and creates it again,
\* as long as Core renumbers nothing (core.py:418-422, 473-476).
ChoicesStayWithTheDoor ==
    [][tally.renumbered = 0 =>
         \A i \in ActiveRows, j \in DOMAIN rows' :
            rows'[j].active /\ rows'[j].number = rows[i].number
              => (rows[i].ota => rows'[j].ota) /\ (rows[i].guest => rows'[j].guest)]_vars

\* An event Core has written takes effect in the end, unless the
\* subscription is over (Core then refuses the bundle) or a room was given
\* another number: two rooms that exchange theirs, or one that gets the number
\* of a deleted room, fail every retry on the unique number (views.py:4059-4064).
EventsGetThrough ==
    \A e \in 1..MaxChanges :
        e \in Published ~> e \in inbox \/ Core.access = "none" \/ tally.renumbered > 0
=============================================================================
