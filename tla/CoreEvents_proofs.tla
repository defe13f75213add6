------------------------- MODULE CoreEvents_proofs -------------------------
(***************************************************************************)
(* Proofs about CoreEvents, for every number of workers, rooms, types and  *)
(* events and every bound: an event takes effect exactly once; the rooms   *)
(* in use are those of one version of Core's catalogue; and what the hotel *)
(* chose for a room stays with the number on its door.                     *)
(***************************************************************************)
EXTENDS CoreEvents, FiniteSetTheorems, SequenceTheorems, TLAPS

-----------------------------------------------------------------------------
(* What Core's catalogue said, version after version. *)

Version == [access : {"trial", "paid", "none"}, types : SUBSET Types,
            rooms : UNION {[S -> Numbers] : S \in SUBSET CoreRooms}]

LEMMA VersionWith ==
    ASSUME NEW u \in Version, NEW S \in SUBSET CoreRooms, NEW f \in [S -> Numbers]
    PROVE  [u EXCEPT !.rooms = f] \in Version /\ [u EXCEPT !.rooms = f].rooms = f
  BY DEF Version

\* No two rooms of a version share a number.
Distinct(version) ==
    \A c, d \in DOMAIN version.rooms : version.rooms[c] = version.rooms[d] => c = d

\* The rooms two versions have in common have the same numbers in both.
Agree(u, v) == \A c \in DOMAIN u.rooms \cap DOMAIN v.rooms : u.rooms[c] = v.rooms[c]

Tally == [renumbered : Nat, failures : Nat, syncs : Nat, choices : Nat]

CatalogInv ==
    /\ versions \in Seq(Version) /\ versions # <<>>
    /\ \A v \in DOMAIN versions : Distinct(versions[v])
    /\ tally \in Tally
    /\ tally.renumbered = 0 => \A u, v \in DOMAIN versions : Agree(versions[u], versions[v])

\* The last version is one of them.
LEMMA CoreIsAVersion ==
    ASSUME CatalogInv
    PROVE  /\ DOMAIN versions = 1..Len(versions) /\ Len(versions) \in DOMAIN versions
           /\ Core = versions[Len(versions)] /\ Core \in Version /\ Distinct(Core)
           /\ Core.rooms \in [DOMAIN Core.rooms -> Numbers] /\ DOMAIN Core.rooms \subseteq CoreRooms
<1>1. DOMAIN versions = 1..Len(versions) /\ Len(versions) \in Nat /\ Len(versions) # 0
  BY LenProperties, EmptySeq DEF CatalogInv
<1>2. Core = versions[Len(versions)]
  BY DEF Core, Last
<1>3. Core \in Version /\ Distinct(Core)
  BY <1>1, <1>2 DEF CatalogInv
<1>4. Core.rooms \in [DOMAIN Core.rooms -> Numbers] /\ DOMAIN Core.rooms \subseteq CoreRooms
  BY <1>3 DEF Version
<1>5. QED
  BY <1>1, <1>2, <1>3, <1>4

\* Core adds a version and keeps those it had.
LEMMA CoreChangesCatalog ==
    ASSUME CatalogInv, NEW type, NEW version \in Version, CoreChanges(type, version), Distinct(version),
           tally' \in Tally, tally'.renumbered = 0 => tally.renumbered = 0,
           tally'.renumbered = 0 => \A v \in DOMAIN versions : Agree(versions[v], version)
    PROVE  /\ CatalogInv' /\ DOMAIN versions \subseteq DOMAIN versions'
           /\ \A v \in DOMAIN versions : versions'[v] = versions[v]
<1>1. /\ versions' \in Seq(Version) /\ versions' # <<>>
      /\ DOMAIN versions = 1..Len(versions) /\ Len(versions) \in Nat
      /\ DOMAIN versions' = 1..(Len(versions) + 1)
      /\ \A v \in DOMAIN versions : versions'[v] = versions[v]
      /\ versions'[Len(versions) + 1] = version
  BY AppendProperties, LenProperties DEF CoreChanges, CatalogInv
<1>2. \A v \in DOMAIN versions' : v \in DOMAIN versions \/ v = Len(versions) + 1
  BY <1>1
<1>3. \A v \in DOMAIN versions' : Distinct(versions'[v])
  BY <1>1, <1>2 DEF CatalogInv
<1>4. ASSUME tally'.renumbered = 0, NEW u \in DOMAIN versions', NEW v \in DOMAIN versions'
      PROVE  Agree(versions'[u], versions'[v])
  <2>1. \A x \in DOMAIN versions : Agree(versions[x], version) /\ Agree(version, versions[x])
    BY <1>4 DEF Agree
  <2>2. Agree(version, version)
    BY DEF Agree
  <2>3. \A x, y \in DOMAIN versions : Agree(versions[x], versions[y])
    BY <1>4 DEF CatalogInv
  <2>4. QED
    BY <1>1, <1>2, <2>1, <2>2, <2>3
<1>5. QED
  BY <1>1, <1>3, <1>4 DEF CatalogInv

\* Only a renumbering gives a room that exists another number.
LEMMA CoreStepCatalog ==
    ASSUME CatalogInv, CoreStep
    PROVE  /\ CatalogInv' /\ DOMAIN versions \subseteq DOMAIN versions'
           /\ \A v \in DOMAIN versions : versions'[v] = versions[v]
           /\ UNCHANGED <<inbox, applied, hotel, enabled, rows, work>>
           /\ tally'.renumbered = 0 => tally.renumbered = 0
<1>0. /\ DOMAIN versions = 1..Len(versions) /\ Len(versions) \in DOMAIN versions
      /\ Core = versions[Len(versions)] /\ Core \in Version /\ Distinct(Core)
      /\ Core.rooms \in [DOMAIN Core.rooms -> Numbers] /\ DOMAIN Core.rooms \subseteq CoreRooms
  BY CoreIsAVersion
<1>1. tally.renumbered = 0 => \A v \in DOMAIN versions : Agree(versions[v], Core)
  BY <1>0 DEF CatalogInv
<1>2. ASSUME NEW type, NEW version \in Version, CoreChanges(type, version), UNCHANGED tally,
             \A c \in DOMAIN version.rooms : c \in DOMAIN Core.rooms /\ version.rooms[c] = Core.rooms[c]
      PROVE  CatalogInv' /\ DOMAIN versions \subseteq DOMAIN versions'
             /\ \A v \in DOMAIN versions : versions'[v] = versions[v]
  <2>1. Distinct(version)
    BY <1>0, <1>2 DEF Distinct
  <2>2. tally.renumbered = 0 => \A v \in DOMAIN versions : Agree(versions[v], version)
    BY <1>1, <1>2 DEF Agree
  <2>3. QED
    BY <1>2, <2>1, <2>2, CoreChangesCatalog DEF CatalogInv
<1>3. CASE Subscribe \/ Revoke \/ TrialEnds
  <2>1. \E type \in EventTypes, a \in {"paid", "none"} :
          CoreChanges(type, [Core EXCEPT !.access = a]) /\ UNCHANGED tally
    <3>1. CASE Subscribe
      BY <3>1 DEF Subscribe, EventTypes
    <3>2. CASE Revoke
      BY <3>2 DEF Revoke, EventTypes
    <3>3. CASE TrialEnds
      BY <3>3 DEF TrialEnds, EventTypes
    <3>4. QED
      BY <1>3, <3>1, <3>2, <3>3
  <2> PICK type \in EventTypes, a \in {"paid", "none"} :
          CoreChanges(type, [Core EXCEPT !.access = a]) /\ UNCHANGED tally
    BY <2>1
  <2> DEFINE version == [Core EXCEPT !.access = a]
  <2>2. version \in Version /\ version.rooms = Core.rooms
    BY <1>0 DEF Version
  <2>3. QED
    BY <1>2, <2>1, <2>2 DEF CoreChanges
<1>4. ASSUME NEW t \in Types, RemoveType(t) PROVE CatalogInv' /\ DOMAIN versions \subseteq DOMAIN versions'
             /\ \A v \in DOMAIN versions : versions'[v] = versions[v]
  <2> DEFINE version == [Core EXCEPT !.types = @ \ {t}]
  <2>1. version \in Version /\ version.rooms = Core.rooms
    BY <1>0 DEF Version
  <2>2. CoreChanges("catalog_changed", version) /\ UNCHANGED tally
    BY <1>4 DEF RemoveType
  <2>3. QED
    BY <1>2, <2>1, <2>2
<1>5. ASSUME NEW c \in CoreRooms, RemoveRoom(c)
      PROVE CatalogInv' /\ DOMAIN versions \subseteq DOMAIN versions'
             /\ \A v \in DOMAIN versions : versions'[v] = versions[v]
  <2> DEFINE left == [d \in DOMAIN Core.rooms \ {c} |-> Core.rooms[d]]
             version == [Core EXCEPT !.rooms = left]
  <2>1. left \in [DOMAIN Core.rooms \ {c} -> Numbers] /\ DOMAIN Core.rooms \ {c} \in SUBSET CoreRooms
    BY <1>0
  <2> HIDE DEF left
  <2>2. version \in Version /\ version.rooms = left
    BY <1>0, <2>1, VersionWith
  <2> USE DEF left
  <2>3. CoreChanges("catalog_changed", version) /\ UNCHANGED tally
    BY <1>5 DEF RemoveRoom
  <2>4. QED
    BY <1>2, <2>2, <2>3
<1>6. ASSUME NEW c \in CoreRooms, NEW n \in Numbers, AddRoom(c, n)
      PROVE CatalogInv' /\ DOMAIN versions \subseteq DOMAIN versions'
             /\ \A v \in DOMAIN versions : versions'[v] = versions[v]
  <2> DEFINE more == [d \in DOMAIN Core.rooms \union {c} |-> IF d = c THEN n ELSE Core.rooms[d]]
             version == [Core EXCEPT !.rooms = more]
  <2>1. /\ more \in [DOMAIN Core.rooms \union {c} -> Numbers]
        /\ DOMAIN Core.rooms \union {c} \in SUBSET CoreRooms
    BY <1>0
  <2> HIDE DEF more
  <2>2. version \in Version /\ version.rooms = more
    BY <1>0, <2>1, VersionWith
  <2> USE DEF more
  <2>3. CoreChanges("catalog_changed", version) /\ UNCHANGED tally
    BY <1>6 DEF AddRoom
  <2>4. Distinct(version)
    BY <1>0, <1>6, <2>2 DEF Distinct, AddRoom, NumbersInUse
  <2>5. \A v \in DOMAIN versions : c \notin DOMAIN versions[v].rooms
    BY <1>6 DEF AddRoom, EverUsed
  <2>6. tally.renumbered = 0 => \A v \in DOMAIN versions : Agree(versions[v], version)
    BY <1>1, <2>2, <2>5 DEF Agree
  <2> HIDE DEF version
  <2>7. QED
    BY <2>2, <2>3, <2>4, <2>6, CoreChangesCatalog DEF CatalogInv
<1>7. ASSUME NEW c \in CoreRooms, NEW n \in Numbers, Renumber(c, n)
      PROVE /\ CatalogInv' /\ DOMAIN versions \subseteq DOMAIN versions'
            /\ \A v \in DOMAIN versions : versions'[v] = versions[v]
            /\ tally'.renumbered # 0
  <2> DEFINE renumbered == [d \in DOMAIN Core.rooms |->
                               IF d = c THEN n
                               ELSE IF Core.rooms[d] = n THEN Core.rooms[c] ELSE Core.rooms[d]]
             version == [Core EXCEPT !.rooms = renumbered]
  <2>0. c \in DOMAIN Core.rooms
    BY <1>7 DEF Renumber
  <2>1. renumbered \in [DOMAIN Core.rooms -> Numbers] /\ DOMAIN Core.rooms \in SUBSET CoreRooms
    BY <1>0, <2>0
  <2> HIDE DEF renumbered
  <2>2. version \in Version /\ version.rooms = renumbered
    BY <1>0, <2>1, VersionWith
  <2> USE DEF renumbered
  <2>3. CoreChanges("catalog_changed", version)
    BY <1>7 DEF Renumber
  <2>4. Distinct(version)
    BY <1>0, <2>0, <2>2 DEF Distinct
  <2>5. tally' \in Tally /\ tally'.renumbered # 0
    BY <1>7 DEF Renumber, CatalogInv, Tally
  <2> HIDE DEF version
  <2>7. QED
    BY <2>2, <2>3, <2>4, <2>5, CoreChangesCatalog
<1>8. UNCHANGED <<inbox, applied, hotel, enabled, rows, work>>
  BY DEF CoreStep, Subscribe, Revoke, TrialEnds, RemoveRoom, AddRoom, Renumber, RemoveType, CoreChanges
<1>9. Subscribe \/ Revoke \/ TrialEnds \/ (\E t \in Types : RemoveType(t))
        \/ (\E c \in CoreRooms : RemoveRoom(c) \/ \E n \in Numbers : AddRoom(c, n)) => UNCHANGED tally
  BY DEF Subscribe, Revoke, TrialEnds, RemoveRoom, AddRoom, RemoveType
<1>10. QED
  BY <1>3, <1>4, <1>5, <1>6, <1>7, <1>8, <1>9 DEF CoreStep

-----------------------------------------------------------------------------
(* Who works on which event. *)

Job == [job : {"none", "event", "manual", "catalog"}, event : Nat, version : Nat]

\* An event that a worker has claimed is not in the inbox yet, and no other
\* worker has it.
EventInv ==
    /\ events \in Seq(EventTypes) /\ Len(events) <= MaxChanges
    /\ inbox \subseteq Published
    /\ applied \in [1..MaxChanges -> Nat]
    /\ work \in [Workers -> Job]
    /\ \A w \in Workers : work[w].event # 0 => work[w].event \in Published \ inbox
    /\ \A v, w \in Workers : work[v].event = work[w].event /\ work[v].event # 0 => v = w
    /\ AppliedOnce

\* Core's changes only add events.
LEMMA CoreChangesEvents ==
    ASSUME EventInv, NEW type \in EventTypes, NEW version, CoreChanges(type, version)
    PROVE  EventInv'
<1>1. /\ Len(events) < MaxChanges
      /\ events' = Append(events, type)
      /\ UNCHANGED <<inbox, applied, work>>
  BY DEF CoreChanges
<1>2. /\ events' \in Seq(EventTypes) /\ Len(events') = Len(events) + 1
      /\ Len(events) \in Nat
      /\ DOMAIN events = 1..Len(events) /\ DOMAIN events' = 1..Len(events')
  BY <1>1, AppendProperties, LenProperties DEF EventInv
<1>3. Len(events') <= MaxChanges /\ Published \subseteq Published'
  BY <1>1, <1>2, BoundsAssumption DEF Published
<1>4. QED
  BY <1>1, <1>2, <1>3 DEF EventInv, AppliedOnce

\* A worker that gives up gives its claim back.
LEMMA RollBackEvents ==
    ASSUME EventInv, NEW w \in Workers, RollBack(w), events' = events
    PROVE  EventInv'
<1>1. Idle \in Job /\ Idle.event = 0
  BY DEF Idle, Job
<1>2. work' = [work EXCEPT ![w] = Idle] /\ UNCHANGED <<inbox, applied>>
  BY DEF RollBack
<1>3. QED
  BY <1>1, <1>2 DEF EventInv, AppliedOnce, Published

\* A worker that is done counts its event and records it, together.
LEMMA CommitEvents ==
    ASSUME EventInv, NEW w \in Workers, Commit(w), events' = events
    PROVE  EventInv'
<1>1. Idle \in Job /\ Idle.event = 0
  BY DEF Idle, Job
<1>2. /\ work' = [work EXCEPT ![w] = Idle]
      /\ inbox' = inbox \union ({work[w].event} \ {0})
      /\ applied' = [e \in 1..MaxChanges |-> applied[e] + (IF e = work[w].event THEN 1 ELSE 0)]
  BY DEF Commit, EventInv
<1>3. work[w].event # 0 => work[w].event \in Published \ inbox
  BY DEF EventInv
<1>4. inbox' \subseteq Published'
  BY <1>2, <1>3 DEF EventInv, Published
<1>5. /\ work' \in [Workers -> Job]
      /\ \A v \in Workers : work'[v].event # 0 => work'[v].event = work[v].event /\ v # w
  BY <1>1, <1>2 DEF EventInv
<1>6. \A v \in Workers : work'[v].event # 0 => work'[v].event \in Published' \ inbox'
  BY <1>2, <1>5 DEF EventInv, Published
<1>7. \A u, v \in Workers : work'[u].event = work'[v].event /\ work'[u].event # 0 => u = v
  BY <1>5 DEF EventInv
<1>8. applied' \in [1..MaxChanges -> Nat]
  BY <1>2 DEF EventInv
<1>9. AppliedOnce'
  <2> SUFFICES ASSUME NEW e \in 1..MaxChanges
               PROVE  applied'[e] = (IF e \in inbox' THEN 1 ELSE 0)
    BY DEF AppliedOnce
  <2>1. /\ applied'[e] = applied[e] + (IF e = work[w].event THEN 1 ELSE 0)
        /\ applied[e] = (IF e \in inbox THEN 1 ELSE 0)
        /\ e # 0
    BY <1>2, BoundsAssumption DEF EventInv, AppliedOnce
  <2>2. CASE e = work[w].event
    BY <1>2, <1>3, <2>1, <2>2
  <2>3. CASE e # work[w].event
    BY <1>2, <2>1, <2>3
  <2>4. QED
    BY <2>2, <2>3
<1>10. QED
  BY <1>4, <1>5, <1>6, <1>7, <1>8, <1>9 DEF EventInv

\* A worker that begins has an event nobody has, or none.
LEMMA BeginEvents ==
    ASSUME EventInv, NEW w \in Workers, NEW job \in {"event", "manual", "catalog"}, NEW e \in Nat,
           Begin(w, job, e), UNCHANGED <<events, inbox, applied>>,
           e # 0 => e \in Published \ inbox /\ \A v \in Workers : work[v].event # e
    PROVE  EventInv'
<1>1. [job |-> job, event |-> e, version |-> 0] \in Job
  BY DEF Job
<1>2. /\ work' \in [Workers -> Job]
      /\ \A v \in Workers : work'[v].event = IF v = w THEN e ELSE work[v].event
  BY <1>1 DEF Begin, EventInv
<1>3. QED
  BY <1>2 DEF EventInv, AppliedOnce, Published

\* Every step keeps the claims apart.
LEMMA EventStep == CatalogInv /\ EventInv /\ [Next]_vars => EventInv'
<1> SUFFICES ASSUME CatalogInv, EventInv, [Next]_vars PROVE EventInv'
  OBVIOUS
<1>1. CASE UNCHANGED <<events, inbox, applied, work>>
  BY <1>1 DEF EventInv, AppliedOnce, Published
<1>2. CASE CoreStep
  BY <1>2, CoreChangesEvents DEF CoreStep, Subscribe, Revoke, TrialEnds, RemoveRoom, AddRoom, Renumber,
        RemoveType, EventTypes
<1>3. ASSUME NEW w \in Workers, NEW e \in Published, Deliver(w, e) PROVE EventInv'
  <2>1. e \in Nat /\ e # 0
    BY LenProperties DEF Published, EventInv
  <2>2. /\ Begin(w, "event", e) /\ e \notin inbox
        /\ \A v \in Workers : work[v].event # e
        /\ UNCHANGED <<events, inbox, applied>>
    BY <1>3 DEF Deliver, Claim, core
  <2>3. QED
    BY <2>1, <2>2, BeginEvents
<1>4. ASSUME NEW w \in Workers, NEW job \in {"manual", "catalog"}, StartSync(w, job) PROVE EventInv'
  BY <1>4, BeginEvents DEF StartSync, core
<1>5. ASSUME NEW w \in Workers, Fails(w) PROVE EventInv'
  BY <1>5, RollBackEvents DEF Fails, core
<1>6. ASSUME NEW w \in Workers, Deprovision(w) \/ ExpireTrial(w) PROVE EventInv'
  BY <1>6, CommitEvents DEF Deprovision, ExpireTrial, core
<1>7. ASSUME NEW w \in Workers, Refused(w) PROVE EventInv'
  BY <1>7, RollBackEvents DEF Refused, core
<1>8. ASSUME NEW w \in Workers, Apply(w) PROVE EventInv'
  <2>1. events' = events /\ (Commit(w) \/ RollBack(w))
    BY <1>8 DEF Apply, core
  <2>2. QED
    BY <2>1, CommitEvents, RollBackEvents
<1>9. ASSUME NEW w \in Workers, Fetch(w) PROVE EventInv'
  <2>1. /\ work' = [work EXCEPT ![w].version = Len(versions)]
        /\ UNCHANGED <<events, inbox, applied>>
    BY <1>9 DEF Fetch, core
  <2>2. Len(versions) \in Nat
    BY LenProperties DEF CatalogInv
  <2>3. QED
    BY <2>1, <2>2 DEF EventInv, AppliedOnce, Published, Job
<1>10. CASE \E i \in DOMAIN rows : OfferOnline(i) \/ AssignGuest(i)
  BY <1>1, <1>10 DEF OfferOnline, AssignGuest, core
<1>11. QED
  BY <1>1, <1>2, <1>3, <1>4, <1>5, <1>6, <1>7, <1>8, <1>9, <1>10 DEF Next, WorkerStep, vars

-----------------------------------------------------------------------------
(* The rows, before and after a synchronisation. *)

Row == [core : CoreRooms, number : Numbers, active : BOOLEAN, ota : BOOLEAN, guest : BOOLEAN]

\* Every row has the number some version gave to its room.
RowsInv ==
    /\ rows \in Seq(Row)
    /\ \A i, j \in DOMAIN rows :
         rows[i].core = rows[j].core \/ rows[i].number = rows[j].number => i = j
    /\ \A i \in DOMAIN rows :
         \E v \in DOMAIN versions : /\ rows[i].core \in DOMAIN versions[v].rooms
                                  /\ versions[v].rooms[rows[i].core] = rows[i].number

\* A sequence that lists a finite set has each of its members once.
LEMMA SetToSeqsOnto ==
    ASSUME NEW S, IsFiniteSet(S), NEW f \in SetToSeqs(S)
    PROVE  /\ f \in Seq(S) /\ \A s \in S : \E k \in DOMAIN f : f[k] = s
           /\ \A k, m \in DOMAIN f : f[k] = f[m] => k = m
<1> DEFINE D == 1..Cardinality(S)
<1>1. f \in [D -> S] /\ \A i, j \in D : i # j => f[i] # f[j]
  BY DEF SetToSeqs
<1>2. Cardinality(S) \in Nat
  BY FS_CardinalityType
<1>3. IsFiniteSet(D) /\ Cardinality(D) = Cardinality(S)
  <2> DEFINE n == Cardinality(S)
  <2> HIDE DEF n
  <2>1. n \in Int /\ n >= 0
    BY <1>2 DEF n
  <2>2. IsFiniteSet(1..n) /\ Cardinality(1..n) = IF 1 > n THEN 0 ELSE n - 1 + 1
    BY <2>1, FS_Interval
  <2>3. QED
    BY <2>1, <2>2 DEF n
<1>4. f \in Injection(D, S)
  BY <1>1 DEF Injection, IsInjective
<1>5. f \in Surjection(D, S)
  <2> HIDE DEF D
  <2>1. QED
    BY <1>3, <1>4, FS_Injection
<1>6. f \in Seq(S)
  BY <1>1, <1>2, SeqDef
<1>7. QED
  BY <1>1, <1>5, <1>6 DEF Surjection

\* A row belongs to at most one room of the bundle, and a room of the bundle
\* to at most one row.
LEMMA Matching ==
    ASSUME RowsInv, NEW bundle \in Version, Distinct(bundle)
    PROVE  /\ \A i \in DOMAIN rows : \A c, d \in Listed(bundle) :
                Matches(i, c, bundle) /\ Matches(i, d, bundle) => c = d
           /\ \A i, j \in DOMAIN rows : \A c \in Listed(bundle) :
                Matches(i, c, bundle) /\ Matches(j, c, bundle) => i = j
           /\ \A i \in DOMAIN rows : \A c \in Listed(bundle) :
                Matches(i, c, bundle) => SyncedRow(i, bundle) = Refreshed(i, c, bundle)
           /\ \A i \in DOMAIN rows :
                (\A c \in Listed(bundle) : ~Matches(i, c, bundle)) => SyncedRow(i, bundle) = Retired(i)
<1>1. \A c \in Listed(bundle) : c \in DOMAIN bundle.rooms
  BY DEF Listed
<1>2. \A i \in DOMAIN rows : \A c, d \in Listed(bundle) :
        Matches(i, c, bundle) /\ Matches(i, d, bundle) => c = d
  BY <1>1 DEF Matches, LeftBehind, Distinct
<1>3. \A i, j \in DOMAIN rows : \A c \in Listed(bundle) :
        Matches(i, c, bundle) /\ Matches(j, c, bundle) => i = j
  BY DEF Matches, LeftBehind, RowsInv, RowsOf
<1>4. ASSUME NEW i \in DOMAIN rows, NEW c \in Listed(bundle), Matches(i, c, bundle)
      PROVE  SyncedRow(i, bundle) = Refreshed(i, c, bundle)
  <2>1. {d \in Listed(bundle) : Matches(i, d, bundle)} = {c}
    BY <1>2, <1>4
  <2>2. QED
    BY <2>1 DEF SyncedRow
<1>5. ASSUME NEW i \in DOMAIN rows, \A c \in Listed(bundle) : ~Matches(i, c, bundle)
      PROVE  SyncedRow(i, bundle) = Retired(i)
  <2>1. {d \in Listed(bundle) : Matches(i, d, bundle)} = {}
    BY <1>5
  <2>2. QED
    BY <2>1 DEF SyncedRow
<1>6. QED
  BY <1>2, <1>3, <1>4, <1>5

Unmatched(bundle) == {c \in Listed(bundle) : \A i \in DOMAIN rows : ~Matches(i, c, bundle)}

\* After a synchronisation a row is the refreshed row of a room, a row
\* retired, or the new row of a room that had none; every room has its row.
LEMMA SyncedRowsAre ==
    ASSUME RowsInv, NEW bundle \in Version, Distinct(bundle),
           NEW order, NEW new \in NewRooms(order, bundle), rows' = SyncedRows(new, bundle)
    PROVE  /\ rows' \in Seq(Row) /\ DOMAIN rows \subseteq DOMAIN rows'
           /\ \A i \in DOMAIN rows : rows'[i] = SyncedRow(i, bundle)
           /\ \A j \in DOMAIN rows' \ DOMAIN rows :
                \E c \in Unmatched(bundle) : rows'[j] = NewRow(c, bundle.rooms[c])
           /\ \A i, j \in DOMAIN rows' \ DOMAIN rows : rows'[i].core = rows'[j].core => i = j
           /\ \A c \in Unmatched(bundle) :
                \E j \in DOMAIN rows' : rows'[j] = NewRow(c, bundle.rooms[c])
<1> DEFINE old == [i \in DOMAIN rows |-> SyncedRow(i, bundle)]
           added == [k \in DOMAIN new |-> NewRow(new[k], bundle.rooms[new[k]])]
<1>1. Listed(bundle) \subseteq DOMAIN bundle.rooms /\ DOMAIN bundle.rooms \subseteq CoreRooms
      /\ bundle.rooms \in [DOMAIN bundle.rooms -> Numbers]
  BY DEF Listed, Version
<1>2. IsFiniteSet(Unmatched(bundle))
  BY <1>1, FirstRoomsAssumption, FS_Subset DEF Unmatched
<1>3. new \in SetToSeqs(Unmatched(bundle))
  BY DEF NewRooms, Unmatched
<1>4. /\ new \in Seq(Unmatched(bundle)) /\ \A c \in Unmatched(bundle) : \E k \in DOMAIN new : new[k] = c
      /\ \A k, m \in DOMAIN new : new[k] = new[m] => k = m
  BY <1>2, <1>3, SetToSeqsOnto
<1>5. /\ DOMAIN rows = 1..Len(rows) /\ Len(rows) \in Nat
      /\ DOMAIN new = 1..Len(new) /\ Len(new) \in Nat
      /\ \A i \in DOMAIN rows : rows[i] \in Row
      /\ \A k \in DOMAIN new : new[k] \in Unmatched(bundle)
  BY <1>4, LenProperties, ElementOfSeq DEF RowsInv
<1>6. \A c \in Unmatched(bundle) : NewRow(c, bundle.rooms[c]) \in Row
  BY <1>1 DEF Unmatched, NewRow, Row
<1>7. \A i \in DOMAIN rows : SyncedRow(i, bundle) \in Row
  <2> TAKE i \in DOMAIN rows
  <2>1. rows[i] \in Row
    BY <1>5
  <2>2. Retired(i) \in Row
    BY <2>1 DEF Retired, Row
  <2>3. \A c \in Listed(bundle) : Refreshed(i, c, bundle) \in Row
    BY <1>1, <2>1 DEF Refreshed, Row
  <2>4. QED
    BY <2>2, <2>3, Matching
<1>8. old \in Seq(Row) /\ Len(old) = Len(rows)
  <2>1. old \in [1..Len(rows) -> Row]
    BY <1>5, <1>7
  <2> HIDE DEF old
  <2>2. QED
    BY <1>5, <2>1, SeqDef, LenProperties
<1>9. added \in Seq(Row) /\ Len(added) = Len(new)
  <2>1. added \in [1..Len(new) -> Row]
    BY <1>5, <1>6
  <2> HIDE DEF added
  <2>2. QED
    BY <1>5, <2>1, SeqDef, LenProperties
<1>10. rows' = old \o added
  <2> HIDE DEF SyncedRow, NewRow
  <2>1. QED
    BY DEF SyncedRows
<1>11. \A i \in DOMAIN rows : old[i] = SyncedRow(i, bundle)
  OBVIOUS
<1>12. \A k \in DOMAIN new : added[k] = NewRow(new[k], bundle.rooms[new[k]])
  OBVIOUS
<1> HIDE DEF old, added
<1>13. /\ rows' \in Seq(Row) /\ Len(rows') = Len(rows) + Len(new)
       /\ \A i \in 1..(Len(rows) + Len(new)) :
            rows'[i] = IF i <= Len(rows) THEN old[i] ELSE added[i - Len(rows)]
  <2>1. /\ old \o added \in Seq(Row) /\ Len(old \o added) = Len(old) + Len(added)
        /\ \A i \in 1..(Len(old) + Len(added)) :
             (old \o added)[i] = IF i <= Len(old) THEN old[i] ELSE added[i - Len(old)]
    BY <1>8, <1>9, ConcatProperties
  <2>2. QED
    BY <1>8, <1>9, <1>10, <2>1
<1>14. DOMAIN rows' = 1..(Len(rows) + Len(new))
  BY <1>13, LenProperties
<1>15. \A i \in DOMAIN rows : i \in DOMAIN rows' /\ rows'[i] = SyncedRow(i, bundle)
  BY <1>5, <1>11, <1>13, <1>14
<1>16. \A j \in DOMAIN rows' \ DOMAIN rows :
         j - Len(rows) \in DOMAIN new
         /\ rows'[j] = NewRow(new[j - Len(rows)], bundle.rooms[new[j - Len(rows)]])
  BY <1>5, <1>12, <1>13, <1>14
<1>17. \A k \in DOMAIN new :
         k + Len(rows) \in DOMAIN rows' /\ rows'[k + Len(rows)] = NewRow(new[k], bundle.rooms[new[k]])
  BY <1>5, <1>12, <1>13, <1>14
<1>18. \A j \in DOMAIN rows' \ DOMAIN rows :
         \E c \in Unmatched(bundle) : rows'[j] = NewRow(c, bundle.rooms[c])
  BY <1>5, <1>16
<1>19. \A i, j \in DOMAIN rows' \ DOMAIN rows : rows'[i].core = rows'[j].core => i = j
  <2> TAKE i, j \in DOMAIN rows' \ DOMAIN rows
  <2> DEFINE k == i - Len(rows)
             m == j - Len(rows)
  <2>1. /\ k \in DOMAIN new /\ rows'[i].core = new[k]
        /\ m \in DOMAIN new /\ rows'[j].core = new[m]
    BY <1>16 DEF NewRow
  <2>2. i \in Int /\ j \in Int
    BY <1>14
  <2>3. k = m => i = j
    BY <1>5, <2>2
  <2> HIDE DEF k, m
  <2>4. QED
    BY <1>4, <2>1, <2>3
<1>20. \A c \in Unmatched(bundle) : \E j \in DOMAIN rows' : rows'[j] = NewRow(c, bundle.rooms[c])
  BY <1>4, <1>17
<1>21. QED
  BY <1>13, <1>15, <1>18, <1>19, <1>20

\* The rooms in use are those of one version.
Mirror ==
    hotel.access # "unknown" =>
        \E v \in DOMAIN versions :
            {<<rows[i].core, rows[i].number>> : i \in ActiveRows}
                = {<<c, versions[v].rooms[c]>> : c \in Listed(versions[v])}

\* What a synchronisation without a conflict leaves.
LEMMA SyncKeepsRows ==
    ASSUME RowsInv, CatalogInv, NEW v \in DOMAIN versions, UNCHANGED versions,
           NEW order \in SetToSeqs(Listed(versions[v])), ~Conflict(order, versions[v]),
           NEW new \in NewRooms(order, versions[v]), rows' = SyncedRows(new, versions[v])
    PROVE  /\ RowsInv'
           /\ {<<rows'[i].core, rows'[i].number>> : i \in ActiveRows'}
                = {<<c, versions[v].rooms[c]>> : c \in Listed(versions[v])}
<1> DEFINE bundle == versions[v]
<1>1. bundle \in Version /\ Distinct(bundle)
  BY ElementOfSeq DEF CatalogInv
<1> HIDE DEF bundle
<1>2. /\ \A i \in DOMAIN rows : \A c, d \in Listed(bundle) :
            Matches(i, c, bundle) /\ Matches(i, d, bundle) => c = d
      /\ \A i, j \in DOMAIN rows : \A c \in Listed(bundle) :
            Matches(i, c, bundle) /\ Matches(j, c, bundle) => i = j
      /\ \A i \in DOMAIN rows : \A c \in Listed(bundle) :
            Matches(i, c, bundle) => SyncedRow(i, bundle) = Refreshed(i, c, bundle)
      /\ \A i \in DOMAIN rows :
            (\A c \in Listed(bundle) : ~Matches(i, c, bundle)) => SyncedRow(i, bundle) = Retired(i)
  BY <1>1, Matching
<1>3. new \in NewRooms(order, bundle) /\ rows' = SyncedRows(new, bundle)
  BY DEF bundle
<1>4. /\ rows' \in Seq(Row) /\ DOMAIN rows \subseteq DOMAIN rows'
      /\ \A i \in DOMAIN rows : rows'[i] = SyncedRow(i, bundle)
      /\ \A j \in DOMAIN rows' \ DOMAIN rows :
           \E c \in Unmatched(bundle) : rows'[j] = NewRow(c, bundle.rooms[c])
      /\ \A i, j \in DOMAIN rows' \ DOMAIN rows : rows'[i].core = rows'[j].core => i = j
      /\ \A c \in Unmatched(bundle) :
           \E j \in DOMAIN rows' : rows'[j] = NewRow(c, bundle.rooms[c])
  BY <1>1, <1>3, SyncedRowsAre
<1>5. Listed(bundle) \subseteq DOMAIN bundle.rooms
  BY DEF Listed
<1>6. \A i \in DOMAIN rows : rows[i] \in Row
  BY ElementOfSeq DEF RowsInv
<1>7. \A i \in DOMAIN rows : \A c : /\ Refreshed(i, c, bundle).core = c
                                 /\ Refreshed(i, c, bundle).number = bundle.rooms[c]
                                 /\ Refreshed(i, c, bundle).active
  BY <1>6 DEF Refreshed, Row
<1>8. \A i \in DOMAIN rows : /\ Retired(i).core = rows[i].core
                           /\ Retired(i).number = rows[i].number
                           /\ ~Retired(i).active
  BY <1>6 DEF Retired, Row
\* The row i of room c, old or new.
<1> DEFINE Has(i, c) == /\ rows'[i].core = c /\ rows'[i].number = bundle.rooms[c] /\ rows'[i].active
                        /\ \/ i \in DOMAIN rows /\ Matches(i, c, bundle)
                           \/ i \notin DOMAIN rows /\ c \in Unmatched(bundle)
           Gone(i) == /\ i \in DOMAIN rows /\ ~rows'[i].active
                      /\ rows'[i].core = rows[i].core /\ rows'[i].number = rows[i].number
                      /\ \A c \in Listed(bundle) : ~Matches(i, c, bundle)
<1>9. \A i \in DOMAIN rows' : Gone(i) \/ \E c \in Listed(bundle) : Has(i, c)
  <2> TAKE i \in DOMAIN rows'
  <2>1. CASE i \notin DOMAIN rows
    BY <1>4, <2>1 DEF Unmatched, NewRow
  <2>2. CASE i \in DOMAIN rows /\ \A c \in Listed(bundle) : ~Matches(i, c, bundle)
    BY <1>2, <1>4, <1>8, <2>2
  <2>3. ASSUME i \in DOMAIN rows, NEW c \in Listed(bundle), Matches(i, c, bundle) PROVE Has(i, c)
    BY <1>2, <1>4, <1>7, <2>3
  <2>4. QED
    BY <2>1, <2>2, <2>3
<1>10. \A c \in Listed(bundle) : \E i \in DOMAIN rows' : Has(i, c)
  <2> TAKE c \in Listed(bundle)
  <2>1. ASSUME NEW i \in DOMAIN rows, Matches(i, c, bundle) PROVE Has(i, c) /\ i \in DOMAIN rows'
    BY <1>2, <1>4, <1>7, <2>1
  <2>2. CASE c \in Unmatched(bundle)
    <3>1. PICK j \in DOMAIN rows' : rows'[j] = NewRow(c, bundle.rooms[c])
      BY <1>4, <2>2
    <3>2. j \notin DOMAIN rows
      <4>1. rows'[j].core = c /\ rows'[j].active
        BY <3>1 DEF NewRow
      <4>2. c \in Listed(bundle) /\ \A i \in DOMAIN rows : ~Matches(i, c, bundle)
        BY <2>2 DEF Unmatched
      <4>3. QED
        BY <1>2, <1>4, <1>7, <1>8, <4>1, <4>2
    <3>3. QED
      BY <2>2, <3>1, <3>2 DEF NewRow
  <2>3. QED
    BY <2>1, <2>2 DEF Unmatched
<1>11. ASSUME NEW i \in DOMAIN rows', NEW j \in DOMAIN rows', NEW c \in Listed(bundle), Has(i, c), Has(j, c)
       PROVE  i = j
  BY <1>2, <1>4, <1>11 DEF Unmatched
\* A retired row keeps a core id and a number that no listed room has.
<1>12. ASSUME NEW i \in DOMAIN rows', Gone(i), NEW c \in Listed(bundle)
       PROVE  rows[i].core # c /\ rows[i].number # bundle.rooms[c]
  <2>1. rows[i].core # c /\ ~LeftBehind(i, c, bundle)
    BY <1>12 DEF Matches
  <2>2. \A k \in DOMAIN order : order[k] \in Listed(bundle)
    BY DEF SetToSeqs, bundle
  <2>3. \A k \in DOMAIN order : order[k] # rows[i].core
    BY <1>12, <2>2 DEF Matches
  <2>4. ~Conflict(order, bundle)
    BY DEF bundle
  <2>5. QED
    BY <1>12, <2>1, <2>3, <2>4 DEF Conflict, Holder
<1>13. \A c \in Listed(bundle) : \A d \in Listed(bundle) : bundle.rooms[c] = bundle.rooms[d] => c = d
  BY <1>1, <1>5 DEF Distinct
<1> HIDE DEF Has, Gone
<1>14. ASSUME NEW i \in DOMAIN rows', NEW j \in DOMAIN rows',
              rows'[i].core = rows'[j].core \/ rows'[i].number = rows'[j].number
       PROVE  i = j
  <2>1. CASE Gone(i) /\ Gone(j)
    BY <1>14, <2>1 DEF Gone, RowsInv
  <2>2. ASSUME Gone(i), NEW d \in Listed(bundle), Has(j, d) PROVE FALSE
    <3>1. rows'[i].core # d /\ rows'[i].number # bundle.rooms[d]
      BY <1>12, <2>2 DEF Gone
    <3>2. QED
      BY <1>14, <2>2, <3>1 DEF Has
  <2>3. ASSUME Gone(j), NEW d \in Listed(bundle), Has(i, d) PROVE FALSE
    <3>1. rows'[j].core # d /\ rows'[j].number # bundle.rooms[d]
      BY <1>12, <2>3 DEF Gone
    <3>2. QED
      BY <1>14, <2>3, <3>1 DEF Has
  <2>4. ASSUME NEW c \in Listed(bundle), NEW d \in Listed(bundle), Has(i, c), Has(j, d) PROVE i = j
    <3>1. c = d
      BY <1>13, <1>14, <2>4 DEF Has
    <3>2. QED
      BY <1>11, <2>4, <3>1
  <2>5. QED
    BY <1>9, <2>1, <2>2, <2>3, <2>4
<1>15. ASSUME NEW i \in DOMAIN rows'
       PROVE  \E u \in DOMAIN versions' : /\ rows'[i].core \in DOMAIN versions'[u].rooms
                                        /\ versions'[u].rooms[rows'[i].core] = rows'[i].number
  <2>1. CASE Gone(i)
    BY <2>1 DEF Gone, RowsInv
  <2>2. ASSUME NEW c \in Listed(bundle), Has(i, c)
        PROVE  rows'[i].core \in DOMAIN versions[v].rooms /\ versions[v].rooms[rows'[i].core] = rows'[i].number
    BY <1>5, <2>2 DEF Has, bundle
  <2>3. QED
    BY <1>9, <2>1, <2>2
<1>16. RowsInv'
  BY <1>4, <1>14, <1>15 DEF RowsInv
<1>17. {<<rows'[i].core, rows'[i].number>> : i \in ActiveRows'} = {<<c, bundle.rooms[c]>> : c \in Listed(bundle)}
  <2>1. ASSUME NEW i \in ActiveRows' PROVE \E c \in Listed(bundle) : Has(i, c)
    <3>1. i \in DOMAIN rows' /\ rows'[i].active
      BY DEF ActiveRows
    <3>2. QED
      BY <1>9, <3>1 DEF Gone
  <2>2. ASSUME NEW c \in Listed(bundle) PROVE \E i \in ActiveRows' : Has(i, c)
    BY <1>10, <2>2 DEF Has, ActiveRows
  <2>3. QED
    BY <2>1, <2>2 DEF Has
<1>18. QED
  BY <1>16, <1>17 DEF bundle

\* While nothing is renumbered, the row in use that has a number after a
\* synchronisation is the row that had it before.
LEMMA SyncKeepsChoices ==
    ASSUME RowsInv, CatalogInv, NEW v \in DOMAIN versions, tally.renumbered = 0,
           NEW order, NEW new \in NewRooms(order, versions[v]), rows' = SyncedRows(new, versions[v]),
           NEW i \in ActiveRows, NEW j \in DOMAIN rows',
           rows'[j].active, rows'[j].number = rows[i].number
    PROVE  rows'[j].ota = rows[i].ota /\ rows'[j].guest = rows[i].guest
<1> DEFINE bundle == versions[v]
<1>1. bundle \in Version /\ Distinct(bundle)
  BY ElementOfSeq DEF CatalogInv
<1>2. \A k \in DOMAIN rows : rows[k].core \in DOMAIN bundle.rooms => bundle.rooms[rows[k].core] = rows[k].number
  <2> TAKE k \in DOMAIN rows
  <2>1. PICK u \in DOMAIN versions : /\ rows[k].core \in DOMAIN versions[u].rooms
                                   /\ versions[u].rooms[rows[k].core] = rows[k].number
    BY DEF RowsInv
  <2>2. Agree(versions[u], versions[v])
    BY DEF CatalogInv
  <2>3. QED
    BY <2>1, <2>2 DEF Agree
<1>3. new \in NewRooms(order, bundle) /\ rows' = SyncedRows(new, bundle)
  BY DEF bundle
<1> HIDE DEF bundle
<1>4. i \in DOMAIN rows /\ rows[i] \in Row /\ \A k \in DOMAIN rows : rows[k] \in Row
  BY ElementOfSeq DEF ActiveRows, RowsInv
<1>5. CASE j \in DOMAIN rows
  <2>1. rows'[j] = SyncedRow(j, bundle)
    BY <1>1, <1>3, <1>5, SyncedRowsAre
  <2>2. PICK c \in Listed(bundle) : Matches(j, c, bundle) /\ rows'[j] = Refreshed(j, c, bundle)
    <3>1. ASSUME \A c \in Listed(bundle) : ~Matches(j, c, bundle) PROVE FALSE
      <4>1. rows'[j] = Retired(j)
        BY <1>1, <1>5, <2>1, <3>1, Matching
      <4>2. QED
        BY <1>4, <1>5, <4>1 DEF Retired, Row
    <3>2. QED
      BY <1>1, <1>5, <2>1, <3>1, Matching
  <2>3. /\ rows'[j].number = bundle.rooms[c]
        /\ rows'[j].ota = rows[j].ota /\ rows'[j].guest = rows[j].guest
    BY <1>4, <1>5, <2>2 DEF Refreshed, Row
  <2>4. rows[j].number = bundle.rooms[c]
    BY <1>2, <1>5, <2>2 DEF Matches, LeftBehind, Listed
  <2>5. i = j
    BY <1>4, <1>5, <2>3, <2>4 DEF RowsInv
  <2>6. QED
    BY <2>3, <2>5
<1>6. CASE j \notin DOMAIN rows
  <2>1. PICK c \in Unmatched(bundle) : rows'[j] = NewRow(c, bundle.rooms[c])
    BY <1>1, <1>3, <1>6, SyncedRowsAre
  <2>2. bundle.rooms[c] = rows[i].number
    BY <2>1 DEF NewRow
  <2>3. /\ c \in DOMAIN bundle.rooms /\ RowsOf(c) = {}
        /\ rows[i].core # c /\ ~LeftBehind(i, c, bundle)
    BY <1>4, <2>1 DEF Unmatched, Matches, Listed, RowsOf
  <2>4. rows[i].core \in DOMAIN bundle.rooms
    BY <2>2, <2>3 DEF LeftBehind
  <2>5. bundle.rooms[rows[i].core] = bundle.rooms[c]
    BY <1>2, <1>4, <2>2, <2>4
  <2>6. QED
    BY <1>1, <2>3, <2>4, <2>5 DEF Distinct
<1>7. QED
  BY <1>5, <1>6

-----------------------------------------------------------------------------
(* The invariant of the whole. *)

\* A bundle was fetched while Core gave access.
AccessInv ==
    /\ hotel \in [active : BOOLEAN, access : {"unknown", "trial", "expired", "paid"}]
    /\ enabled \subseteq Types
    /\ \A w \in Workers : work[w].version # 0 =>
         work[w].version \in DOMAIN versions /\ versions[work[w].version].access # "none"
    /\ Mirror

CoreInv == CatalogInv /\ EventInv /\ RowsInv /\ AccessInv

\* The first state.
LEMMA CoreInit == Init => CoreInv
<1> SUFFICES ASSUME Init PROVE CoreInv
  OBVIOUS
<1> DEFINE first == [access |-> "trial", types |-> Types, rooms |-> FirstRooms]
<1>1. versions = <<first>> /\ DOMAIN versions = {1} /\ versions[1] = first
  BY DEF Init
<1>2. first \in Version /\ first.rooms = FirstRooms
  BY FirstRoomsAssumption DEF Version
<1> HIDE DEF first
<1>3. CatalogInv
  <2>1. versions \in Seq(Version) /\ versions # <<>>
    BY <1>1, <1>2
  <2>2. Distinct(versions[1]) /\ Agree(versions[1], versions[1])
    BY <1>1, <1>2, FirstRoomsAssumption DEF Distinct, Agree
  <2>3. tally \in Tally
    BY DEF Init, Tally
  <2>4. QED
    BY <1>1, <2>1, <2>2, <2>3 DEF CatalogInv
<1>4. EventInv
  <2>1. events = <<>> /\ DOMAIN events = {} /\ Len(events) = 0 /\ events \in Seq(EventTypes)
    BY DEF Init
  <2>2. work \in [Workers -> Job] /\ \A w \in Workers : work[w].event = 0
    BY DEF Init, Idle, Job
  <2>3. MaxChanges \in Nat
    BY BoundsAssumption
  <2>4. QED
    BY <2>1, <2>2, <2>3 DEF Init, EventInv, AppliedOnce, Published
<1>5. RowsInv
  <2>1. rows = <<>> /\ DOMAIN rows = {}
    BY DEF Init
  <2>2. QED
    BY <2>1 DEF RowsInv
<1>6. AccessInv
  BY DEF AccessInv, Init, Idle, Mirror
<1>7. QED
  BY <1>3, <1>4, <1>5, <1>6 DEF CoreInv

\* Nothing but what the hotel chose for its rooms changes.
LEMMA SameRows ==
    ASSUME CoreInv, UNCHANGED <<versions, hotel, enabled>>,
           DOMAIN rows' = DOMAIN rows, rows' \in Seq(Row),
           \A i \in DOMAIN rows : /\ rows'[i].core = rows[i].core /\ rows'[i].number = rows[i].number
                                /\ rows'[i].active = rows[i].active
    PROVE  RowsInv' /\ Mirror'
<1>1. RowsInv'
  BY DEF CoreInv, RowsInv
<1>2. {<<rows'[i].core, rows'[i].number>> : i \in ActiveRows'}
        = {<<rows[i].core, rows[i].number>> : i \in ActiveRows}
  BY DEF ActiveRows
<1>3. QED
  BY <1>1, <1>2 DEF CoreInv, AccessInv, Mirror

LEMMA CoreStepInv == CoreInv /\ [Next]_vars => CoreInv'
<1> SUFFICES ASSUME CoreInv, [Next]_vars PROVE CoreInv'
  OBVIOUS
<1>1. CatalogInv /\ EventInv /\ RowsInv /\ AccessInv
  BY DEF CoreInv
<1>2. EventInv'
  BY <1>1, EventStep
<1>3. CASE CoreStep
  <2>1. /\ CatalogInv' /\ DOMAIN versions \subseteq DOMAIN versions'
        /\ \A v \in DOMAIN versions : versions'[v] = versions[v]
        /\ UNCHANGED <<inbox, applied, hotel, enabled, rows, work>>
    BY <1>1, <1>3, CoreStepCatalog
  <2>2. RowsInv'
    BY <1>1, <2>1 DEF RowsInv
  <2>3. Mirror'
    BY <1>1, <2>1 DEF AccessInv, Mirror, ActiveRows, Listed
  <2>4. AccessInv'
    BY <1>1, <2>1, <2>3 DEF AccessInv
  <2>5. QED
    BY <1>2, <2>1, <2>2, <2>4 DEF CoreInv
<1>4. ASSUME UNCHANGED versions, tally' = tally \/ (tally' \in Tally /\ tally'.renumbered = tally.renumbered)
      PROVE  CatalogInv'
  BY <1>1, <1>4 DEF CatalogInv
\* The rows stay as they are.
<1>4a. ASSUME versions' = versions, rows' = rows, hotel' = hotel
      PROVE  RowsInv' /\ Mirror'
  <2>1. RowsInv'
    BY <1>1, <1>4a DEF RowsInv
  <2>2. ActiveRows' = ActiveRows
    BY <1>4a DEF ActiveRows
  <2>3. Mirror'
    BY <1>1, <1>4a, <2>2 DEF AccessInv, Mirror
  <2>4. QED
    BY <2>1, <2>3
\* A worker that begins or ends has fetched nothing.
<1>5. ASSUME NEW w \in Workers, NEW a, work' = [work EXCEPT ![w] = a], a.version = 0, UNCHANGED versions
      PROVE  \A x \in Workers : work'[x].version # 0 =>
               work'[x].version \in DOMAIN versions' /\ versions'[work'[x].version].access # "none"
  <2>1. \A x \in Workers : work'[x] = IF x = w THEN a ELSE work[x]
    BY <1>1, <1>5 DEF EventInv
  <2>2. QED
    BY <1>1, <1>5, <2>1 DEF AccessInv
<1>6. Idle.version = 0
  BY DEF Idle
<1>7. ASSUME NEW w \in Workers, Commit(w) \/ RollBack(w), UNCHANGED <<core, rows, tally>>,
             hotel' \in [active : BOOLEAN, access : {"unknown", "trial", "expired", "paid"}],
             enabled' \subseteq Types, hotel'.access # "unknown" => hotel.access # "unknown"
      PROVE  CoreInv'
  <2>1. work' = [work EXCEPT ![w] = Idle]
    BY <1>7 DEF Commit, RollBack
  <2>2. CatalogInv'
    BY <1>4, <1>7 DEF core
  <2>3. RowsInv' /\ Mirror'
    BY <1>1, <1>7 DEF RowsInv, AccessInv, Mirror, ActiveRows, core
  <2>4. AccessInv'
    BY <1>5, <1>6, <1>7, <2>1, <2>3 DEF AccessInv, core
  <2>5. QED
    BY <1>2, <2>2, <2>3, <2>4 DEF CoreInv
<1>8. ASSUME NEW w \in Workers, NEW job, NEW e, Begin(w, job, e), UNCHANGED <<versions, rows, hotel, enabled>>,
             tally' = tally \/ (tally' \in Tally /\ tally'.renumbered = tally.renumbered)
      PROVE  CoreInv'
  <2> DEFINE a == [job |-> job, event |-> e, version |-> 0]
  <2>1. work' = [work EXCEPT ![w] = a] /\ a.version = 0
    BY <1>8 DEF Begin
  <2> HIDE DEF a
  <2>2. CatalogInv'
    BY <1>4, <1>8
  <2>3. RowsInv' /\ Mirror'
    <3>1. versions' = versions /\ rows' = rows /\ hotel' = hotel
      BY <1>8
    <3>2. QED
      BY <1>4a, <3>1
  <2>4. AccessInv'
    BY <1>1, <1>5, <1>8, <2>1, <2>3 DEF AccessInv
  <2>5. QED
    BY <1>2, <2>2, <2>3, <2>4 DEF CoreInv
<1>9. ASSUME NEW w \in Workers, NEW e \in Published, Deliver(w, e) PROVE CoreInv'
  BY <1>8, <1>9 DEF Deliver, Claim, core, projection
<1>10. ASSUME NEW w \in Workers, NEW job \in {"manual", "catalog"}, StartSync(w, job) PROVE CoreInv'
  <2>1. tally' \in Tally /\ tally'.renumbered = tally.renumbered
    BY <1>1, <1>10 DEF StartSync, CatalogInv, Tally
  <2>2. QED
    BY <1>8, <1>10, <2>1 DEF StartSync, core, projection
<1>11. ASSUME NEW w \in Workers, Fails(w) PROVE CoreInv'
  <2>1. tally' \in Tally /\ tally'.renumbered = tally.renumbered
    BY <1>1, <1>11 DEF Fails, CatalogInv, Tally
  <2>2. work' = [work EXCEPT ![w] = Idle] /\ UNCHANGED <<versions, hotel, enabled, rows>>
    BY <1>11 DEF Fails, RollBack, core, projection
  <2>3. CatalogInv'
    BY <1>4, <2>1, <2>2
  <2>4. RowsInv' /\ Mirror'
    BY <1>4a, <2>2
  <2>5. AccessInv'
    BY <1>1, <1>5, <1>6, <2>2, <2>4 DEF AccessInv
  <2>6. QED
    BY <1>2, <2>3, <2>4, <2>5 DEF CoreInv
<1>12. ASSUME NEW w \in Workers, Deprovision(w) PROVE CoreInv'
  <2>1. hotel' \in [active : BOOLEAN, access : {"unknown", "trial", "expired", "paid"}]
        /\ hotel'.access = hotel.access
    BY <1>1, <1>12 DEF Deprovision, AccessInv
  <2>2. QED
    BY <1>7, <1>12, <2>1 DEF Deprovision
<1>13. ASSUME NEW w \in Workers, ExpireTrial(w) PROVE CoreInv'
  <2>1. hotel' \in [active : BOOLEAN, access : {"unknown", "trial", "expired", "paid"}]
        /\ (hotel'.access # "unknown" => hotel.access # "unknown")
    BY <1>1, <1>13 DEF ExpireTrial, AccessInv
  <2>2. QED
    BY <1>1, <1>7, <1>13, <2>1 DEF ExpireTrial, AccessInv
<1>14. ASSUME NEW w \in Workers, Refused(w) PROVE CoreInv'
  BY <1>1, <1>7, <1>14 DEF Refused, RollBack, projection, AccessInv
<1>15. ASSUME NEW w \in Workers, Fetch(w) PROVE CoreInv'
  <2>1. /\ work' = [work EXCEPT ![w].version = Len(versions)] /\ Core.access # "none"
        /\ UNCHANGED <<versions, hotel, enabled, rows, tally>>
    BY <1>15 DEF Fetch, core, projection
  <2>2. Len(versions) \in DOMAIN versions /\ versions[Len(versions)].access # "none"
    BY <1>1, <2>1, CoreIsAVersion
  <2>3. \A x \in Workers : work'[x].version = IF x = w THEN Len(versions) ELSE work[x].version
    BY <1>1, <2>1 DEF EventInv, Job
  <2>4. CatalogInv' /\ RowsInv' /\ Mirror'
    BY <1>1, <1>4, <2>1 DEF RowsInv, AccessInv, Mirror, ActiveRows
  <2>5. AccessInv'
    BY <1>1, <2>1, <2>2, <2>3, <2>4 DEF AccessInv
  <2>6. QED
    BY <1>2, <2>4, <2>5 DEF CoreInv
<1>16. ASSUME NEW w \in Workers, Apply(w) PROVE CoreInv'
  <2> DEFINE v == work[w].version
             bundle == versions[v]
  <2>1. /\ v \in DOMAIN versions /\ bundle.access # "none"
        /\ bundle \in Version
    BY <1>1, <1>16, ElementOfSeq DEF Apply, AccessInv, CatalogInv
  <2>2. UNCHANGED <<core, tally>> /\ CatalogInv'
    BY <1>4, <1>16 DEF Apply, core
  <2>3. CASE RollBack(w)
    BY <1>1, <1>7, <2>2, <2>3 DEF RollBack, projection, AccessInv
  <2>4. ASSUME NEW order \in SetToSeqs(Listed(bundle)), ~Conflict(order, bundle),
               NEW new \in NewRooms(order, bundle), rows' = SyncedRows(new, bundle),
               hotel' = [active |-> TRUE, access |-> AccessAfter(w, bundle)],
               enabled' = bundle.types, Commit(w)
        PROVE  CoreInv'
    <3>1. hotel' \in [active : BOOLEAN, access : {"unknown", "trial", "expired", "paid"}]
      <4>1. hotel.access \in {"unknown", "trial", "expired", "paid"}
        BY <1>1 DEF AccessInv
      <4>2. bundle.access \in {"trial", "paid"}
        BY <2>1 DEF Version
      <4>3. AccessAfter(w, bundle) \in {"unknown", "trial", "expired", "paid"}
        BY <4>1, <4>2 DEF AccessAfter
      <4>4. QED
        BY <2>4, <4>3
    <3>2. enabled' \subseteq Types
      BY <2>1, <2>4 DEF Version
    <3>3. /\ RowsInv'
          /\ {<<rows'[i].core, rows'[i].number>> : i \in ActiveRows'}
                = {<<c, bundle.rooms[c]>> : c \in Listed(bundle)}
      <4> HIDE DEF v
      <4>1. QED
        BY <1>1, <2>1, <2>2, <2>4, SyncKeepsRows DEF core
    <3>4. Mirror'
      BY <2>1, <2>2, <3>3 DEF Mirror, core, Listed
    <3>5. work' = [work EXCEPT ![w] = Idle]
      BY <2>4 DEF Commit
    <3>6. AccessInv'
      BY <1>5, <1>6, <2>2, <3>1, <3>2, <3>4, <3>5 DEF AccessInv, core
    <3>7. QED
      BY <1>2, <2>2, <3>3, <3>6 DEF CoreInv
  <2>5. QED
    BY <1>16, <2>3, <2>4 DEF Apply
<1>17. ASSUME NEW i \in DOMAIN rows, OfferOnline(i) \/ AssignGuest(i) PROVE CoreInv'
  <2>1. /\ UNCHANGED <<versions, hotel, enabled, work>>
        /\ rows' = [rows EXCEPT ![i].ota = TRUE] \/ rows' = [rows EXCEPT ![i].guest = TRUE]
        /\ tally' = [tally EXCEPT !.choices = @ + 1]
    BY <1>17 DEF OfferOnline, AssignGuest, core
  <2>2. tally' \in Tally /\ tally'.renumbered = tally.renumbered
    BY <1>1, <2>1 DEF CatalogInv, Tally
  <2>3. CatalogInv'
    BY <1>4, <2>1, <2>2
  <2>4. rows \in Seq(Row) /\ \A k \in DOMAIN rows : rows[k] \in Row
    BY <1>1, ElementOfSeq DEF RowsInv
  <2>5. PICK r \in Row : /\ rows' = [rows EXCEPT ![i] = r] /\ r.core = rows[i].core
                         /\ r.number = rows[i].number /\ r.active = rows[i].active
    <3>1. [rows[i] EXCEPT !.ota = TRUE] \in Row /\ [rows[i] EXCEPT !.guest = TRUE] \in Row
      BY <2>4 DEF Row
    <3>2. QED
      BY <2>1, <2>4, <3>1 DEF Row
  <2>6. rows' \in Seq(Row) /\ DOMAIN rows' = DOMAIN rows
    BY <2>4, <2>5, ExceptSeq, LenProperties
  <2>7. \A k \in DOMAIN rows : rows'[k] = IF k = i THEN r ELSE rows[k]
    BY <2>5
  <2>8. RowsInv' /\ Mirror'
    BY <2>1, <2>5, <2>6, <2>7, SameRows
  <2>9. AccessInv'
    BY <1>1, <2>1, <2>8 DEF AccessInv
  <2>10. QED
    BY <1>2, <2>3, <2>8, <2>9 DEF CoreInv
<1>18. CASE UNCHANGED vars
  <2>1. CatalogInv'
    BY <1>4, <1>18 DEF vars
  <2>2. RowsInv' /\ Mirror'
    BY <1>1, <1>18 DEF vars, RowsInv, AccessInv, Mirror, ActiveRows
  <2>3. AccessInv'
    BY <1>1, <1>18, <2>2 DEF vars, AccessInv
  <2>4. QED
    BY <1>2, <2>1, <2>2, <2>3 DEF CoreInv
<1>19. QED
  BY <1>3, <1>9, <1>10, <1>11, <1>12, <1>13, <1>14, <1>15, <1>16, <1>17, <1>18 DEF Next, WorkerStep

-----------------------------------------------------------------------------
(* The theorems. *)

\* The claims, the rows and the access stay consistent in every state: a
\* delivery's claim, what it writes and the end of both belong together
\* (CoreEventView.post, sync_business_from_core).
THEOREM CoreInvariant == Spec => []CoreInv
<1>1. QED
  BY CoreInit, CoreStepInv, PTL DEF Spec

\* However many workers deliver an event, concurrently and again after a
\* failure, it takes effect once (CoreEventView.post, views.py:4059-4064).
THEOREM EventsApplyOnce == Spec => []AppliedOnce
<1>1. CoreInv => AppliedOnce
  BY DEF CoreInv, EventInv
<1>2. QED
  BY <1>1, CoreInvariant, PTL

\* The rooms in use are those of one version of the catalogue, each number and
\* each Core room on one row, in whatever order Core lists its rooms
\* (sync_business_from_core).
THEOREM RoomsMirrorCore == Spec => []RoomsMirrorOneVersion
<1>1. CoreInv => RoomsMirrorOneVersion
  <2> SUFFICES ASSUME CoreInv PROVE RoomsMirrorOneVersion
    OBVIOUS
  <2>1. \A i \in DOMAIN rows : rows[i] \in Row
    BY ElementOfSeq DEF CoreInv, RowsInv
  <2>2. CoreTypeOK
    BY <2>1 DEF CoreInv, EventInv, RowsInv, AccessInv, CoreTypeOK, Row
  <2>3. QED
    BY <2>2 DEF CoreInv, AccessInv, Mirror, RoomsMirrorOneVersion
<1>2. QED
  BY <1>1, CoreInvariant, PTL

\* What the hotel chose for a room, and the guest in it, stay with the number
\* on its door, through deletions, new rooms and retries, as long as Core
\* renumbers nothing (sync_business_from_core, core.py:418-422, 473-476).
THEOREM ChoicesStay == Spec => ChoicesStayWithTheDoor
<1> DEFINE Kept == tally.renumbered = 0 =>
                     \A i \in ActiveRows, j \in DOMAIN rows' :
                        rows'[j].active /\ rows'[j].number = rows[i].number
                          => (rows[i].ota => rows'[j].ota) /\ (rows[i].guest => rows'[j].guest)
<1>1. CoreInv /\ [Next]_vars => [Kept]_vars
  <2> SUFFICES ASSUME CoreInv, Next, tally.renumbered = 0, NEW i \in ActiveRows, NEW j \in DOMAIN rows',
                      rows'[j].active, rows'[j].number = rows[i].number
               PROVE  (rows[i].ota => rows'[j].ota) /\ (rows[i].guest => rows'[j].guest)
    OBVIOUS
  <2>1. /\ CatalogInv /\ RowsInv /\ AccessInv /\ i \in DOMAIN rows
        /\ \A k \in DOMAIN rows : rows[k] \in Row
        /\ \A k \in DOMAIN rows : rows[k].number = rows[i].number => k = i
    BY ElementOfSeq DEF CoreInv, RowsInv, ActiveRows
  <2>2. CASE UNCHANGED rows
    BY <2>1, <2>2
  <2>3. ASSUME NEW k \in DOMAIN rows, OfferOnline(k) \/ AssignGuest(k)
        PROVE  (rows[i].ota => rows'[j].ota) /\ (rows[i].guest => rows'[j].guest)
    <3>1. rows' = [rows EXCEPT ![k].ota = TRUE] \/ rows' = [rows EXCEPT ![k].guest = TRUE]
      BY <2>3 DEF OfferOnline, AssignGuest
    <3>2. j \in DOMAIN rows
      BY <3>1
    <3>3. rows'[j] \in {rows[j], [rows[j] EXCEPT !.ota = TRUE], [rows[j] EXCEPT !.guest = TRUE]}
      BY <3>1, <3>2
    <3>4. /\ rows'[j].number = rows[j].number
          /\ (rows[j].ota => rows'[j].ota) /\ (rows[j].guest => rows'[j].guest)
      <4>1. rows[j] \in Row
        BY <2>1, <3>2
      <4>2. QED
        BY <3>3, <4>1 DEF Row
    <3>5. QED
      BY <2>1, <3>2, <3>4
  <2>4. ASSUME NEW w \in Workers, Apply(w)
        PROVE  (rows[i].ota => rows'[j].ota) /\ (rows[i].guest => rows'[j].guest)
    <3> DEFINE v == work[w].version
    <3>1. v \in DOMAIN versions
      BY <2>1, <2>4 DEF Apply, AccessInv
    <3> HIDE DEF v
    <3>2. \/ UNCHANGED rows
          \/ \E order : \E new \in NewRooms(order, versions[v]) : rows' = SyncedRows(new, versions[v])
      BY <2>4 DEF Apply, RollBack, projection, v
    <3>3. QED
      BY <2>1, <2>2, <3>1, <3>2, SyncKeepsChoices
  <2>5. \/ UNCHANGED rows
        \/ \E k \in DOMAIN rows : OfferOnline(k) \/ AssignGuest(k)
        \/ \E w \in Workers : Apply(w)
    <3>1. CoreStep => UNCHANGED rows
      BY DEF CoreStep, Subscribe, Revoke, TrialEnds, RemoveRoom, AddRoom, Renumber, RemoveType, CoreChanges
    <3>2. \A w \in Workers : (\E e \in Published : Deliver(w, e)) \/ (\E job \in {"manual", "catalog"} : StartSync(w, job))
              \/ Fails(w) \/ Deprovision(w) \/ ExpireTrial(w) \/ Fetch(w) \/ Refused(w) => UNCHANGED rows
      BY DEF Deliver, StartSync, Fails, Deprovision, ExpireTrial, Fetch, Refused, RollBack, projection
    <3>3. QED
      BY <3>1, <3>2 DEF Next, WorkerStep
  <2>6. QED
    BY <2>2, <2>3, <2>4, <2>5
<1>2. QED
  BY <1>1, CoreInvariant, PTL DEF Spec, ChoicesStayWithTheDoor
=============================================================================
