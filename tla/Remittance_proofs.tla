------------------------- MODULE Remittance_proofs -------------------------
(***************************************************************************)
(* Proofs about Remittance and its views, for all payments, dates and      *)
(* workers and any number of requests.                                     *)
(***************************************************************************)
EXTENDS RemittanceViews, Sums_proofs

-----------------------------------------------------------------------------
(* Periods. *)

\* The assumptions about dates and amounts.
LEMMA DatesOK == Dates \subseteq Nat /\ Dates # {} /\ IsFiniteSet(Dates) /\ Amount \in Nat \ {0}
BY RemittanceAssumption

\* The Monday of a day begins its week.
LEMMA MondayOfDay ==
    ASSUME NEW d \in Int
    PROVE  /\ Monday(d) \in Int /\ Monday(d) % 7 = 0
           /\ Monday(d) <= d /\ d <= Monday(d) + 6
           /\ d \in Nat => Monday(d) \in Nat
BY DEF Monday

\* Two days of a week have the same Monday.
LEMMA SameMonday ==
    ASSUME NEW d \in Int, NEW m \in Int, m % 7 = 0, m <= d, d <= m + 6
    PROVE  Monday(d) = m
BY DEF Monday

\* The periods of a week lie in it, one after the other.
LEMMA PeriodsOfWeek ==
    ASSUME NEW opt \in PayoutOptions, NEW m \in Int
    PROVE  \A p \in PayoutPeriods(opt, m) :
             /\ p \in Int \X Int /\ m <= p[1] /\ p[1] <= p[2] /\ p[2] <= m + 6
             /\ \A q \in PayoutPeriods(opt, m) : p[1] < q[1] => p[2] < q[1]
BY DEF PayoutOptions, PayoutPeriods

\* Each day is in a period of its week.
LEMMA ActiveOfDay ==
    ASSUME NEW opt \in PayoutOptions, NEW d \in Int
    PROVE  /\ ActiveUnder(opt, d) \in PayoutPeriods(opt, Monday(d))
           /\ ActiveUnder(opt, d) \in Int \X Int
           /\ ActiveUnder(opt, d)[1] <= d /\ d <= ActiveUnder(opt, d)[2]
           /\ Monday(d) <= ActiveUnder(opt, d)[1] /\ ActiveUnder(opt, d)[2] <= Monday(d) + 6
<1> DEFINE m == Monday(d)
<1>1. m \in Int /\ m <= d /\ d <= m + 6
  BY MondayOfDay
<1> HIDE DEF m
<1>2. \E p \in PayoutPeriods(opt, m) : p[1] <= d /\ d <= p[2]
  <2>1. CASE opt = "weekly"
    <3>1. <<m, m + 6>> \in PayoutPeriods(opt, m)
      BY <2>1 DEF PayoutPeriods
    <3>2. QED
      BY <1>1, <3>1
  <2>2. CASE opt = "twice_weekly"
    <3>1. <<m, m + 2>> \in PayoutPeriods(opt, m) /\ <<m + 3, m + 6>> \in PayoutPeriods(opt, m)
      BY <2>2 DEF PayoutPeriods
    <3>2. QED
      BY <1>1, <3>1
  <2>3. CASE opt = "three_times_weekly"
    <3>1. /\ <<m, m + 1>> \in PayoutPeriods(opt, m) /\ <<m + 2, m + 3>> \in PayoutPeriods(opt, m)
          /\ <<m + 4, m + 6>> \in PayoutPeriods(opt, m)
      BY <2>3 DEF PayoutPeriods
    <3>2. QED
      BY <1>1, <3>1
  <2>4. QED
    BY <2>1, <2>2, <2>3 DEF PayoutOptions
<1>3. ActiveUnder(opt, d) \in PayoutPeriods(opt, m) /\ ActiveUnder(opt, d)[1] <= d /\ d <= ActiveUnder(opt, d)[2]
  BY <1>2 DEF ActiveUnder, m
<1>4. QED
  BY <1>1, <1>3, PeriodsOfWeek DEF m

\* The periods of every week that has a date are known.
LEMMA KnownPeriods ==
    /\ \A opt \in PayoutOptions, d \in Dates : PayoutPeriods(opt, Monday(d)) \subseteq Periods
    /\ \A p \in Periods : p \in Int \X Int /\ p[1] <= p[2] /\ p # NoPeriod
    /\ Periods # {}
<1>1. \A opt \in PayoutOptions, d \in Dates : PayoutPeriods(opt, Monday(d)) \subseteq Periods
  BY DEF Periods, Mondays
<1>2. ASSUME NEW p \in Periods
      PROVE  p \in Int \X Int /\ p[1] <= p[2] /\ p # NoPeriod
  <2>1. PICK opt \in PayoutOptions, m \in Mondays : p \in PayoutPeriods(opt, m)
    BY <1>2 DEF Periods
  <2>2. m \in Int
    BY <2>1, DatesOK, MondayOfDay DEF Mondays
  <2>3. p \in Int \X Int /\ p[1] <= p[2]
    BY <2>1, <2>2, PeriodsOfWeek
  <2>4. p # NoPeriod
    BY <2>3 DEF NoPeriod
  <2>5. QED
    BY <2>3, <2>4
<1>3. Periods # {}
  <2>1. PICK d \in Dates : TRUE
    BY DatesOK
  <2>2. PICK opt \in PayoutOptions : opt = "weekly"
    BY DEF PayoutOptions
  <2>3. <<Monday(d), Monday(d) + 6>> \in PayoutPeriods(opt, Monday(d))
    BY <2>2 DEF PayoutPeriods
  <2>4. QED
    BY <1>1, <2>3
<1>4. QED
  BY <1>1, <1>2, <1>3

\* There are finitely many periods and entries, so that sums and folds over them
\* are what one expects.
LEMMA PeriodsBegin == \A p \in Periods : p[1] \in Nat
<1>1. ASSUME NEW p \in Periods PROVE p[1] \in Nat
  <2>1. PICK opt \in PayoutOptions, d \in Dates : p \in PayoutPeriods(opt, Monday(d))
    BY <1>1 DEF Periods, Mondays
  <2>2. Monday(d) \in Nat
    BY DatesOK, MondayOfDay
  <2>3. p[1] \in {Monday(d), Monday(d) + 2, Monday(d) + 3, Monday(d) + 4}
    BY <2>1 DEF PayoutPeriods, PayoutOptions
  <2>4. QED
    BY <2>2, <2>3
<1>2. QED
  BY <1>1

LEMMA PeriodsFinite == IsFiniteSet(Periods)
<1> DEFINE days == 0 .. LastDate + 6
<1>1. LastDate \in Dates /\ \A d \in Dates : d <= LastDate
  <2>1. Dates \subseteq Int
    BY DatesOK
  <2>2. Max(Dates) \in Dates /\ \A d \in Dates : Max(Dates) >= d
    BY ONLY <2>1, DatesOK, GreatestOne
  <2>3. QED
    BY <2>1, <2>2 DEF LastDate
<1> HIDE DEF days
<1>2. ASSUME NEW p \in Periods PROVE p \in days \X days
  <2>1. PICK opt \in PayoutOptions, d \in Dates : p \in PayoutPeriods(opt, Monday(d))
    BY <1>2 DEF Periods, Mondays
  <2>2. Monday(d) \in Nat /\ Monday(d) <= d /\ d <= LastDate /\ d \in Nat /\ LastDate \in Nat
    BY <1>1, DatesOK, MondayOfDay
  <2>3. p \in Int \X Int /\ Monday(d) <= p[1] /\ p[1] <= p[2] /\ p[2] <= Monday(d) + 6
    BY <2>2, PeriodsOfWeek, <2>1
  <2>4. p[1] \in days /\ p[2] \in days
    BY <2>2, <2>3 DEF days
  <2>5. QED
    BY <2>3, <2>4
<1>3. IsFiniteSet(days \X days)
  <2>1. IsFiniteSet(days)
    BY <1>1, DatesOK, FS_Interval DEF days
  <2>2. QED
    BY <2>1, FS_Product
<1>4. Periods \subseteq days \X days
  BY <1>2
<1>5. QED
  BY <1>3, <1>4, FS_Subset

LEMMA EntriesFinite == IsFiniteSet(Entries)
<1>1. IsFiniteSet(Kinds)
  <2>1. /\ IsFiniteSet({})
        /\ Kinds = ((({} \cup {"held"}) \cup {"collection"}) \cup {"release"}) \cup {"refund"}
    BY FS_EmptySet DEF Kinds
  <2>2. QED
    BY <2>1, FS_AddElement
<1>2. QED
  BY <1>1, RemittanceAssumption, FS_Product DEF Entries

\* The period that begins first.
LEMMA FirstPeriod ==
    ASSUME NEW S, S \subseteq Periods, S # {}
    PROVE  First(S) \in S /\ \A q \in S : First(S)[1] <= q[1]
<1> DEFINE starts == {p[1] : p \in S}
<1>1. starts \subseteq Int /\ starts # {}
  BY KnownPeriods
<1>2. IsFiniteSet(starts)
  <2>1. IsFiniteSet(S)
    BY PeriodsFinite, FS_Subset
  <2> DEFINE f == [p \in S |-> p[1]]
  <2>2. f \in Surjection(S, starts)
    BY DEF Surjection
  <2> HIDE DEF starts, f
  <2>3. QED
    BY <2>1, <2>2, FS_Surjection
<1>3. Min(starts) \in starts /\ \A y \in starts : Min(starts) <= y
  <2> HIDE DEF starts
  <2>1. QED
    BY <1>1, <1>2, LeastOne
<1>4. PICK p \in S : p[1] = Min(starts)
  BY <1>3
<1>5. \A q \in S : p[1] <= q[1]
  BY <1>3, <1>4
<1>6. QED
  BY <1>5 DEF First

-----------------------------------------------------------------------------
(* Statements written one after the other. *)

\* The equation of the fold WrittenAnew.
FoldEquation(b, S, active, books_after) ==
    [s \in SUBSET S |->
       IF s = {} THEN b
       ELSE Generated(books_after[s \ {Taken(s)}], Taken(s), Taken(s) \in active)]

\* What the fold gives when its equation has a solution u over S.
LEMMA FoldIsSolution ==
    ASSUME NEW b, NEW S, NEW active
    PROVE  WrittenAnew(b, S, active) = (CHOOSE u : u = FoldEquation(b, S, active, u))[S]
BY DEF WrittenAnew, FoldSet, MapThenFoldSet, FoldEquation, Taken

\* The equation has at most one solution.
LEMMA OneFold ==
    ASSUME NEW b, NEW S, IsFiniteSet(S), NEW active,
           NEW u, u = FoldEquation(b, S, active, u), NEW v, v = FoldEquation(b, S, active, v)
    PROVE  u = v
<1> DEFINE T == {s \in SUBSET S : u[s] # v[s]}
<1>1. ASSUME T # {} PROVE FALSE
  <2>1. PICK A \in T : \A B \in T : B \subseteq A => B = A
    <3>1. T \in SUBSET SUBSET S
      OBVIOUS
    <3> HIDE DEF T
    <3>2. QED
      BY <1>1, <3>1, SmallestSet
  <2>2. A # {} /\ A \in SUBSET S
    BY <2>1 DEF FoldEquation
  <2>3. A \ {Taken(A)} \notin T /\ A \ {Taken(A)} \in SUBSET S
    BY <2>1, <2>2, FirstIn
  <2>4. /\ u[A] = Generated(u[A \ {Taken(A)}], Taken(A), Taken(A) \in active)
        /\ v[A] = Generated(v[A \ {Taken(A)}], Taken(A), Taken(A) \in active)
    BY <2>2 DEF FoldEquation
  <2>5. QED
    BY <2>1, <2>3, <2>4
<1>2. \A s \in SUBSET S : u[s] = v[s]
  BY <1>1
<1>3. QED
  BY <1>2 DEF FoldEquation

\* The same, as the fold of the community modules computes it.
FoldBySolution(b, S, active) == (CHOOSE u : u = FoldEquation(b, S, active, u))[S]

\* A solution over S gives the fold over each of its subsets.
LEMMA FoldOfSolution ==
    ASSUME NEW b, NEW S, IsFiniteSet(S), NEW active, NEW u, u = FoldEquation(b, S, active, u),
           NEW D \in SUBSET S
    PROVE  FoldBySolution(b, D, active) = u[D]
<1> DEFINE d == [s \in SUBSET D |-> u[s]]
<1>1. d = FoldEquation(b, D, active, d)
  <2>1. \A s \in SUBSET D : s # {} => s \ {Taken(s)} \in SUBSET D
    OBVIOUS
  <2>2. \A s \in SUBSET D :
          d[s] = IF s = {} THEN b ELSE Generated(u[s \ {Taken(s)}], Taken(s), Taken(s) \in active)
    BY DEF FoldEquation
  <2>3. \A s \in SUBSET D :
          d[s] = IF s = {} THEN b ELSE Generated(d[s \ {Taken(s)}], Taken(s), Taken(s) \in active)
    BY <2>1, <2>2
  <2>4. QED
    BY <2>3 DEF FoldEquation
<1>2. IsFiniteSet(D)
  BY FS_Subset
<1>3. d[D] = u[D]
  OBVIOUS
<1> HIDE DEF d
<1> DEFINE v == CHOOSE w : w = FoldEquation(b, D, active, w)
<1>4. v = FoldEquation(b, D, active, v)
  BY <1>1
<1> HIDE DEF v
<1>5. v = d
  BY <1>1, <1>2, <1>4, OneFold
<1>6. QED
  BY <1>3, <1>5 DEF FoldBySolution, v

\* The equation has a solution.
LEMMA FoldExists ==
    ASSUME NEW b, NEW S, IsFiniteSet(S), NEW active
    PROVE  \E u : u = FoldEquation(b, S, active, u)
<1> DEFINE Solvable(A) == \E u : u = FoldEquation(b, A, active, u)
           T == {A \in SUBSET S : ~Solvable(A)}
           F(A) == FoldBySolution(b, A, active)
           G(A) == Generated(F(A \ {Taken(A)}), Taken(A), Taken(A) \in active)
<1>1. ASSUME T # {} PROVE FALSE
  <2>1. PICK A \in T : \A B \in T : B \subseteq A => B = A
    <3>1. T \in SUBSET SUBSET S
      OBVIOUS
    <3> HIDE DEF T
    <3>2. QED
      BY <1>1, <3>1, SmallestSet
  <2>2. A \in SUBSET S /\ ~Solvable(A)
    BY <2>1
  <2>3. \A B \in SUBSET A : B # A => Solvable(B)
    BY <2>1
  <2>4. ASSUME NEW B \in SUBSET A, B # A
        PROVE  F(B) = IF B = {} THEN b ELSE G(B)
    <3>1. PICK u : u = FoldEquation(b, B, active, u)
      BY <2>3, <2>4
    <3>2. IsFiniteSet(B)
      BY <2>2, FS_Subset
    <3>3. B \in SUBSET B /\ B \ {Taken(B)} \in SUBSET B
      OBVIOUS
    <3>4. u[B] = IF B = {} THEN b ELSE Generated(u[B \ {Taken(B)}], Taken(B), Taken(B) \in active)
      BY <3>1 DEF FoldEquation
    <3>5. F(B) = u[B] /\ F(B \ {Taken(B)}) = u[B \ {Taken(B)}]
      BY <3>1, <3>2, <3>3, FoldOfSolution
    <3>6. QED
      BY <3>4, <3>5
  <2> DEFINE u == [s \in SUBSET A |-> IF s = A THEN IF A = {} THEN b ELSE G(A) ELSE F(s)]
  <2>5. \A s \in SUBSET A : s # {} => s \ {Taken(s)} \in SUBSET A /\ s \ {Taken(s)} # A
    BY FirstIn
  <2>6. \A s \in SUBSET A : u[s] = IF s = {} THEN b ELSE G(s)
    BY <2>4
  <2>7. \A s \in SUBSET A : s # {} => u[s \ {Taken(s)}] = F(s \ {Taken(s)})
    BY <2>5
  <2>8. u = FoldEquation(b, A, active, u)
    <3>1. u = [s \in SUBSET A |-> u[s]]
      OBVIOUS
    <3> HIDE DEF u
    <3>2. \A s \in SUBSET A : u[s] = IF s = {} THEN b
            ELSE Generated(u[s \ {Taken(s)}], Taken(s), Taken(s) \in active)
      BY <2>6, <2>7
    <3>3. QED
      BY <3>1, <3>2 DEF FoldEquation
  <2>9. QED
    BY <2>2, <2>8
<1>2. S \notin T
  BY <1>1
<1>3. QED
  BY <1>2

\* If D[T] has the books once the statements of T are written, as each statement
\* written shows, then all are written in D[S].
LEMMA WrittenOneByOne ==
    ASSUME NEW S, IsFiniteSet(S), NEW active, NEW D, NEW b \in D[{}],
           \A T \in SUBSET S : \A p \in T : \A c \in D[T \ {p}] :
             Generated(c, p, p \in active) \in D[T]
    PROVE  WrittenAnew(b, S, active) \in D[S]
<1>1. PICK u : u = FoldEquation(b, S, active, u)
  BY FoldExists
<1> DEFINE T == {A \in SUBSET S : u[A] \notin D[A]}
<1>2. ASSUME T # {} PROVE FALSE
  <2>1. PICK A \in T : \A B \in T : B \subseteq A => B = A
    <3>1. T \in SUBSET SUBSET S
      OBVIOUS
    <3> HIDE DEF T
    <3>2. QED
      BY <1>2, <3>1, SmallestSet
  <2>2. A # {} /\ A \in SUBSET S
    BY <1>1, <2>1 DEF FoldEquation
  <2>3. Taken(A) \in A /\ u[A] = Generated(u[A \ {Taken(A)}], Taken(A), Taken(A) \in active)
    BY <1>1, <2>2, FirstIn DEF FoldEquation
  <2>4. A \ {Taken(A)} \notin T /\ A \ {Taken(A)} \in SUBSET S
    BY <2>1, <2>2, <2>3
  <2>5. QED
    BY <2>1, <2>2, <2>3, <2>4
<1>3. u[S] \in D[S]
  BY <1>2
<1>4. FoldBySolution(b, S, active) = u[S]
  BY <1>1, FoldOfSolution
<1>5. QED
  BY <1>3, <1>4, FoldIsSolution DEF FoldBySolution

-----------------------------------------------------------------------------
(* The books. *)

Statements == [status : Statuses, gross : Nat, refund : Nat, adjustment : Adjustments, net : Int,
               was_paid : BOOLEAN]

Books ==
  [ledger : [Entries -> [effective : Int, refund : 0 .. Amount]],
   item : [Entries -> [period : Periods \cup {NoPeriod}, gross : {0, Amount}, refund : 0 .. Amount]],
   statement : [Periods -> Statements],
   settlement : [Payments -> Settlements]]

\* An item is of an entry of the ledger that is not held, with the gross amount
\* of its kind; only refunds are refunds.
ItemSound(b, e) ==
  /\ b.item[e].period = NoPeriod => b.item[e] = NoItem
  /\ b.item[e].period # NoPeriod =>
       b.ledger[e] # NoEntry /\ e[2] # "held" /\ b.item[e].gross = Gross(e[2])
  /\ e[2] # "refund" => b.item[e].refund = 0 /\ b.ledger[e].refund = 0

\* What the items of a statement come to.
ItemsGross(b, p) == SumFunctionOnSet([e \in Entries |-> b.item[e].gross], ItemsOf(b, p))
ItemsRefund(b, p) == SumFunctionOnSet([e \in Entries |-> b.item[e].refund], ItemsOf(b, p))

\* A statement claims no more than that.
ClaimListed(b, p) ==
  b.statement[p].gross <= ItemsGross(b, p) /\ b.statement[p].refund <= ItemsRefund(b, p)

\* Nothing else is wrong with the books when a late write has robbed a statement.
SoundBooks ==
  {b \in Books : (\A e \in Entries : ItemSound(b, e)) /\ (\A p \in Periods \ robbed : ClaimListed(b, p))}

\* What is claimed depends on the items alone.
LEMMA SameItems ==
    ASSUME NEW b, NEW c, NEW p, ItemsOf(c, p) = ItemsOf(b, p),
           \A e \in ItemsOf(b, p) : c.item[e] = b.item[e]
    PROVE  ItemsGross(c, p) = ItemsGross(b, p) /\ ItemsRefund(c, p) = ItemsRefund(b, p)
<1> DEFINE g(x) == [e \in Entries |-> x.item[e].gross]
           r(x) == [e \in Entries |-> x.item[e].refund]
<1>1. \A e \in ItemsOf(b, p) : g(c)[e] = g(b)[e] /\ r(c)[e] = r(b)[e]
  BY DEF ItemsOf
<1> HIDE DEF g, r
<1>2. /\ SumFunctionOnSet(g(c), ItemsOf(b, p)) = SumFunctionOnSet(g(b), ItemsOf(b, p))
      /\ SumFunctionOnSet(r(c), ItemsOf(b, p)) = SumFunctionOnSet(r(b), ItemsOf(b, p))
  BY <1>1, SumSame
<1>3. QED
  BY <1>2 DEF ItemsGross, ItemsRefund, g, r

\* What generate_weekly_remittance adds up.
LEMMA TotalsOK ==
    ASSUME NEW b \in Books, NEW entries, entries \subseteq Entries, NEW s \in Statements,
           NEW accruing \in BOOLEAN
    PROVE  /\ Totals(b, entries, s, accruing) \in Statements
           /\ Totals(b, entries, s, accruing).status = IF accruing THEN "ACCRUING" ELSE "PENDING"
           /\ Totals(b, entries, s, accruing).gross =
                SumFunctionOnSet([e \in entries |-> Gross(e[2])], entries)
           /\ Totals(b, entries, s, accruing).refund =
                SumFunctionOnSet([e \in entries |-> b.ledger[e].refund], entries)
<1> DEFINE f == [e \in entries |-> Gross(e[2])]
           g == [e \in entries |-> b.ledger[e].refund]
<1>1. IsFiniteSet(entries)
  BY EntriesFinite, FS_Subset
<1>2. \A e \in entries : f[e] \in Nat
  BY DatesOK DEF Gross
<1>3. \A e \in entries : g[e] \in Nat
  BY DatesOK DEF Books
<1>4. DOMAIN f = entries /\ DOMAIN g = entries
  OBVIOUS
<1>5. Totals(b, entries, s, accruing) =
        [s EXCEPT !.status = IF accruing THEN "ACCRUING" ELSE "PENDING",
                  !.gross = SumFunctionOnSet(f, entries), !.refund = SumFunctionOnSet(g, entries),
                  !.net = SumFunctionOnSet(f, entries) - SumFunctionOnSet(g, entries)]
  BY <1>4 DEF Totals, SumFunction
<1>6. SumFunctionOnSet(f, entries) \in Nat /\ SumFunctionOnSet(g, entries) \in Nat
  <2> HIDE DEF f, g
  <2>1. QED
    BY <1>1, <1>2, <1>3, SumBounds
<1> DEFINE gross == SumFunctionOnSet(f, entries)
           refund == SumFunctionOnSet(g, entries)
<1>7. gross \in Nat /\ refund \in Nat /\ gross - refund \in Int
  BY <1>6
<1> HIDE DEF gross, refund
<1>8. Totals(b, entries, s, accruing) =
        [s EXCEPT !.status = IF accruing THEN "ACCRUING" ELSE "PENDING",
                  !.gross = gross, !.refund = refund, !.net = gross - refund]
  BY <1>5 DEF gross, refund
<1>9. /\ Totals(b, entries, s, accruing) \in Statements
      /\ Totals(b, entries, s, accruing).status = IF accruing THEN "ACCRUING" ELSE "PENDING"
      /\ Totals(b, entries, s, accruing).gross = gross
      /\ Totals(b, entries, s, accruing).refund = refund
  BY <1>7, <1>8 DEF Statements, Statuses
<1>10. QED
  BY <1>9 DEF gross, refund

\* What a statement written for these entries claims.
GrossOf(entries) == SumFunctionOnSet([e \in entries |-> Gross(e[2])], entries)
RefundOf(b, entries) == SumFunctionOnSet([e \in entries |-> b.ledger[e].refund], entries)

NewItem(b, p, e) == [period |-> p, gross |-> Gross(e[2]), refund |-> b.ledger[e].refund]

\* The books c are b with the statement of p written for these entries.
Written(b, p, entries, accruing, c) ==
  /\ c.statement[p].status = IF accruing THEN "ACCRUING" ELSE "PENDING"
  /\ c.statement[p].gross = GrossOf(entries)
  /\ c.statement[p].refund = RefundOf(b, entries)
  /\ \A q \in Periods \ {p} : c.statement[q] = b.statement[q]
  /\ \A e \in Entries : c.item[e] = IF e \in entries THEN NewItem(b, p, e) ELSE b.item[e]

\* Either there is nothing to write, or the statement is written.
LEMMA ListedEffect ==
    ASSUME NEW b \in Books, NEW p \in Periods, NEW entries, entries \subseteq Entries,
           NEW accruing \in BOOLEAN
    PROVE  /\ entries = {} => Listed(b, p, entries, accruing) = b
           /\ Listed(b, p, entries, accruing) \in Books
           /\ Listed(b, p, entries, accruing).ledger = b.ledger
           /\ entries # {} => Written(b, p, entries, accruing, Listed(b, p, entries, accruing))
<1> DEFINE t == Totals(b, entries, b.statement[p], accruing)
           item == [e \in Entries |-> IF e \in entries THEN NewItem(b, p, e) ELSE b.item[e]]
           settled == [q \in Payments |-> IF \E e \in entries : e[1] = q
                         THEN IF accruing THEN "AVAILABLE" ELSE "PENDING_REMITTANCE"
                         ELSE b.settlement[q]]
           c == [b EXCEPT !.statement[p] = t, !.item = item, !.settlement = settled]
<1>1. Listed(b, p, entries, accruing) = IF entries = {} THEN b ELSE c
  BY DEF Listed, NewItem
<1>3. /\ t.gross = GrossOf(entries) /\ t.refund = RefundOf(b, entries)
      /\ t.status = IF accruing THEN "ACCRUING" ELSE "PENDING"
      /\ t \in Statements
  <2>1. b.statement[p] \in Statements
    BY DEF Books
  <2>2. QED
    BY <2>1, TotalsOK DEF GrossOf, RefundOf
<1>4. item \in [Entries -> [period : Periods \cup {NoPeriod}, gross : {0, Amount}, refund : 0 .. Amount]]
  BY DEF Books, Gross, NewItem
<1>5. settled \in [Payments -> Settlements]
  BY DEF Books, Settlements
<1> HIDE DEF t, item, settled
<1>6. c \in Books /\ c.ledger = b.ledger /\ c.item = item /\ c.statement[p] = t
      /\ \A q \in Periods \ {p} : c.statement[q] = b.statement[q]
  BY <1>3, <1>4, <1>5 DEF Books
<1> HIDE DEF c
<1>7. CASE entries = {}
  BY <1>1, <1>7
<1>8. CASE entries # {}
  <2>1. Listed(b, p, entries, accruing) = c
    BY <1>1, <1>8
  <2>2. \A e \in Entries :
          item[e] = IF e \in entries THEN NewItem(b, p, e) ELSE b.item[e]
    BY DEF item
  <2>3. QED
    BY <1>3, <1>6, <1>8, <2>1, <2>2 DEF Written
<1>9. QED
  BY <1>7, <1>8

\* Statement q has the same items in both books.
SameItemsIn(b, c, q) == ItemsOf(c, q) = ItemsOf(b, q) /\ \A e \in ItemsOf(b, q) : c.item[e] = b.item[e]

\* A statement written has the items of its entries.
LEMMA TakenItems ==
    ASSUME NEW b, NEW p, NEW entries, entries \subseteq Entries,
           NEW accruing, NEW c, Written(b, p, entries, accruing, c)
    PROVE  ItemsOf(c, p) = ItemsOf(b, p) \cup entries /\ \A e \in entries : c.item[e].period = p
<1>1. \A e \in entries : e \in Entries /\ c.item[e].period = p
  <2>1. \A e \in entries : c.item[e] = NewItem(b, p, e)
    BY DEF Written
  <2>2. \A e : NewItem(b, p, e).period = p
    BY DEF NewItem
  <2>3. QED
    BY <2>1, <2>2
<1>2. \A e \in Entries \ entries : c.item[e] = b.item[e]
  BY DEF Written
<1>3. QED
  BY <1>1, <1>2 DEF ItemsOf

\* It leaves the items of the others alone, unless it takes them.
LEMMA WrittenItems ==
    ASSUME NEW b, NEW p \in Periods, NEW entries, entries \subseteq Entries,
           NEW accruing, NEW c, Written(b, p, entries, accruing, c),
           NEW q \in Periods \ {p}, \A e \in entries : b.item[e].period # q
    PROVE  SameItemsIn(b, c, q)
<1>1. \A e \in entries : e \in Entries /\ c.item[e].period = p
  BY TakenItems
<1>2. \A e \in Entries \ entries : c.item[e] = b.item[e]
  BY DEF Written
<1>3. \A e \in Entries : c.item[e].period = q <=> b.item[e].period = q
  BY <1>1, <1>2
<1>4. \A e \in ItemsOf(b, q) : c.item[e] = b.item[e]
  BY <1>2 DEF ItemsOf
<1>5. QED
  BY <1>3, <1>4 DEF ItemsOf, SameItemsIn

\* A statement written claims what its new items come to, and one that loses no
\* item to it claims no more than before.
LEMMA WrittenClaims ==
    ASSUME NEW b \in Books, NEW p \in Periods, NEW es, es \subseteq Entries,
           NEW accruing, NEW c \in Books, c.ledger = b.ledger, Written(b, p, es, accruing, c),
           \A e \in Entries : ItemSound(b, e),
           \A e \in es : e[2] # "held" /\ b.ledger[e] # NoEntry
    PROVE  /\ \A e \in Entries : ItemSound(c, e)
           /\ ClaimListed(c, p)
           /\ \A q \in Periods \ {p} :
                (\A e \in es : b.item[e].period # q) /\ ClaimListed(b, q) => ClaimListed(c, q)
<1>1. \A e \in es : c.item[e] = NewItem(b, p, e)
  BY DEF Written
<1>2. ItemsOf(c, p) = ItemsOf(b, p) \cup es
  BY TakenItems
<1>3. ASSUME NEW e \in Entries PROVE ItemSound(c, e)
  <2>1. ItemSound(b, e)
    OBVIOUS
  <2>2. CASE e \in es
    <3>1. c.item[e] = [period |-> p, gross |-> Gross(e[2]), refund |-> b.ledger[e].refund]
      BY <1>1, <2>2 DEF NewItem
    <3>2. p # NoPeriod
      BY KnownPeriods
    <3>3. QED
      BY <2>1, <2>2, <3>1, <3>2 DEF ItemSound
  <2>3. CASE e \notin es
    <3>1. c.item[e] = b.item[e]
      BY <2>3 DEF Written
    <3>2. QED
      BY <2>1, <3>1 DEF ItemSound
  <2>4. QED
    BY <2>2, <2>3
<1>4. ASSUME NEW q \in Periods \ {p}, \A e \in es : b.item[e].period # q, ClaimListed(b, q)
      PROVE  ClaimListed(c, q)
  <2>1. SameItemsIn(b, c, q)
    BY <1>4, WrittenItems
  <2>2. ItemsGross(c, q) = ItemsGross(b, q) /\ ItemsRefund(c, q) = ItemsRefund(b, q)
    BY <2>1, SameItems DEF SameItemsIn
  <2>3. c.statement[q] = b.statement[q]
    BY DEF Written
  <2>4. QED
    BY <1>4, <2>2, <2>3 DEF ClaimListed
<1>5. ClaimListed(c, p)
  <2> DEFINE f == [e \in es |-> Gross(e[2])]
             g == [e \in es |-> b.ledger[e].refund]
             cf == [e \in Entries |-> c.item[e].gross]
             cg == [e \in Entries |-> c.item[e].refund]
  <2>1. \A e \in es : f[e] = cf[e] /\ g[e] = cg[e]
    <3>1. \A e \in es : NewItem(b, p, e).gross = f[e] /\ NewItem(b, p, e).refund = g[e]
      BY DEF NewItem
    <3>2. QED
      BY <1>1, <3>1
  <2>2. \A e \in Entries : cf[e] \in Nat /\ cg[e] \in Nat
    BY DatesOK DEF Books
  <2>3. IsFiniteSet(ItemsOf(c, p)) /\ es \in SUBSET ItemsOf(c, p) /\ ItemsOf(c, p) \subseteq Entries
    <3>1. ItemsOf(c, p) \subseteq Entries
      BY DEF ItemsOf
    <3>2. QED
      BY <1>2, <3>1, EntriesFinite, FS_Subset
  <2> HIDE DEF f, g, cf, cg
  <2>4. SumFunctionOnSet(f, es) = SumFunctionOnSet(cf, es) /\ SumFunctionOnSet(g, es) = SumFunctionOnSet(cg, es)
    BY <2>1, SumSame
  <2>5. \A e \in ItemsOf(c, p) : cf[e] \in Nat /\ cg[e] \in Nat
    BY <2>2, <2>3
  <2>6. /\ SumFunctionOnSet(cf, es) <= SumFunctionOnSet(cf, ItemsOf(c, p))
        /\ SumFunctionOnSet(cg, es) <= SumFunctionOnSet(cg, ItemsOf(c, p))
    BY <2>3, <2>5, SumGrows
  <2>7. c.statement[p].gross = SumFunctionOnSet(f, es) /\ c.statement[p].refund = SumFunctionOnSet(g, es)
    BY DEF f, g, Written, GrossOf, RefundOf
  <2>8. QED
    BY <2>4, <2>6, <2>7 DEF ClaimListed, ItemsGross, ItemsRefund, cf, cg
<1>6. QED
  BY <1>3, <1>4, <1>5

\* What generate_weekly_remittance does when it finds the statement.
Writes(b, p, accruing) == ~Kept(b.statement[p], ItemsOf(b, p), accruing) /\ Eligible(b, p) # {}

\* Either the books are as they were, or the statement is written.
LEMMA GeneratedEffect ==
    ASSUME NEW b \in Books, NEW p \in Periods, NEW accruing \in BOOLEAN
    PROVE  /\ ~Writes(b, p, accruing) => Generated(b, p, accruing) = b
           /\ Generated(b, p, accruing) \in Books
           /\ Generated(b, p, accruing).ledger = b.ledger
           /\ Writes(b, p, accruing) =>
                Written(b, p, Eligible(b, p), accruing, Generated(b, p, accruing))
<1>1. Eligible(b, p) \subseteq Entries
  BY DEF Eligible
<1>2. CASE Kept(b.statement[p], ItemsOf(b, p), accruing)
  <2>1. Generated(b, p, accruing) = b
    BY <1>2 DEF Generated
  <2>2. QED
    BY <1>2, <2>1 DEF Writes
<1>3. CASE ~Kept(b.statement[p], ItemsOf(b, p), accruing)
  <2>1. Generated(b, p, accruing) = Listed(b, p, Eligible(b, p), accruing)
    BY <1>3 DEF Generated
  <2>2. Writes(b, p, accruing) <=> Eligible(b, p) # {}
    BY <1>3 DEF Writes
  <2> DEFINE es == Eligible(b, p)
  <2> HIDE DEF es
  <2>3. /\ es = {} => Listed(b, p, es, accruing) = b
        /\ Listed(b, p, es, accruing) \in Books
        /\ Listed(b, p, es, accruing).ledger = b.ledger
        /\ es # {} => Written(b, p, es, accruing, Listed(b, p, es, accruing))
    BY <1>1, ListedEffect DEF es
  <2>4. QED
    BY <2>1, <2>2, <2>3 DEF es
<1>4. QED
  BY <1>2, <1>3

\* Of the entries it takes none is in another statement.
LEMMA EligibleFree ==
    ASSUME NEW b, NEW p
    PROVE  /\ Eligible(b, p) \subseteq Entries
           /\ \A e \in Eligible(b, p) : e[2] # "held" /\ b.ledger[e] # NoEntry
           /\ \A q \in Periods \ {p} : \A e \in Eligible(b, p) : b.item[e].period # q
BY KnownPeriods DEF Eligible

\* Writing a statement that is found leaves the items of the others alone.
LEMMA GeneratedItems ==
    ASSUME NEW b \in Books, NEW p \in Periods, NEW accruing \in BOOLEAN
    PROVE  /\ \A q \in Periods \ {p} : SameItemsIn(b, Generated(b, p, accruing), q)
           /\ Writes(b, p, accruing) =>
                ItemsOf(Generated(b, p, accruing), p) = ItemsOf(b, p) \cup Eligible(b, p)
<1> DEFINE c == Generated(b, p, accruing)
<1>1. CASE ~Writes(b, p, accruing)
  <2>1. c = b
    BY <1>1, GeneratedEffect
  <2>2. QED
    BY <1>1, <2>1 DEF SameItemsIn
<1>2. CASE Writes(b, p, accruing)
  <2>1. Written(b, p, Eligible(b, p), accruing, c)
    BY <1>2, GeneratedEffect
  <2> DEFINE es == Eligible(b, p)
  <2>2. es \subseteq Entries /\ \A q \in Periods \ {p} : \A e \in es : b.item[e].period # q
    BY EligibleFree
  <2>3. Written(b, p, es, accruing, c)
    BY <2>1
  <2> HIDE DEF c, es
  <2>4. ItemsOf(c, p) = ItemsOf(b, p) \cup es
    BY <2>2, <2>3, TakenItems
  <2>5. \A q \in Periods \ {p} : SameItemsIn(b, c, q)
    BY <2>2, <2>3, WrittenItems
  <2>6. QED
    BY <2>4, <2>5 DEF c, es
<1>3. QED
  BY <1>1, <1>2

\* A statement written claims what its new items come to, and no other claims more
\* than before.
LEMMA GeneratedSound ==
    ASSUME NEW b \in SoundBooks, NEW p \in Periods, NEW accruing \in BOOLEAN
    PROVE  Generated(b, p, accruing) \in SoundBooks
<1> DEFINE c == Generated(b, p, accruing)
           es == Eligible(b, p)
<1>0. b \in Books /\ \A e \in Entries : ItemSound(b, e)
  BY DEF SoundBooks
<1>1. CASE ~Writes(b, p, accruing)
  BY <1>0, <1>1, GeneratedEffect
<1>2. CASE Writes(b, p, accruing)
  <2>1. c \in Books /\ c.ledger = b.ledger /\ Written(b, p, es, accruing, c)
    BY <1>0, <1>2, GeneratedEffect
  <2>2. /\ es \subseteq Entries /\ \A e \in es : e[2] # "held" /\ b.ledger[e] # NoEntry
        /\ \A q \in Periods \ {p} : \A e \in es : b.item[e].period # q
    BY EligibleFree
  <2> HIDE DEF c, es
  <2>3. /\ \A e \in Entries : ItemSound(c, e)
        /\ ClaimListed(c, p)
        /\ \A q \in Periods \ {p} :
             (\A e \in es : b.item[e].period # q) /\ ClaimListed(b, q) => ClaimListed(c, q)
    BY <1>0, <2>1, <2>2, WrittenClaims
  <2>4. \A q \in Periods \ robbed : ClaimListed(b, q)
    BY DEF SoundBooks
  <2>5. \A q \in Periods \ robbed : ClaimListed(c, q)
    BY <2>2, <2>3, <2>4
  <2>6. c \in SoundBooks
    BY <2>1, <2>3, <2>5 DEF SoundBooks
  <2>7. QED
    BY <2>6 DEF c
<1>3. QED
  BY <1>1, <1>2

\* What was settled in b is so in c.
Final(b, c) ==
  \A p \in Periods : b.statement[p].status \in Settled =>
    c.statement[p] = b.statement[p] /\ ItemsOf(c, p) = ItemsOf(b, p)

\* Only statements of periods that ended before day d are to be paid.
ClosedBy(b, d) ==
  \A p \in Periods : b.statement[p].status \in Settled \cup {"PENDING"} => p[2] < d

\* What is settled stays so over two changes of the books.
LEMMA FinalTwice ==
    ASSUME NEW a, NEW b, NEW c, Final(a, b), Final(b, c)
    PROVE  Final(a, c)
BY DEF Final

\* generate_weekly_remittance leaves settled statements alone.
LEMMA GeneratedFinal ==
    ASSUME NEW b \in Books, NEW p \in Periods, NEW accruing \in BOOLEAN
    PROVE  Final(b, Generated(b, p, accruing))
<1> DEFINE c == Generated(b, p, accruing)
<1>1. CASE ~Writes(b, p, accruing)
  <2>1. c = b
    BY <1>1, GeneratedEffect
  <2>2. QED
    BY <2>1 DEF Final
<1>2. CASE Writes(b, p, accruing)
  <2>1. b.statement[p].status \notin Settled
    BY <1>2 DEF Writes, Kept
  <2>2. \A q \in Periods \ {p} : c.statement[q] = b.statement[q]
    BY <1>2, GeneratedEffect DEF Written
  <2>3. \A q \in Periods \ {p} : ItemsOf(c, q) = ItemsOf(b, q)
    BY GeneratedItems DEF SameItemsIn
  <2> HIDE DEF c
  <2>4. Final(b, c)
    BY <2>1, <2>2, <2>3 DEF Final
  <2>5. QED
    BY <2>4 DEF c
<1>3. QED
  BY <1>1, <1>2

\* Only a statement of a period that has ended is written to be paid.
LEMMA WrittenClosed ==
    ASSUME NEW b, NEW p \in Periods, NEW entries, NEW accruing \in BOOLEAN, NEW c, NEW d,
           Written(b, p, entries, accruing, c), ClosedBy(b, d), ~accruing => p[2] < d
    PROVE  ClosedBy(c, d)
BY DEF Written, ClosedBy, Settled

LEMMA GeneratedClosed ==
    ASSUME NEW b \in Books, NEW p \in Periods, NEW accruing \in BOOLEAN, NEW d,
           ClosedBy(b, d), ~accruing => p[2] < d
    PROVE  ClosedBy(Generated(b, p, accruing), d)
<1> DEFINE c == Generated(b, p, accruing)
<1>1. CASE ~Writes(b, p, accruing)
  <2>1. c = b
    BY <1>1, GeneratedEffect
  <2>2. QED
    BY <2>1
<1>2. CASE Writes(b, p, accruing)
  <2>1. Written(b, p, Eligible(b, p), accruing, c)
    BY <1>2, GeneratedEffect
  <2> HIDE DEF c
  <2>2. ClosedBy(c, d)
    BY <2>1, WrittenClosed
  <2>3. QED
    BY <2>2 DEF c
<1>3. QED
  BY <1>1, <1>2

\* The same of several statements written one after the other.
LEMMA WrittenSound ==
    ASSUME NEW b \in SoundBooks, NEW S, S \subseteq Periods, NEW active, NEW d, ClosedBy(b, d),
           \A p \in S \ active : p[2] < d
    PROVE  /\ WrittenAnew(b, S, active) \in SoundBooks
           /\ WrittenAnew(b, S, active).ledger = b.ledger
           /\ Final(b, WrittenAnew(b, S, active))
           /\ ClosedBy(WrittenAnew(b, S, active), d)
<1> DEFINE good == {c \in SoundBooks : c.ledger = b.ledger /\ Final(b, c) /\ ClosedBy(c, d)}
           D == [T \in SUBSET S |-> good]
<1>1. IsFiniteSet(S)
  BY PeriodsFinite, FS_Subset
<1>2. b \in good
  BY DEF Final
<1>3. ASSUME NEW p \in S, NEW c \in good
      PROVE  Generated(c, p, p \in active) \in good
  <2>1. c \in SoundBooks /\ c \in Books /\ p \in Periods /\ (p \in active) \in BOOLEAN
    BY <1>3 DEF SoundBooks
  <2>2. Generated(c, p, p \in active) \in SoundBooks
    BY <2>1, GeneratedSound
  <2>3. Generated(c, p, p \in active).ledger = b.ledger
    BY <2>1, GeneratedEffect
  <2>4. Final(b, Generated(c, p, p \in active))
    <3>1. Final(c, Generated(c, p, p \in active))
      BY <2>1, GeneratedFinal
    <3>2. QED
      BY <1>3, <3>1, FinalTwice
  <2>5. ClosedBy(Generated(c, p, p \in active), d)
    BY <1>3, <2>1, GeneratedClosed
  <2>6. QED
    BY <2>2, <2>3, <2>4, <2>5
<1> HIDE DEF good
<1>4. b \in D[{}] /\ D[S] = good
  BY <1>2
<1>5. \A T \in SUBSET S : \A p \in T : \A c \in D[T \ {p}] : Generated(c, p, p \in active) \in D[T]
  BY <1>3
<1> HIDE DEF D
<1>6. WrittenAnew(b, S, active) \in D[S]
  BY <1>1, <1>4, <1>5, WrittenOneByOne
<1>7. QED
  BY <1>4, <1>6 DEF good

\* Statements that were not settled are deleted.
LEMMA DeletedSound ==
    ASSUME NEW b \in SoundBooks, NEW S, S \subseteq Periods, NEW d, ClosedBy(b, d),
           \A p \in S : b.statement[p].status \notin Settled
    PROVE  /\ Deleted(b, S) \in SoundBooks
           /\ Deleted(b, S).ledger = b.ledger
           /\ Final(b, Deleted(b, S))
           /\ ClosedBy(Deleted(b, S), d)
<1> DEFINE c == Deleted(b, S)
<1>0. b \in Books
  BY DEF SoundBooks
<1>1. NoStatement \in Statements /\ NoItem \in [period : Periods \cup {NoPeriod}, gross : {0, Amount}, refund : 0 .. Amount]
  BY DatesOK DEF NoStatement, NoItem, Statements, Statuses, Adjustments
<1> DEFINE statement == [p \in Periods |-> IF p \in S THEN NoStatement ELSE b.statement[p]]
           item == [e \in Entries |-> IF b.item[e].period \in S THEN NoItem ELSE b.item[e]]
<1>2. statement \in [Periods -> Statements]
  BY <1>0, <1>1 DEF Books
<1>3. item \in [Entries -> [period : Periods \cup {NoPeriod}, gross : {0, Amount}, refund : 0 .. Amount]]
  BY <1>0, <1>1 DEF Books
<1>4. c = [b EXCEPT !.statement = statement, !.item = item]
  BY DEF Deleted
<1> HIDE DEF c, statement, item
<1>5. c \in Books /\ c.ledger = b.ledger /\ c.statement = statement /\ c.item = item
  BY <1>0, <1>2, <1>3, <1>4 DEF Books
<1>6. /\ \A p \in Periods : c.statement[p] = IF p \in S THEN NoStatement ELSE b.statement[p]
      /\ \A e \in Entries : c.item[e] = IF b.item[e].period \in S THEN NoItem ELSE b.item[e]
  BY <1>5 DEF statement, item
<1>7. ASSUME NEW e \in Entries PROVE ItemSound(c, e)
  <2>1. ItemSound(b, e)
    BY DEF SoundBooks
  <2>2. CASE b.item[e].period \in S
    <3>1. c.item[e] = NoItem /\ c.ledger = b.ledger
      BY <1>5, <1>6, <2>2
    <3>2. QED
      BY <2>1, <3>1 DEF ItemSound, NoItem
  <2>3. CASE b.item[e].period \notin S
    <3>1. c.item[e] = b.item[e] /\ c.ledger = b.ledger
      BY <1>5, <1>6, <2>3
    <3>2. QED
      BY <2>1, <3>1 DEF ItemSound
  <2>4. QED
    BY <2>2, <2>3
<1>8. ASSUME NEW p \in Periods, p \notin S
      PROVE  /\ ItemsOf(c, p) = ItemsOf(b, p) /\ c.statement[p] = b.statement[p]
             /\ \A e \in ItemsOf(b, p) : c.item[e] = b.item[e]
  <2>1. c.statement[p] = b.statement[p]
    BY <1>5, <1>6, <1>8
  <2>2. p # NoPeriod /\ NoItem.period = NoPeriod
    BY KnownPeriods DEF NoItem
  <2>3. \A e \in Entries : c.item[e].period = p <=> b.item[e].period = p
    BY <1>5, <1>6, <1>8, <2>2
  <2>4. \A e \in ItemsOf(b, p) : c.item[e] = b.item[e]
    BY <1>5, <1>6, <1>8 DEF ItemsOf
  <2>5. QED
    BY <2>1, <2>3, <2>4 DEF ItemsOf
<1>9. ASSUME NEW p \in Periods \ robbed PROVE ClaimListed(c, p)
  <2>1. CASE p \notin S
    <3>1. ItemsGross(c, p) = ItemsGross(b, p) /\ ItemsRefund(c, p) = ItemsRefund(b, p)
      BY <1>8, <2>1, SameItems
    <3>2. ClaimListed(b, p)
      BY DEF SoundBooks
    <3>3. c.statement[p] = b.statement[p]
      BY <1>8, <2>1
    <3>4. QED
      BY <3>1, <3>2, <3>3 DEF ClaimListed
  <2>2. CASE p \in S
    <3>1. c.statement[p].gross = 0 /\ c.statement[p].refund = 0
      BY <1>5, <1>6, <2>2 DEF NoStatement
    <3> DEFINE cf == [e \in Entries |-> c.item[e].gross]
               cg == [e \in Entries |-> c.item[e].refund]
    <3>2. \A e \in Entries : cf[e] \in Nat /\ cg[e] \in Nat
      BY <1>5, DatesOK DEF Books
    <3>3. IsFiniteSet(ItemsOf(c, p)) /\ ItemsOf(c, p) \subseteq Entries
      <4>1. ItemsOf(c, p) \subseteq Entries
        BY DEF ItemsOf
      <4>2. QED
        BY <4>1, EntriesFinite, FS_Subset
    <3> HIDE DEF cf, cg
    <3>4. \A e \in ItemsOf(c, p) : cf[e] \in Nat /\ cg[e] \in Nat
      BY <3>2, <3>3
    <3>5. SumFunctionOnSet(cf, ItemsOf(c, p)) \in Nat /\ SumFunctionOnSet(cg, ItemsOf(c, p)) \in Nat
      BY <3>3, <3>4, SumBounds
    <3>6. ItemsGross(c, p) >= 0 /\ ItemsRefund(c, p) >= 0
      BY <3>5 DEF ItemsGross, ItemsRefund, cf, cg
    <3>7. QED
      BY <3>1, <3>6 DEF ClaimListed
  <2>3. QED
    BY <2>1, <2>2
<1>10. Final(b, c)
  BY <1>8 DEF Final
<1>11. ClosedBy(c, d)
  <2>1. \A p \in S : c.statement[p].status = "NONE"
    BY <1>5, <1>6 DEF NoStatement
  <2>2. QED
    BY <1>8, <2>1 DEF ClosedBy, Settled
<1>12. c \in SoundBooks
  BY <1>5, <1>7, <1>9 DEF SoundBooks
<1>13. QED
  BY <1>5, <1>6, <1>10, <1>11, <1>12 DEF c

\* Only what is left of the statement of p apart from its amounts is changed.
LEMMA ReviewedSound ==
    ASSUME NEW b \in SoundBooks, NEW p \in Periods, NEW c \in Books,
           c.ledger = b.ledger, c.item = b.item,
           \A q \in Periods \ {p} : c.statement[q] = b.statement[q],
           c.statement[p].gross = b.statement[p].gross, c.statement[p].refund = b.statement[p].refund
    PROVE  c \in SoundBooks /\ \A q \in Periods : ItemsOf(c, q) = ItemsOf(b, q)
<1>1. \A q \in Periods : ItemsOf(c, q) = ItemsOf(b, q)
  BY DEF ItemsOf
<1>2. ASSUME NEW q \in Periods \ robbed PROVE ClaimListed(c, q)
  <2>1. ItemsGross(c, q) = ItemsGross(b, q) /\ ItemsRefund(c, q) = ItemsRefund(b, q)
    BY <1>1, SameItems
  <2>2. ClaimListed(b, q)
    BY DEF SoundBooks
  <2>3. c.statement[q].gross = b.statement[q].gross /\ c.statement[q].refund = b.statement[q].refund
    BY <1>2
  <2>4. QED
    BY <2>1, <2>2, <2>3 DEF ClaimListed
<1>3. \A e \in Entries : ItemSound(c, e)
  BY DEF SoundBooks, ItemSound
<1>4. QED
  BY <1>1, <1>2, <1>3 DEF SoundBooks

-----------------------------------------------------------------------------
(* The invariant. *)

\* A payout option takes effect on a Monday, so that a week has one option.
OptionOK ==
  /\ option \in [current : PayoutOptions, previous : PayoutOptions \cup {""}, since : Nat]
  /\ option.since % 7 = 0

\* Payments were made until today, and only those made are refunded.
PaymentOK ==
  /\ payment \in [Payments -> [paid_on : Nat \cup {NoDate}, check_in : Nat \cup {NoDate},
                               non_refundable : BOOLEAN, refunded : 0 .. Amount,
                               refunded_on : Nat \cup {NoDate}]]
  /\ \A p \in Payments :
       /\ payment[p].paid_on <= today
       /\ payment[p].paid_on = NoDate => payment[p].refunded = 0
       /\ payment[p].paid_on # NoDate => payment[p].check_in \in Nat

Jobs == [close : SUBSET Periods, accrue : Periods \cup {NoPeriod}, missing : Periods \cup {NoPeriod},
         entries : SUBSET Entries]

\* A job closes periods that have ended; a statement it did not find is one it
\* has to write, and the entries it read for it are not of held money.
Sensible(j, d) ==
  /\ \A p \in j.close : p[2] < d
  /\ j.missing # NoPeriod /\ j.close # {} => j.missing \in j.close
  /\ j.entries # {} => j.missing # NoPeriod
  /\ \A e \in j.entries : e[2] # "held"

JobOK == job \in [Workers -> Jobs] /\ \A w \in Workers : Sensible(job[w], today)

\* The ledger has the refunds of payments that were refunded.
RefundsLedgered(b) == \A p \in Payments : payment[p].refunded = 0 => b.ledger[<<p, "refund">>] = NoEntry

RemittanceInv ==
  /\ OptionOK /\ PaymentOK /\ JobOK
  /\ today \in Dates /\ robbed \subseteq Periods
  /\ books \in SoundBooks /\ ClosedBy(books, today) /\ RefundsLedgered(books)

\* The option of a day is that of its week.
LEMMA OptionOfWeek ==
    ASSUME OptionOK, NEW d \in Nat
    PROVE  OptionFor(d) \in PayoutOptions /\ OptionFor(Monday(d)) = OptionFor(d)
<1>1. option.since \in Nat /\ option.since % 7 = 0
  BY DEF OptionOK
<1>2. d < option.since <=> Monday(d) < option.since
  BY <1>1 DEF Monday
<1>3. option.current \in PayoutOptions /\ option.previous \in PayoutOptions \cup {""}
  BY DEF OptionOK
<1>4. QED
  BY <1>2, <1>3 DEF OptionFor

\* The active period of a day is that of the day's own option.
LEMMA ActiveToday ==
    ASSUME OptionOK, NEW d \in Nat
    PROVE  ActivePeriod(d) = ActiveUnder(OptionFor(d), d)
BY OptionOfWeek DEF ActivePeriod

-----------------------------------------------------------------------------
(* Synchronisation of the ledger. *)

\* The entry e after the payments of S were synchronised.
SyncedEntry(b, S, e) ==
  LET p == e[1]
  IN  CASE p \in S /\ e[2] = "held" /\ Held(p)         -> Entry(payment[p].paid_on, 0)
        [] p \in S /\ e[2] = "collection" /\ ~Held(p)  -> Entry(payment[p].paid_on, 0)
        [] p \in S /\ e[2] = "release" /\ Released(p)  -> Entry(payment[p].check_in, 0)
        [] p \in S /\ e[2] = "refund" /\ payment[p].refunded > 0 ->
             Entry(payment[p].refunded_on, payment[p].refunded)
        [] OTHER -> b.ledger[e]

\* An entry once written stays one, and only refunds are refunds.
LEMMA SyncedEntrySound ==
    ASSUME PaymentOK, NEW b \in SoundBooks, NEW S, S \subseteq Made, NEW e \in Entries
    PROVE  /\ SyncedEntry(b, S, e) \in [effective : Int, refund : 0 .. Amount]
           /\ e[2] # "refund" => SyncedEntry(b, S, e).refund = 0
           /\ b.ledger[e] # NoEntry => SyncedEntry(b, S, e) # NoEntry
           /\ payment[e[1]].refunded = 0 /\ e[2] = "refund" => SyncedEntry(b, S, e) = b.ledger[e]
<1> DEFINE p == e[1]
<1>1. /\ b.ledger[e] \in [effective : Int, refund : 0 .. Amount]
      /\ e[2] # "refund" => b.ledger[e].refund = 0
  BY DEF SoundBooks, Books, ItemSound
<1>2. /\ p \in Payments
      /\ payment[p].paid_on \in Nat \cup {NoDate} /\ payment[p].refunded \in 0 .. Amount
      /\ payment[p].check_in \in Nat \cup {NoDate} /\ payment[p].refunded_on \in Nat \cup {NoDate}
      /\ p \in S => payment[p].paid_on \in Nat /\ payment[p].check_in \in Nat
  BY DEF PaymentOK, Made, Entries
<1> HIDE DEF p
<1>3. 0 \in 0 .. Amount /\ NoDate \in Int
  BY DatesOK DEF NoDate
<1>4. CASE SyncedEntry(b, S, e) = b.ledger[e]
  BY <1>1, <1>4
<1>5. CASE p \in S /\ e[2] \in {"held", "collection"} /\ SyncedEntry(b, S, e) = Entry(payment[p].paid_on, 0)
  BY <1>2, <1>3, <1>5 DEF Entry, NoEntry, NoDate
<1>6. CASE p \in S /\ e[2] = "release" /\ SyncedEntry(b, S, e) = Entry(payment[p].check_in, 0)
  BY <1>2, <1>3, <1>6 DEF Entry, NoEntry, NoDate
<1>7. CASE /\ p \in S /\ e[2] = "refund" /\ payment[p].refunded > 0
           /\ SyncedEntry(b, S, e) = Entry(payment[p].refunded_on, payment[p].refunded)
  BY <1>2, <1>3, <1>7 DEF Entry, NoEntry, NoDate, p
<1>8. QED
  BY <1>4, <1>5, <1>6, <1>7 DEF SyncedEntry, p

\* sync_payment_ledger changes neither items nor statements.
LEMMA SyncedSound ==
    ASSUME PaymentOK, NEW b \in SoundBooks, NEW S, S \subseteq Made
    PROVE  /\ Synced(b, S) \in SoundBooks
           /\ Synced(b, S).item = b.item /\ Synced(b, S).statement = b.statement
           /\ \A e \in Entries : Synced(b, S).ledger[e] = SyncedEntry(b, S, e)
           /\ RefundsLedgered(b) => RefundsLedgered(Synced(b, S))
           /\ \A p \in Periods : ItemsOf(Synced(b, S), p) = ItemsOf(b, p)
           /\ \A d : ClosedBy(b, d) => ClosedBy(Synced(b, S), d)
<1> DEFINE ledger == [e \in Entries |-> SyncedEntry(b, S, e)]
           settlement == [p \in Payments |->
             IF p \notin S THEN b.settlement[p]
             ELSE IF Held(p) /\ ~Released(p) THEN "HELD" ELSE "AVAILABLE"]
           c == Synced(b, S)
<1>0. b \in Books
  BY DEF SoundBooks
<1>1. c = [b EXCEPT !.ledger = ledger, !.settlement = settlement]
  BY DEF Synced, SyncedEntry
<1>2. ledger \in [Entries -> [effective : Int, refund : 0 .. Amount]]
  BY SyncedEntrySound
<1>3. settlement \in [Payments -> Settlements]
  BY <1>0 DEF Books, Settlements
<1>4. \A e \in Entries : ledger[e] = SyncedEntry(b, S, e)
  OBVIOUS
<1> HIDE DEF ledger, settlement, c
<1>5. c \in Books /\ c.item = b.item /\ c.statement = b.statement /\ c.ledger = ledger
  BY <1>0, <1>1, <1>2, <1>3 DEF Books
<1>6. \A p : ItemsOf(c, p) = ItemsOf(b, p)
  BY <1>5 DEF ItemsOf
<1>7. \A e \in Entries : ItemSound(c, e)
  <2> TAKE e \in Entries
  <2>1. ItemSound(b, e)
    BY DEF SoundBooks
  <2>2. /\ e[2] # "refund" => c.ledger[e].refund = 0
        /\ b.ledger[e] # NoEntry => c.ledger[e] # NoEntry
    BY <1>4, <1>5, SyncedEntrySound
  <2>3. QED
    BY <1>5, <2>1, <2>2 DEF ItemSound
<1>8. \A p \in Periods \ robbed : ClaimListed(c, p)
  <2> TAKE p \in Periods \ robbed
  <2>1. ClaimListed(b, p)
    BY DEF SoundBooks
  <2>2. ItemsGross(c, p) = ItemsGross(b, p) /\ ItemsRefund(c, p) = ItemsRefund(b, p)
    BY <1>5, <1>6, SameItems
  <2>3. QED
    BY <1>5, <2>1, <2>2 DEF ClaimListed
<1>9. RefundsLedgered(b) => RefundsLedgered(c)
  <2>1. ASSUME NEW p \in Payments, payment[p].refunded = 0
        PROVE  c.ledger[<<p, "refund">>] = b.ledger[<<p, "refund">>]
    <3>1. <<p, "refund">> \in Entries
      BY DEF Entries, Kinds
    <3>2. QED
      BY <1>4, <1>5, <2>1, <3>1, SyncedEntrySound
  <2>2. QED
    BY <2>1 DEF RefundsLedgered
<1>10. \A d : ClosedBy(b, d) => ClosedBy(c, d)
  BY <1>5 DEF ClosedBy
<1>11. c \in SoundBooks
  BY <1>5, <1>7, <1>8 DEF SoundBooks
<1>12. QED
  BY <1>4, <1>5, <1>6, <1>9, <1>10, <1>11 DEF c

-----------------------------------------------------------------------------
(* People change one statement, and neither its items nor its amounts. *)

Rewritten(b, p, s, settlement) == [b EXCEPT !.statement[p] = s, !.settlement = settlement]

\* A statement that keeps its amounts still claims what its items come to.
LEMMA RewrittenSound ==
    ASSUME NEW b \in SoundBooks, NEW p \in Periods, NEW s \in Statements,
           s.gross = b.statement[p].gross, s.refund = b.statement[p].refund,
           NEW settlement \in [Payments -> Settlements]
    PROVE  /\ Rewritten(b, p, s, settlement) \in SoundBooks
           /\ Rewritten(b, p, s, settlement).ledger = b.ledger
           /\ \A q \in Periods : ItemsOf(Rewritten(b, p, s, settlement), q) = ItemsOf(b, q)
           /\ \A q \in Periods \ {p} : Rewritten(b, p, s, settlement).statement[q] = b.statement[q]
           /\ Rewritten(b, p, s, settlement).statement[p] = s
<1> DEFINE c == Rewritten(b, p, s, settlement)
<1>1. /\ c \in Books /\ c.ledger = b.ledger /\ c.item = b.item
      /\ \A q \in Periods \ {p} : c.statement[q] = b.statement[q]
      /\ c.statement[p] = s
  BY DEF SoundBooks, Books, Rewritten
<1> HIDE DEF c
<1>2. c \in SoundBooks /\ \A q \in Periods : ItemsOf(c, q) = ItemsOf(b, q)
  BY <1>1, ReviewedSound
<1>3. QED
  BY <1>1, <1>2 DEF c

\* The settlements that WithSettlement writes.
SettledOf(b, p, settlement) ==
  [q \in Payments |-> IF q \in BookingsOf(b, p) THEN settlement ELSE b.settlement[q]]

\* The statement s is one people may make of the one of period p: it has its
\* amounts, and is to be paid only if it was already.
Revised(p, s) ==
  /\ s \in Statements
  /\ s.gross = books.statement[p].gross /\ s.refund = books.statement[p].refund
  /\ s.status \in Settled \cup {"PENDING"} => Status(p) \in Settled \cup {"PENDING"}

\* Every request of Review is such a rewriting.
LEMMA ReviewRewrites ==
    ASSUME RemittanceInv, NEW p \in Periods, Review(p)
    PROVE  /\ \E s, settlement : /\ Revised(p, s) /\ settlement \in [Payments -> Settlements]
                                 /\ books' = Rewritten(books, p, s, settlement)
           /\ UNCHANGED <<payment, option, job, robbed, today>>
<1> DEFINE r == books.statement[p]
<1>1. /\ books \in Books /\ r \in Statements
      /\ r.status \in Statuses /\ r.adjustment \in Adjustments /\ r.net \in Int
      /\ r.gross \in Nat /\ r.refund \in Nat
  BY DEF RemittanceInv, SoundBooks, Books, Statements
<1>2. ASSUME NEW s \in Statements, NEW settlement \in Settlements
      PROVE  /\ SettledOf([books EXCEPT !.statement[p] = s], p, settlement) \in [Payments -> Settlements]
             /\ WithSettlement([books EXCEPT !.statement[p] = s], p, settlement) =
                  Rewritten(books, p, s, SettledOf([books EXCEPT !.statement[p] = s], p, settlement))
  <2> DEFINE c == [books EXCEPT !.statement[p] = s]
  <2>1. c.settlement \in [Payments -> Settlements]
    BY <1>1 DEF Books
  <2>2. WithSettlement(c, p, settlement) = [c EXCEPT !.settlement = SettledOf(c, p, settlement)]
    BY DEF WithSettlement, SettledOf
  <2> HIDE DEF c
  <2>3. SettledOf(c, p, settlement) \in [Payments -> Settlements]
    BY <2>1 DEF SettledOf
  <2> DEFINE x == SettledOf(c, p, settlement)
  <2> HIDE DEF x
  <2>4. [c EXCEPT !.settlement = x] = Rewritten(books, p, s, x)
    BY DEF Rewritten, c
  <2>5. QED
    BY <2>2, <2>3, <2>4 DEF c, x
<1>3. ASSUME NEW s \in Statements
      PROVE  /\ books.settlement \in [Payments -> Settlements]
             /\ [books EXCEPT !.statement[p] = s] = Rewritten(books, p, s, books.settlement)
  BY <1>1 DEF Books, Rewritten
<1>4. ASSUME NEW s \in Statements, s.status \in Settlements, Write(p, s), Revised(p, s)
      PROVE  \E t, settlement : /\ Revised(p, t) /\ settlement \in [Payments -> Settlements]
                                /\ books' = Rewritten(books, p, t, settlement)
  BY <1>2, <1>4 DEF Write
<1>5. CASE Check(p)
  <2> DEFINE s == [r EXCEPT !.status = "CHECKED"]
  <2>1. Write(p, s) /\ Status(p) = "PENDING" /\ UNCHANGED <<payment, option, job, robbed, today>>
    BY <1>5 DEF Check, Others
  <2>2. Revised(p, s) /\ s \in Statements /\ s.status \in Settlements
    BY <1>1, <2>1 DEF Revised, Statements, Statuses, Settled, Settlements
  <2> HIDE DEF s
  <2>3. QED
    BY <1>4, <2>1, <2>2
<1>6. CASE Pay(p)
  <2> DEFINE s == [r EXCEPT !.status = "PAID", !.was_paid = TRUE]
  <2>1. Write(p, s) /\ Status(p) \in {"PENDING", "CHECKED"} /\ UNCHANGED <<payment, option, job, robbed, today>>
    BY <1>6 DEF Pay, Others
  <2>2. Revised(p, s) /\ s \in Statements /\ s.status \in Settlements
    BY <1>1, <2>1 DEF Revised, Statements, Statuses, Settled, Settlements
  <2> HIDE DEF s
  <2>3. QED
    BY <1>4, <2>1, <2>2
<1>7. CASE Receive(p)
  <2> DEFINE s == [r EXCEPT !.status = "RECEIVED"]
  <2>1. Write(p, s) /\ Status(p) = "PAID" /\ UNCHANGED <<payment, option, job, robbed, today>>
    BY <1>7 DEF Receive, Others
  <2>2. Revised(p, s) /\ s \in Statements /\ s.status \in Settlements
    BY <1>1, <2>1 DEF Revised, Statements, Statuses, Settled, Settlements
  <2> HIDE DEF s
  <2>3. QED
    BY <1>4, <2>1, <2>2
<1>8. CASE ReopenReceipt(p)
  <2> DEFINE s == [r EXCEPT !.status = "PAID"]
  <2>1. Write(p, s) /\ Status(p) = "RECEIVED" /\ UNCHANGED <<payment, option, job, robbed, today>>
    BY <1>8 DEF ReopenReceipt, Others
  <2>2. Revised(p, s) /\ s \in Statements /\ s.status \in Settlements
    BY <1>1, <2>1 DEF Revised, Statements, Statuses, Settled, Settlements
  <2> HIDE DEF s
  <2>3. QED
    BY <1>4, <2>1, <2>2
<1>9. CASE ResetToPending(p)
  <2> DEFINE s == [r EXCEPT !.status = "PENDING", !.adjustment = 0, !.net = r.net - r.adjustment]
  <2>1. /\ Status(p) \notin {"NONE", "ACCRUING"} /\ UNCHANGED <<payment, option, job, robbed, today>>
        /\ books' = WithSettlement([books EXCEPT !.statement[p] = s], p, "PENDING_REMITTANCE")
    BY <1>1, <1>9 DEF ResetToPending, Others, AvailableAmount, Books
  <2>2. Revised(p, s) /\ s \in Statements /\ "PENDING_REMITTANCE" \in Settlements
    <3>1. r.net - r.adjustment \in Int /\ 0 \in Adjustments
      BY <1>1 DEF Adjustments
    <3>2. QED
      BY <1>1, <2>1, <3>1 DEF Revised, Statements, Statuses, Settled, Settlements, Status
  <2> HIDE DEF s
  <2>3. QED
    BY <1>2, <2>1, <2>2
<1>10. ASSUME NEW amount \in Adjustments, Adjust(p, amount)
       PROVE  /\ \E s, settlement : /\ Revised(p, s) /\ settlement \in [Payments -> Settlements]
                                    /\ books' = Rewritten(books, p, s, settlement)
              /\ UNCHANGED <<payment, option, job, robbed, today>>
  <2> DEFINE s == [r EXCEPT !.adjustment = amount, !.net = (r.net - r.adjustment) + amount]
  <2>1. /\ UNCHANGED <<payment, option, job, robbed, today>>
        /\ books' = [books EXCEPT !.statement[p] = s]
    BY <1>1, <1>10 DEF Adjust, Others, AvailableAmount, Books
  <2>2. Revised(p, s) /\ s \in Statements
    <3>1. (r.net - r.adjustment) + amount \in Int
      BY <1>1 DEF Adjustments
    <3>2. QED
      BY <1>1, <3>1 DEF Revised, Statements, Status
  <2> HIDE DEF s
  <2>3. QED
    BY <1>3, <2>1, <2>2
<1>11. ASSUME NEW legacy \in BOOLEAN, Recalculate(p, legacy)
       PROVE  /\ \E s, settlement : /\ Revised(p, s) /\ settlement \in [Payments -> Settlements]
                                    /\ books' = Rewritten(books, p, s, settlement)
              /\ UNCHANGED <<payment, option, job, robbed, today>>
  <2> DEFINE net == (r.gross - r.refund) + r.adjustment
             status == IF r.status = "CHECKED" THEN "PENDING" ELSE r.status
             s == [r EXCEPT !.net = net, !.status = status]
  <2>1. /\ UNCHANGED <<payment, option, job, robbed, today>>
        /\ books' = [books EXCEPT !.statement[p] = s]
    BY <1>1, <1>11 DEF Recalculate, Others, Books
  <2>2. Revised(p, s) /\ s \in Statements
    <3>1. net \in Int
      BY <1>1 DEF Adjustments
    <3>2. status \in Statuses /\ (status = "PENDING" => r.status \in {"PENDING", "CHECKED"})
          /\ (status \in Settled => r.status = status)
      BY <1>1 DEF Statuses, Settled
    <3> HIDE DEF net, status
    <3>3. s \in Statements /\ s.status = status /\ s.gross = r.gross /\ s.refund = r.refund
      BY <1>1, <3>1, <3>2 DEF Statements
    <3> HIDE DEF s
    <3>4. QED
      BY <3>2, <3>3 DEF Revised, Settled, Status
  <2> HIDE DEF s
  <2>3. QED
    BY <1>3, <2>1, <2>2
<1>12. QED
  BY <1>5, <1>6, <1>7, <1>8, <1>9, <1>10, <1>11 DEF Review

-----------------------------------------------------------------------------
(* Every step keeps the invariant and what is settled. *)

\* What a step does to the books, when the date and the payments stay: it keeps
\* them sound and closed, and what is settled final.
BooksKept(b) ==
  /\ b \in SoundBooks /\ ClosedBy(b, today) /\ RefundsLedgered(b)
  /\ Final(books, b)

\* What the invariant says of today.
LEMMA InvFacts ==
    ASSUME RemittanceInv
    PROVE  /\ BooksKept(books) /\ books \in Books
           /\ today \in Nat /\ OptionFor(today) \in PayoutOptions
           /\ \A opt \in PayoutOptions :
                ActiveUnder(opt, today) \in Periods /\ PayoutPeriods(opt, Monday(today)) \subseteq Periods
           /\ ActivePeriod(today) = ActiveUnder(OptionFor(today), today)
<1>1. today \in Dates /\ today \in Nat /\ OptionOK
  BY DatesOK DEF RemittanceInv
<1>2. OptionFor(today) \in PayoutOptions /\ ActivePeriod(today) = ActiveUnder(OptionFor(today), today)
  BY <1>1, OptionOfWeek, ActiveToday
<1>3. ASSUME NEW opt \in PayoutOptions
      PROVE  ActiveUnder(opt, today) \in Periods /\ PayoutPeriods(opt, Monday(today)) \subseteq Periods
  BY <1>1, KnownPeriods, ActiveOfDay
<1>4. BooksKept(books) /\ books \in Books
  BY DEF RemittanceInv, BooksKept, Final, SoundBooks
<1>5. QED
  BY <1>1, <1>2, <1>3, <1>4

\* Each way the books are changed keeps them.
LEMMA GeneratedKept ==
    ASSUME RemittanceInv, NEW b, BooksKept(b), NEW p \in Periods, NEW accruing \in BOOLEAN,
           ~accruing => p[2] < today
    PROVE  BooksKept(Generated(b, p, accruing))
<1> DEFINE c == Generated(b, p, accruing)
<1>1. b \in SoundBooks /\ b \in Books
  BY DEF BooksKept, SoundBooks
<1>2. c \in SoundBooks /\ c.ledger = b.ledger
  BY <1>1, GeneratedSound, GeneratedEffect
<1>3. ClosedBy(c, today)
  BY <1>1, GeneratedClosed DEF BooksKept
<1>4. Final(books, c)
  <2>1. Final(b, c)
    BY <1>1, GeneratedFinal
  <2> HIDE DEF c
  <2>2. QED
    BY <2>1, FinalTwice DEF BooksKept
<1> HIDE DEF c
<1>5. BooksKept(c)
  BY <1>2, <1>3, <1>4 DEF BooksKept, RefundsLedgered
<1>6. QED
  BY <1>5 DEF c

LEMMA WrittenKept ==
    ASSUME RemittanceInv, NEW b, BooksKept(b), NEW S, S \subseteq Periods, NEW active,
           \A p \in S \ active : p[2] < today
    PROVE  BooksKept(WrittenAnew(b, S, active))
<1> DEFINE c == WrittenAnew(b, S, active)
<1>1. b \in SoundBooks /\ ClosedBy(b, today)
  BY DEF BooksKept
<1>2. c \in SoundBooks /\ c.ledger = b.ledger /\ Final(b, c) /\ ClosedBy(c, today)
  BY <1>1, WrittenSound
<1> HIDE DEF c
<1>3. Final(books, c)
  BY <1>2, FinalTwice DEF BooksKept
<1>4. BooksKept(c)
  BY <1>2, <1>3 DEF BooksKept, RefundsLedgered
<1>5. QED
  BY <1>4 DEF c

LEMMA SyncedKept ==
    ASSUME RemittanceInv, NEW b, BooksKept(b), NEW S, S \subseteq Made
    PROVE  BooksKept(Synced(b, S))
<1> DEFINE c == Synced(b, S)
<1>1. b \in SoundBooks /\ ClosedBy(b, today) /\ PaymentOK /\ RefundsLedgered(b)
  BY DEF BooksKept, RemittanceInv
<1>2. /\ c \in SoundBooks /\ c.statement = b.statement /\ RefundsLedgered(c)
      /\ \A p \in Periods : ItemsOf(c, p) = ItemsOf(b, p)
      /\ ClosedBy(c, today)
  BY <1>1, SyncedSound
<1> HIDE DEF c
<1>3. Final(b, c)
  BY <1>2 DEF Final
<1>4. Final(books, c)
  BY <1>3, FinalTwice DEF BooksKept
<1>5. BooksKept(c)
  BY <1>2, <1>4 DEF BooksKept
<1>6. QED
  BY <1>5 DEF c

LEMMA DeletedKept ==
    ASSUME RemittanceInv, NEW S, S \subseteq Periods, \A p \in S : Status(p) \notin Settled
    PROVE  BooksKept(Deleted(books, S))
<1> DEFINE c == Deleted(books, S)
<1>1. books \in SoundBooks /\ ClosedBy(books, today) /\ RefundsLedgered(books)
  BY DEF RemittanceInv
<1>2. c \in SoundBooks /\ c.ledger = books.ledger /\ Final(books, c) /\ ClosedBy(c, today)
  BY <1>1, DeletedSound DEF Status
<1> HIDE DEF c
<1>3. BooksKept(c)
  BY <1>1, <1>2 DEF BooksKept, RefundsLedgered
<1>4. QED
  BY <1>3 DEF c

\* What is sound stays so while no statement is robbed.
LEMMA SoundSame == ASSUME UNCHANGED robbed PROVE SoundBooks' = SoundBooks
BY DEF SoundBooks

\* The books kept, and the other variables too, keep the invariant.
LEMMA KeptInv ==
    ASSUME RemittanceInv, BooksKept(books'), UNCHANGED <<payment, robbed, today>>, OptionOK', JobOK'
    PROVE  RemittanceInv' /\ Final(books, books')
<1>1. PaymentOK' /\ (today \in Dates)'
  BY DEF RemittanceInv, PaymentOK
<1>2. (RefundsLedgered(books))' /\ (books \in SoundBooks)' /\ (ClosedBy(books, today))'
  BY SoundSame DEF BooksKept, RefundsLedgered
<1>3. QED
  BY <1>1, <1>2 DEF RemittanceInv, BooksKept

\* The periods that are to be closed have ended.
LEMMA DueEnded == \A b, opt : Due(b, opt) \subseteq Periods /\ \A p \in Due(b, opt) : p[2] < today
BY DEF Due

\* Nothing but payments changes in Paying.
LEMMA PayingKeeps ==
    ASSUME RemittanceInv, NEW p \in Payments, Paying(p)
    PROVE  RemittanceInv' /\ Final(books, books')
<1>1. /\ PaymentOK /\ today \in Nat /\ Dates \subseteq Nat /\ Amount \in Nat
      /\ payment[p].paid_on \in Nat \cup {NoDate} /\ payment[p].refunded \in 0 .. Amount
      /\ OptionOK /\ JobOK /\ RefundsLedgered(books) /\ BooksKept(books)
  BY InvFacts, DatesOK DEF RemittanceInv, PaymentOK
<1>2. ASSUME PaymentOK', UNCHANGED <<books, option, job, robbed, today>>,
             \A q \in Payments : payment'[q].refunded = 0 => payment[q].refunded = 0
      PROVE  RemittanceInv' /\ Final(books, books')
  <2>1. OptionOK' /\ JobOK' /\ (today \in Dates)'
    BY <1>2 DEF RemittanceInv, OptionOK, JobOK
  <2>2. (books \in SoundBooks)' /\ (ClosedBy(books, today))' /\ (RefundsLedgered(books))'
    BY <1>2, SoundSame DEF RemittanceInv, RefundsLedgered
  <2>3. QED
    BY <1>2, <2>1, <2>2 DEF RemittanceInv, Final
<1>3. ASSUME NEW d \in Dates, NEW non_refundable \in BOOLEAN, MakePayment(p, d, non_refundable)
      PROVE  RemittanceInv' /\ Final(books, books')
  <2>1. /\ payment[p].paid_on = NoDate /\ payment[p].refunded = 0
        /\ UNCHANGED <<books, option, job, robbed, today>>
    BY <1>1, <1>3 DEF MakePayment, Made, PaymentOK
  <2> DEFINE r == [Unpaid EXCEPT !.paid_on = today, !.check_in = d, !.non_refundable = non_refundable]
  <2>2. payment' = [payment EXCEPT ![p] = r]
    BY <1>3 DEF MakePayment
  <2>3. /\ r \in [paid_on : Nat \cup {NoDate}, check_in : Nat \cup {NoDate},
                  non_refundable : BOOLEAN, refunded : 0 .. Amount, refunded_on : Nat \cup {NoDate}]
        /\ r.paid_on = today /\ r.check_in \in Nat /\ r.refunded = 0
    <3>1. /\ Unpaid \in [paid_on : Nat \cup {NoDate}, check_in : Nat \cup {NoDate},
                       non_refundable : BOOLEAN, refunded : 0 .. Amount, refunded_on : Nat \cup {NoDate}]
          /\ Unpaid.refunded = 0
      BY <1>1 DEF Unpaid
    <3>2. d \in Nat
      BY <1>1
    <3>3. QED
      BY <1>1, <3>1, <3>2
  <2> HIDE DEF r
  <2>4. PaymentOK'
    BY <1>1, <2>1, <2>2, <2>3 DEF PaymentOK, NoDate
  <2>5. \A q \in Payments : payment'[q].refunded = 0 => payment[q].refunded = 0
    BY <1>1, <2>1, <2>2 DEF PaymentOK
  <2>6. QED
    BY <1>2, <2>1, <2>4, <2>5
<1>4. ASSUME NEW amount \in 1 .. Amount, RefundPayment(p, amount)
      PROVE  RemittanceInv' /\ Final(books, books')
  <2> DEFINE r == [payment[p] EXCEPT !.refunded = payment[p].refunded + amount, !.refunded_on = today]
  <2>1. /\ p \in Made /\ UNCHANGED <<books, option, job, robbed, today>>
        /\ amount <= Amount - payment[p].refunded
        /\ payment' = [payment EXCEPT ![p] = r]
    BY <1>1, <1>4 DEF RefundPayment, PaymentOK
  <2>2. payment[p].refunded + amount \in 0 .. Amount /\ payment[p].refunded + amount # 0
    BY <1>1, <2>1
  <2>3. /\ r \in [paid_on : Nat \cup {NoDate}, check_in : Nat \cup {NoDate},
                  non_refundable : BOOLEAN, refunded : 0 .. Amount, refunded_on : Nat \cup {NoDate}]
        /\ r.paid_on = payment[p].paid_on /\ r.check_in = payment[p].check_in /\ r.refunded # 0
    BY <1>1, <2>2 DEF PaymentOK
  <2> HIDE DEF r
  <2>4. PaymentOK'
    BY <1>1, <2>1, <2>3 DEF PaymentOK, Made
  <2>5. \A q \in Payments : payment'[q].refunded = 0 => payment[q].refunded = 0
    BY <1>1, <2>1, <2>3 DEF PaymentOK
  <2>6. QED
    BY <1>2, <2>1, <2>4, <2>5
<1>5. ASSUME NEW d \in Dates, Reschedule(p, d)
      PROVE  RemittanceInv' /\ Final(books, books')
  <2> DEFINE r == [payment[p] EXCEPT !.check_in = d]
  <2>1. p \in Made /\ UNCHANGED <<books, option, job, robbed, today>> /\ payment' = [payment EXCEPT ![p] = r]
    BY <1>1, <1>5 DEF Reschedule, PaymentOK
  <2>2. /\ r \in [paid_on : Nat \cup {NoDate}, check_in : Nat \cup {NoDate},
                  non_refundable : BOOLEAN, refunded : 0 .. Amount, refunded_on : Nat \cup {NoDate}]
        /\ r.paid_on = payment[p].paid_on /\ r.check_in \in Nat /\ r.refunded = payment[p].refunded
    BY <1>1 DEF PaymentOK
  <2> HIDE DEF r
  <2>3. PaymentOK'
    BY <1>1, <2>1, <2>2 DEF PaymentOK
  <2>4. \A q \in Payments : payment'[q].refunded = 0 => payment[q].refunded = 0
    BY <1>1, <2>1, <2>2 DEF PaymentOK
  <2>5. QED
    BY <1>2, <2>1, <2>3, <2>4
<1>6. CASE SyncPayment(p)
  <2>1. {p} \subseteq Made /\ books' = Synced(books, {p}) /\ UNCHANGED <<payment, option, job, robbed, today>>
    BY <1>6 DEF SyncPayment
  <2>2. BooksKept(books')
    BY <1>1, <2>1, SyncedKept
  <2>3. OptionOK' /\ JobOK'
    BY <1>1, <2>1 DEF OptionOK, JobOK
  <2>4. QED
    BY <2>1, <2>2, <2>3, KeptInv
<1>7. QED
  BY <1>3, <1>4, <1>5, <1>6 DEF Paying

\* The period before the current week, or before the current period, has ended.
LEMMA PreviousEnded ==
    ASSUME RemittanceInv,
           NEW cutoff, cutoff = IF OptionFor(today) = "three_times_weekly" THEN ActivePeriod(today)[1]
                                ELSE Monday(today),
           cutoff > 0
    PROVE  ActivePeriod(cutoff - 1)[2] < today
<1> DEFINE m == Monday(today)
           d == cutoff - 1
<1>1. OptionOK /\ today \in Nat
  BY InvFacts DEF RemittanceInv
<1>2. m \in Int /\ m % 7 = 0 /\ m <= today /\ today <= m + 6
  BY <1>1, MondayOfDay
<1>3. /\ ActivePeriod(today) \in PayoutPeriods(OptionFor(today), m)
      /\ ActivePeriod(today)[1] <= today /\ ActivePeriod(today)[1] \in Int /\ m <= ActivePeriod(today)[1]
  BY <1>1, InvFacts, ActiveOfDay
<1>4. cutoff \in Int /\ d \in Nat /\ d < today /\ m - 1 <= d
  <2> HIDE DEF m
  <2>1. cutoff \in Int /\ cutoff <= today /\ m <= cutoff
    BY <1>2, <1>3 DEF m
  <2>2. QED
    BY <1>1, <1>2, <2>1
<1> HIDE DEF d, m
<1>5. OptionFor(d) \in PayoutOptions /\ ActivePeriod(d) = ActiveUnder(OptionFor(d), d)
  BY <1>1, <1>4, OptionOfWeek, ActiveToday
<1>6. /\ ActiveUnder(OptionFor(d), d) \in PayoutPeriods(OptionFor(d), Monday(d))
      /\ ActiveUnder(OptionFor(d), d)[2] \in Int
      /\ ActiveUnder(OptionFor(d), d)[1] <= d
      /\ ActiveUnder(OptionFor(d), d)[2] <= Monday(d) + 6
  BY <1>4, <1>5, ActiveOfDay
<1>7. CASE d = m - 1
  <2>1. Monday(d) = m - 7
    <3>1. m - 7 \in Int /\ (m - 7) % 7 = 0
      BY <1>2
    <3>2. QED
      BY <1>2, <1>4, <1>7, <3>1, SameMonday
  <2>2. QED
    BY <1>1, <1>2, <1>5, <1>6, <2>1 DEF d
<1>8. CASE d >= m
  <2>1. Monday(d) = m
    BY <1>1, <1>2, <1>4, <1>8, SameMonday
  <2>2. OptionFor(d) = OptionFor(today)
    BY <1>1, <1>4, <2>1, OptionOfWeek DEF m
  <2>3. OptionFor(today) = "three_times_weekly" /\ cutoff = ActivePeriod(today)[1]
    BY <1>2, <1>4, <1>8 DEF m, d
  <2>4. /\ ActivePeriod(today) \in {<<m, m + 1>>, <<m + 2, m + 3>>, <<m + 4, m + 6>>}
        /\ ActivePeriod(d) \in {<<m, m + 1>>, <<m + 2, m + 3>>, <<m + 4, m + 6>>}
    BY <1>3, <1>5, <1>6, <2>1, <2>2, <2>3 DEF PayoutPeriods
  <2>5. d = m + 1 \/ d = m + 3
    BY <1>2, <1>4, <1>8, <2>3, <2>4 DEF d
  <2>6. ActivePeriod(d)[1] <= d
    BY <1>5, <1>6
  <2>7. ActivePeriod(d)[2] <= d
    BY <1>2, <2>4, <2>5, <2>6
  <2>8. ActivePeriod(d)[2] \in Int
    BY <1>5, <1>6
  <2>9. QED
    BY <1>1, <1>4, <2>7, <2>8 DEF d
<1>9. QED
  BY <1>2, <1>4, <1>7, <1>8 DEF d

\* What a step may do to what is settled.
SettledStay ==
  \A p \in Periods : Status(p) \in Settled =>
    \/ /\ ItemsOf(books', p) = ItemsOf(books, p)
       /\ books'.statement[p].gross = books.statement[p].gross
       /\ books'.statement[p].refund = books.statement[p].refund
       /\ books'.statement[p] = books.statement[p] \/ Review(p)
    \/ Overtaken(p)

\* A step that keeps what is settled final is a step of StatementsFinal.
LEMMA FinalStays ==
    ASSUME Final(books, books')
    PROVE  SettledStay
BY DEF Final, SettledStay, Status

\* A period whose turn it is to be closed has ended.
LEMMA TurnEnded ==
    ASSUME NEW w, job[w] \in Jobs, Sensible(job[w], today), NEW p \in Turn(w)
    PROVE  p \in Periods /\ Accruing(w) \in BOOLEAN /\ (~Accruing(w) => p[2] < today)
BY DEF Turn, Accruing, Jobs, Sensible

\* What is left of a job is as it was.
LEMMA DoneSensible ==
    ASSUME NEW w \in Workers, job \in [Workers -> Jobs], Sensible(job[w], today), NEW p, Done(w, p)
    PROVE  \E j \in Jobs : Sensible(j, today) /\ job' = [job EXCEPT ![w] = j]
<1> DEFINE rest == [job[w] EXCEPT !.close = job[w].close \ {p}, !.missing = NoPeriod, !.entries = {}]
<1>1. job' = [job EXCEPT ![w] = IF Accruing(w) THEN Idle ELSE rest]
  BY DEF Done
<1>2. Idle \in Jobs /\ Sensible(Idle, today)
  BY DEF Idle, Jobs, Sensible
<1>3. rest \in Jobs /\ Sensible(rest, today)
  <2>1. job[w] \in Jobs
    OBVIOUS
  <2>2. QED
    BY <2>1 DEF Jobs, Sensible
<1> HIDE DEF rest
<1>4. QED
  BY <1>1, <1>2, <1>3

\* What a worker does but for a late write: what a job has to close had ended when
\* the job began.
LEMMA JobKeeps ==
    ASSUME RemittanceInv, NEW w \in Workers, Job(w), ~WriteMissing(w)
    PROVE  RemittanceInv' /\ Final(books, books')
<1>1. /\ job \in [Workers -> Jobs] /\ \A v \in Workers : Sensible(job[v], today)
      /\ OptionOK /\ BooksKept(books)
  BY InvFacts DEF RemittanceInv, JobOK
<1>2. UNCHANGED <<payment, option, robbed, today>> => OptionOK'
  BY <1>1 DEF OptionOK
<1>3. ASSUME NEW j \in Jobs, Sensible(j, today),
             job' = [job EXCEPT ![w] = j], UNCHANGED <<payment, option, robbed, today>>,
             BooksKept(books')
      PROVE  RemittanceInv' /\ Final(books, books')
  <2>1. JobOK'
    BY <1>1, <1>3 DEF JobOK
  <2>2. QED
    BY <1>2, <1>3, <2>1, KeptInv
<1>4. \A S \in SUBSET Periods, p \in Periods \cup {NoPeriod} :
        (\A q \in S : q[2] < today) =>
          /\ [Idle EXCEPT !.close = S, !.accrue = p] \in Jobs
          /\ Sensible([Idle EXCEPT !.close = S, !.accrue = p], today)
          /\ [Idle EXCEPT !.close = S] \in Jobs /\ Sensible([Idle EXCEPT !.close = S], today)
  BY DEF Idle, Jobs, Sensible
<1>5. job[w] \in Jobs /\ Sensible(job[w], today) /\ BooksKept(books)
  BY <1>1
<1>6. CASE StartRefresh(w)
  <2> DEFINE j == [Idle EXCEPT !.close = Due(books, OptionFor(today)), !.accrue = ActivePeriod(today)]
  <2>1. job' = [job EXCEPT ![w] = j] /\ UNCHANGED <<payment, books, option, robbed, today>>
    BY <1>6 DEF StartRefresh
  <2>2. ActivePeriod(today) \in Periods
    BY InvFacts
  <2>3. j \in Jobs /\ Sensible(j, today)
    BY <1>4, <2>2, DueEnded
  <2> HIDE DEF j
  <2>4. BooksKept(books')
    BY <1>1, <2>1 DEF BooksKept, RefundsLedgered
  <2>5. QED
    BY <1>3, <2>1, <2>3, <2>4
<1>7. CASE StartFinalizer(w)
  <2> DEFINE cutoff == IF OptionFor(today) = "three_times_weekly" THEN ActivePeriod(today)[1]
                       ELSE Monday(today)
             j == [Idle EXCEPT !.close = {ActivePeriod(cutoff - 1)}]
  <2>1. /\ cutoff > 0 /\ ActivePeriod(cutoff - 1) \in Periods
        /\ job' = [job EXCEPT ![w] = j] /\ UNCHANGED <<payment, books, option, robbed, today>>
    BY <1>7 DEF StartFinalizer
  <2>2. ActivePeriod(cutoff - 1)[2] < today
    BY <2>1, PreviousEnded
  <2> HIDE DEF cutoff
  <2>3. j \in Jobs /\ Sensible(j, today)
    <3>1. {ActivePeriod(cutoff - 1)} \in SUBSET Periods /\ NoPeriod \in Periods \cup {NoPeriod}
          /\ \A q \in {ActivePeriod(cutoff - 1)} : q[2] < today
      BY <2>1, <2>2
    <3>2. QED
      BY <1>4, <3>1
  <2> HIDE DEF j
  <2>4. BooksKept(books')
    BY <1>1, <2>1 DEF BooksKept, RefundsLedgered
  <2>5. QED
    BY <1>3, <2>1, <2>3, <2>4
<1>8. CASE WriteNext(w)
  <2>1. PICK p \in Turn(w) :
          /\ books' = Generated(books, p, Accruing(w))
          /\ Done(w, p) /\ UNCHANGED <<payment, option, robbed, today>>
    BY <1>8 DEF WriteNext
  <2>2. p \in Periods /\ Accruing(w) \in BOOLEAN /\ (~Accruing(w) => p[2] < today)
    BY <1>5, <2>1, TurnEnded
  <2>3. PICK j \in Jobs : Sensible(j, today) /\ job' = [job EXCEPT ![w] = j]
    BY <1>1, <1>5, <2>1, DoneSensible
  <2>4. BooksKept(books')
    BY <1>1, <2>1, <2>2, GeneratedKept
  <2>5. QED
    BY <1>3, <2>1, <2>3, <2>4
<1>9. CASE FindNone(w)
  <2>1. PICK p \in Turn(w) :
          /\ job[w].missing = NoPeriod /\ job' = [job EXCEPT ![w].missing = p]
          /\ UNCHANGED <<payment, books, option, robbed, today>>
    BY <1>9 DEF FindNone
  <2> DEFINE j == [job[w] EXCEPT !.missing = p]
  <2>2. job' = [job EXCEPT ![w] = j]
    BY <1>1, <2>1
  <2>3. p \in Periods /\ (job[w].close # {} => p \in job[w].close)
    BY <1>5, <2>1, TurnEnded DEF Turn
  <2>4. j \in Jobs /\ Sensible(j, today)
    BY <1>5, <2>1, <2>3 DEF Jobs, Sensible
  <2> HIDE DEF j
  <2>5. BooksKept(books')
    BY <1>1, <2>1 DEF BooksKept, RefundsLedgered
  <2>6. QED
    BY <1>3, <2>1, <2>2, <2>4, <2>5
<1>10. CASE ReadEntries(w)
  <2> DEFINE p == job[w].missing
             entries == {e \in Eligible(books, p) : books.item[e] = NoItem}
             j == [job[w] EXCEPT !.entries = entries]
  <2>1. /\ p # NoPeriod
        /\ IF entries = {} THEN Done(w, p) ELSE job' = [job EXCEPT ![w].entries = entries]
        /\ UNCHANGED <<payment, books, option, robbed, today>>
    BY <1>10 DEF ReadEntries
  <2>2. BooksKept(books')
    BY <1>1, <2>1 DEF BooksKept, RefundsLedgered
  <2>3. entries \subseteq Entries /\ \A e \in entries : e[2] # "held"
    BY EligibleFree
  <2>4. j \in Jobs /\ Sensible(j, today)
    <3> HIDE DEF entries
    <3>1. QED
      BY <1>5, <2>1, <2>3 DEF Jobs, Sensible
  <2>5. CASE entries = {}
    <3>1. PICK i \in Jobs : Sensible(i, today) /\ job' = [job EXCEPT ![w] = i]
      BY <1>1, <1>5, <2>1, <2>5, DoneSensible
    <3>2. QED
      BY <1>3, <2>1, <2>2, <3>1
  <2>6. CASE entries # {}
    <3>1. job' = [job EXCEPT ![w] = j]
      BY <1>1, <2>1, <2>6
    <3> HIDE DEF j
    <3>2. QED
      BY <1>3, <2>1, <2>2, <2>4, <3>1
  <2>7. QED
    BY <2>5, <2>6
<1>11. CASE Crash(w)
  <2>1. job' = [job EXCEPT ![w] = Idle] /\ UNCHANGED <<payment, books, option, robbed, today>>
    BY <1>11 DEF Crash
  <2>2. BooksKept(books')
    BY <1>1, <2>1 DEF BooksKept, RefundsLedgered
  <2>3. Idle \in Jobs /\ Sensible(Idle, today)
    BY DEF Idle, Jobs, Sensible
  <2>4. QED
    BY <1>3, <2>1, <2>2, <2>3
<1>12. QED
  BY <1>6, <1>7, <1>8, <1>9, <1>10, <1>11 DEF Job

\* A late write may undo its statement, and take items from others; it leaves the
\* rest alone.
LEMMA WriteMissingKeeps ==
    ASSUME RemittanceInv, NEW w \in Workers, WriteMissing(w)
    PROVE  RemittanceInv' /\ SettledStay
<1> DEFINE p == job[w].missing
           entries == {e \in job[w].entries : p[1] <= books.ledger[e].effective
                                                /\ books.ledger[e].effective <= p[2]}
           lost == {books.item[e].period : e \in entries} \ {p, NoPeriod}
           c == Listed(books, p, entries, Accruing(w))
<1>1. /\ job[w].entries # {} /\ books' = c /\ robbed' = robbed \cup lost /\ Done(w, p)
      /\ UNCHANGED <<payment, option, today>>
  BY DEF WriteMissing
<1>2. /\ job \in [Workers -> Jobs] /\ \A v \in Workers : Sensible(job[v], today)
      /\ job[w] \in Jobs /\ Sensible(job[w], today)
      /\ books \in SoundBooks /\ books \in Books /\ \A e \in Entries : ItemSound(books, e)
      /\ ClosedBy(books, today) /\ RefundsLedgered(books) /\ robbed \subseteq Periods
      /\ \A q \in Periods \ robbed : ClaimListed(books, q)
  BY DEF RemittanceInv, JobOK, SoundBooks
<1>3. p \in Periods /\ Accruing(w) \in BOOLEAN /\ (~Accruing(w) => p[2] < today)
  BY <1>1, <1>2 DEF Jobs, Sensible, Accruing
<1>4. entries \subseteq Entries /\ \A e \in entries : e[2] # "held" /\ books.ledger[e] # NoEntry
  <2>1. p[1] \in Nat
    BY <1>3, PeriodsBegin
  <2>2. \A e \in entries : e \in Entries /\ e[2] # "held" /\ p[1] <= books.ledger[e].effective
    BY <1>2 DEF Jobs, Sensible
  <2> HIDE DEF p, entries
  <2>3. QED
    BY <2>1, <2>2 DEF NoEntry, Entry, NoDate
<1>5. \A q \in Periods \ {p} : q \notin lost => \A e \in entries : books.item[e].period # q
  BY KnownPeriods
<1>6. lost \subseteq Periods
  <2>1. \A e \in entries : books.item[e].period \in Periods \cup {NoPeriod}
    BY <1>2, <1>4 DEF Books
  <2> HIDE DEF entries
  <2>2. QED
    BY <2>1
<1>7. PICK j \in Jobs : Sensible(j, today) /\ job' = [job EXCEPT ![w] = j]
  BY <1>1, <1>2, DoneSensible
<1>8. OptionOK' /\ PaymentOK' /\ JobOK' /\ (today \in Dates)' /\ robbed' \subseteq Periods
  BY <1>1, <1>2, <1>6, <1>7 DEF RemittanceInv, OptionOK, PaymentOK, JobOK
<1>9. \A q \in Periods : \/ q = p \/ q \in lost
                         \/ \A e \in entries : books.item[e].period # q
  BY <1>5
<1>10. ASSUME NEW q \in Periods, q = p \/ q \in lost
       PROVE  Overtaken(q)
  <2>1. q = p \/ \E e \in job[w].entries : books.item[e].period = q
    BY <1>10
  <2>2. QED
    BY <2>1 DEF Overtaken
<1>11. /\ entries = {} => c = books
       /\ c \in Books /\ c.ledger = books.ledger
       /\ entries # {} => Written(books, p, entries, Accruing(w), c)
  <2> HIDE DEF p, entries
  <2>1. QED
    BY <1>2, <1>3, <1>4, ListedEffect
<1> HIDE DEF p, entries, lost, c
<1>12. CASE entries = {}
  <2>1. books' = books
    BY <1>1, <1>11, <1>12
  <2>2. (books \in SoundBooks)'
    BY <1>1, <1>2, <2>1 DEF SoundBooks
  <2>3. (ClosedBy(books, today))' /\ (RefundsLedgered(books))'
    BY <1>1, <1>2, <2>1 DEF ClosedBy, RefundsLedgered
  <2>4. SettledStay
    BY <2>1 DEF SettledStay
  <2>5. QED
    BY <1>8, <2>2, <2>3, <2>4 DEF RemittanceInv
<1>13. CASE entries # {}
  <2>1. Written(books, p, entries, Accruing(w), c)
    BY <1>11, <1>13
  <2>2. /\ \A e \in Entries : ItemSound(c, e)
        /\ ClaimListed(c, p)
        /\ \A q \in Periods \ {p} :
             (\A e \in entries : books.item[e].period # q) /\ ClaimListed(books, q) => ClaimListed(c, q)
    BY <1>2, <1>3, <1>4, <1>11, <2>1, WrittenClaims
  <2>3. \A q \in Periods \ {p} :
          (\A e \in entries : books.item[e].period # q) => SameItemsIn(books, c, q)
    BY <1>3, <1>4, <2>1, WrittenItems
  <2>4. \A q \in Periods \ {p} : c.statement[q] = books.statement[q]
    BY <2>1 DEF Written
  <2>5. \A q \in Periods \ robbed' : ClaimListed(c, q)
    BY <1>1, <1>2, <1>9, <2>2
  <2>6. (books \in SoundBooks)'
    BY <1>1, <1>11, <2>2, <2>5 DEF SoundBooks
  <2>7. ClosedBy(c, today)
    BY <1>2, <1>3, <2>1, WrittenClosed
  <2>8. (ClosedBy(books, today))' /\ (RefundsLedgered(books))'
    BY <1>1, <1>2, <1>11, <2>7 DEF ClosedBy, RefundsLedgered
  <2>9. ASSUME NEW q \in Periods
        PROVE  \/ ItemsOf(c, q) = ItemsOf(books, q) /\ c.statement[q] = books.statement[q]
               \/ Overtaken(q)
    BY <1>9, <1>10, <2>3, <2>4 DEF SameItemsIn
  <2>10. SettledStay
    BY <1>1, <2>9 DEF SettledStay
  <2>11. QED
    BY <1>8, <2>6, <2>8, <2>10 DEF RemittanceInv
<1>14. QED
  BY <1>12, <1>13

\* The option changes and the week is written again only while its statements
\* accrue.
LEMMA SwitchPayoutOptionKeeps ==
    ASSUME RemittanceInv, NEW opt \in PayoutOptions, SwitchPayoutOption(opt)
    PROVE  RemittanceInv' /\ Final(books, books')
<1> DEFINE left == Synced(Deleted(books, Existing(ThisWeek)), Made)
           closed == AllClosed(left, Due(left, opt))
<1>1. /\ \A p \in Existing(ThisWeek) : Status(p) = "ACCRUING"
      /\ option' = [current |-> opt, previous |-> "", since |-> 0]
      /\ books' = Generated(closed, ActiveUnder(opt, today), TRUE)
      /\ UNCHANGED <<payment, job, robbed, today>>
  BY DEF SwitchPayoutOption
<1>2. BooksKept(Deleted(books, Existing(ThisWeek)))
  <2>1. Existing(ThisWeek) \subseteq Periods
    BY DEF Existing, ThisWeek
  <2>2. \A p \in Existing(ThisWeek) : Status(p) \notin Settled
    BY <1>1 DEF Settled
  <2>3. QED
    BY <2>1, <2>2, DeletedKept
<1>3. BooksKept(left)
  BY <1>2, SyncedKept
<1> HIDE DEF left
<1>4. BooksKept(closed)
  BY <1>3, DueEnded, WrittenKept DEF AllClosed
<1> HIDE DEF closed
<1>5. ActiveUnder(opt, today) \in Periods
  BY InvFacts
<1>6. BooksKept(books')
  BY <1>1, <1>4, <1>5, GeneratedKept
<1>7. OptionOK'
  <2>1. 0 \in Nat /\ 0 % 7 = 0
    OBVIOUS
  <2>2. QED
    BY <1>1, <2>1 DEF OptionOK
<1>8. JobOK'
  BY <1>1 DEF RemittanceInv, JobOK
<1>9. QED
  BY <1>1, <1>6, <1>7, <1>8, KeptInv

\* The command changes the option from a Monday on, and deletes no statement that
\* was checked or paid.
LEMMA SetThreeTimesWeeklyKeeps ==
    ASSUME RemittanceInv, SetThreeTimesWeekly
    PROVE  RemittanceInv' /\ Final(books, books')
<1> DEFINE week == Existing(ThisWeek)
           m == Monday(today)
           new == PayoutPeriods("three_times_weekly", m)
           active == {p \in new : p[1] <= today /\ today <= p[2]}
           started == {p \in new : p[1] <= today}
           built == WrittenAnew(Deleted(books, week), started, active)
<1>1. /\ option.current # "three_times_weekly"
      /\ option' = [current |-> "three_times_weekly", previous |-> option.current,
                    since |-> IF \A p \in week : Rebuildable(p) THEN m ELSE m + 7]
      /\ IF \A p \in week : Rebuildable(p) THEN books' = built ELSE UNCHANGED books
      /\ UNCHANGED <<payment, job, robbed, today>>
  BY DEF SetThreeTimesWeekly
<1>2. "three_times_weekly" \in PayoutOptions /\ today \in Nat
  BY InvFacts DEF PayoutOptions
<1>3. new \subseteq Periods
  BY <1>2, InvFacts
<1>4. OptionOK'
  <2>1. m \in Nat /\ m % 7 = 0
    BY <1>2, MondayOfDay
  <2>2. m + 7 \in Nat /\ (m + 7) % 7 = 0
    BY <2>1
  <2>3. option.current \in PayoutOptions
    BY DEF RemittanceInv, OptionOK
  <2> HIDE DEF m, week
  <2>4. QED
    BY <1>1, <1>2, <2>1, <2>2, <2>3 DEF OptionOK
<1>5. JobOK'
  BY <1>1 DEF RemittanceInv, JobOK
<1>6. ASSUME \A p \in week : Rebuildable(p) PROVE BooksKept(built)
  <2>1. week \subseteq Periods /\ \A p \in week : Status(p) \notin Settled
    BY <1>6 DEF Existing, ThisWeek, Rebuildable, Settled
  <2>2. BooksKept(Deleted(books, week))
    BY <2>1, DeletedKept
  <2>3. \A p \in started \ active : p[2] < today
    <3>1. \A p \in new : p[2] \in Int
      BY <1>3, KnownPeriods
    <3> HIDE DEF new
    <3>2. QED
      BY <1>2, <3>1
  <2>4. started \subseteq Periods
    BY <1>3
  <2> HIDE DEF started, active, week
  <2>5. QED
    BY <2>2, <2>3, <2>4, WrittenKept
<1> HIDE DEF built, week
<1>7. BooksKept(books')
  <2>1. CASE \A p \in week : Rebuildable(p)
    BY <1>1, <1>6, <2>1
  <2>2. CASE ~ \A p \in week : Rebuildable(p)
    <3>1. books' = books /\ BooksKept(books)
      BY <1>1, <2>2, InvFacts
    <3>2. QED
      BY <3>1 DEF BooksKept, RefundsLedgered
  <2>3. QED
    BY <2>1, <2>2
<1>8. QED
  BY <1>1, <1>4, <1>5, <1>7, KeptInv

\* People keep the amounts and the items of every statement.
LEMMA ReviewKeeps ==
    ASSUME RemittanceInv, NEW p \in Periods, Review(p)
    PROVE  /\ RemittanceInv'
           /\ \A q \in Periods :
                /\ ItemsOf(books', q) = ItemsOf(books, q)
                /\ books'.statement[q].gross = books.statement[q].gross
                /\ books'.statement[q].refund = books.statement[q].refund
                /\ q # p => books'.statement[q] = books.statement[q]
<1>1. PICK s, settlement : /\ Revised(p, s) /\ settlement \in [Payments -> Settlements]
                           /\ books' = Rewritten(books, p, s, settlement)
  BY ReviewRewrites
<1>2. UNCHANGED <<payment, option, job, robbed, today>>
  BY ReviewRewrites
<1>3. books \in SoundBooks /\ ClosedBy(books, today) /\ RefundsLedgered(books)
  BY DEF RemittanceInv
<1>4. /\ s \in Statements /\ s.gross = books.statement[p].gross /\ s.refund = books.statement[p].refund
      /\ s.status \in Settled \cup {"PENDING"} => Status(p) \in Settled \cup {"PENDING"}
  BY <1>1 DEF Revised
<1>5. /\ books' \in SoundBooks /\ books'.ledger = books.ledger
      /\ \A q \in Periods : ItemsOf(books', q) = ItemsOf(books, q)
      /\ \A q \in Periods \ {p} : books'.statement[q] = books.statement[q]
      /\ books'.statement[p] = s
  BY <1>1, <1>3, <1>4, RewrittenSound
<1>6. (books \in SoundBooks)' /\ (RefundsLedgered(books))'
  BY <1>2, <1>3, <1>5, SoundSame DEF RefundsLedgered
<1>7. (ClosedBy(books, today))'
  BY <1>2, <1>3, <1>4, <1>5 DEF ClosedBy, Status
<1>8. OptionOK' /\ PaymentOK' /\ JobOK' /\ (today \in Dates)'
  BY <1>2 DEF RemittanceInv, OptionOK, PaymentOK, JobOK
<1>9. \A q \in Periods : /\ books'.statement[q].gross = books.statement[q].gross
                         /\ books'.statement[q].refund = books.statement[q].refund
  BY <1>4, <1>5
<1>10. QED
  BY <1>2, <1>5, <1>6, <1>7, <1>8, <1>9 DEF RemittanceInv

\* What has ended stays so the next day.
LEMMA TickKeeps ==
    ASSUME RemittanceInv, Tick
    PROVE  RemittanceInv' /\ Final(books, books')
<1> DEFINE later == {d \in Dates : d > today}
<1>1. today < LastDate /\ today' = Min(later) /\ UNCHANGED <<payment, books, option, job, robbed>>
  BY DEF Tick
<1>2. today \in Nat /\ today \in Dates
  BY InvFacts DEF RemittanceInv
<1>3. today' \in Dates /\ today' \in Nat /\ today < today'
  <2>1. LastDate \in Dates
    <3>1. Dates \subseteq Int
      BY DatesOK
    <3>2. QED
      BY <3>1, DatesOK, GreatestOne DEF LastDate
  <2>2. later \subseteq Int /\ later # {} /\ later \subseteq Dates
    <3>1. LastDate \in later
      BY <1>1, <2>1
    <3>2. later \subseteq Dates
      OBVIOUS
    <3> HIDE DEF later
    <3>3. QED
      BY <3>1, <3>2, DatesOK
  <2>3. IsFiniteSet(later)
    BY <2>2, DatesOK, FS_Subset
  <2>4. Min(later) \in later
    <3> HIDE DEF later
    <3>1. QED
      BY <2>2, <2>3, LeastOne
  <2>5. QED
    BY <1>1, <2>4, DatesOK
<1> HIDE DEF later
<1>4. OptionOK' /\ PaymentOK'
  <2>1. \A p \in Payments : payment[p].paid_on \in Nat \cup {NoDate} /\ payment[p].paid_on <= today
    BY DEF RemittanceInv, PaymentOK
  <2>2. \A p \in Payments : payment[p].paid_on <= today'
    BY <1>2, <1>3, <2>1 DEF NoDate
  <2>3. QED
    BY <1>1, <2>2 DEF RemittanceInv, OptionOK, PaymentOK
<1>5. \A p \in Periods : p[2] < today => p[2] < today'
  BY <1>2, <1>3, KnownPeriods
<1>6. JobOK'
  <2>1. job \in [Workers -> Jobs] /\ \A w \in Workers : job[w] \in Jobs /\ Sensible(job[w], today)
    BY DEF RemittanceInv, JobOK
  <2>2. \A w \in Workers : Sensible(job[w], today')
    BY <1>5, <2>1 DEF Jobs, Sensible
  <2>3. QED
    BY <1>1, <2>1, <2>2 DEF JobOK
<1>7. (ClosedBy(books, today))'
  BY <1>1, <1>5 DEF RemittanceInv, ClosedBy
<1>8. (books \in SoundBooks)' /\ (RefundsLedgered(books))' /\ Final(books, books')
  BY <1>1, SoundSame DEF RemittanceInv, RefundsLedgered, Final
<1>9. QED
  BY <1>1, <1>3, <1>4, <1>6, <1>7, <1>8 DEF RemittanceInv

\* Every step keeps the invariant, and what is settled.
LEMMA NextKeeps ==
    ASSUME RemittanceInv, [Next]_vars
    PROVE  RemittanceInv' /\ SettledStay
<1>1. CASE UNCHANGED vars
  <2>1. UNCHANGED <<payment, books, option, job, robbed, today>>
    BY <1>1 DEF vars
  <2>2. OptionOK' /\ PaymentOK' /\ JobOK' /\ (today \in Dates)'
    BY <2>1 DEF RemittanceInv, OptionOK, PaymentOK, JobOK
  <2>3. (books \in SoundBooks)' /\ (ClosedBy(books, today))' /\ (RefundsLedgered(books))'
    BY <2>1, SoundSame DEF RemittanceInv, ClosedBy, RefundsLedgered
  <2>4. Final(books, books')
    BY <2>1 DEF Final
  <2>5. QED
    BY <2>1, <2>2, <2>3, <2>4, FinalStays DEF RemittanceInv
<1>2. ASSUME NEW p \in Payments, Paying(p) PROVE RemittanceInv' /\ SettledStay
  BY <1>2, PayingKeeps, FinalStays
<1>3. ASSUME NEW w \in Workers, Job(w) PROVE RemittanceInv' /\ SettledStay
  BY <1>3, JobKeeps, WriteMissingKeeps, FinalStays
<1>4. ASSUME NEW p \in Periods, Review(p) PROVE RemittanceInv' /\ SettledStay
  <2>1. /\ RemittanceInv'
        /\ \A q \in Periods :
             /\ ItemsOf(books', q) = ItemsOf(books, q)
             /\ books'.statement[q].gross = books.statement[q].gross
             /\ books'.statement[q].refund = books.statement[q].refund
             /\ q # p => books'.statement[q] = books.statement[q]
    BY <1>4, ReviewKeeps
  <2>2. QED
    BY <1>4, <2>1 DEF SettledStay
<1>5. CASE SetThreeTimesWeekly
  BY <1>5, SetThreeTimesWeeklyKeeps, FinalStays
<1>6. ASSUME NEW opt \in PayoutOptions, SwitchPayoutOption(opt) PROVE RemittanceInv' /\ SettledStay
  BY <1>6, SwitchPayoutOptionKeeps, FinalStays
<1>7. CASE Tick
  BY <1>7, TickKeeps, FinalStays
<1>8. QED
  BY <1>1, <1>2, <1>3, <1>4, <1>5, <1>6, <1>7 DEF Next, Switching

\* With no payments there is nothing to claim.
LEMMA InitInv ==
    ASSUME Init
    PROVE  RemittanceInv
<1>1. today \in Dates /\ today \in Nat
  <2>1. Dates \subseteq Int
    BY DatesOK
  <2>2. Min(Dates) \in Dates
    BY <2>1, DatesOK, LeastOne
  <2>3. QED
    BY <2>2, DatesOK DEF Init
<1>2. OptionOK
  <2>1. 0 \in Nat /\ 0 % 7 = 0
    OBVIOUS
  <2>2. QED
    BY <2>1 DEF Init, OptionOK
<1>3. PaymentOK
  <2>1. /\ Unpaid \in [paid_on : Nat \cup {NoDate}, check_in : Nat \cup {NoDate},
                       non_refundable : BOOLEAN, refunded : 0 .. Amount, refunded_on : Nat \cup {NoDate}]
        /\ Unpaid.refunded = 0 /\ Unpaid.paid_on = NoDate
    BY DatesOK DEF Unpaid
  <2>2. \A p \in Payments : payment[p] = Unpaid
    BY DEF Init
  <2>3. payment \in [Payments -> [paid_on : Nat \cup {NoDate}, check_in : Nat \cup {NoDate},
                       non_refundable : BOOLEAN, refunded : 0 .. Amount, refunded_on : Nat \cup {NoDate}]]
    BY <2>1 DEF Init
  <2>4. NoDate <= today
    BY <1>1 DEF NoDate
  <2>5. QED
    BY <2>1, <2>2, <2>3, <2>4 DEF PaymentOK
<1>4. JobOK
  <2>1. Idle \in Jobs /\ Sensible(Idle, today)
    BY DEF Idle, Jobs, Sensible
  <2>2. QED
    BY <2>1 DEF Init, JobOK
<1>5. /\ NoStatement \in Statements /\ NoStatement.gross = 0 /\ NoStatement.refund = 0 /\ NoStatement.status = "NONE"
      /\ NoItem \in [period : Periods \cup {NoPeriod}, gross : {0, Amount}, refund : 0 .. Amount]
      /\ NoItem.period = NoPeriod /\ NoItem.refund = 0
      /\ NoEntry \in [effective : Int, refund : 0 .. Amount] /\ NoEntry.refund = 0
  BY DatesOK DEF NoStatement, NoItem, NoEntry, Entry, NoDate, Statements, Statuses, Adjustments
<1>6. /\ books.ledger = [e \in Entries |-> NoEntry] /\ books.item = [e \in Entries |-> NoItem]
      /\ books.statement = [p \in Periods |-> NoStatement]
  BY DEF Init
<1>7. books \in Books
  <2>1. [p \in Payments |-> "UNPAID"] \in [Payments -> Settlements]
    BY DEF Settlements
  <2>2. QED
    BY <1>5, <2>1 DEF Init, Books
<1>8. \A e \in Entries : ItemSound(books, e)
  BY <1>5, <1>6 DEF ItemSound
<1>9. ASSUME NEW p \in Periods \ robbed PROVE ClaimListed(books, p)
  <2>1. ItemsOf(books, p) = {}
    BY <1>5, <1>6, KnownPeriods DEF ItemsOf
  <2>2. ItemsGross(books, p) = 0 /\ ItemsRefund(books, p) = 0
    BY <2>1, SumEmpty DEF ItemsGross, ItemsRefund
  <2>3. QED
    BY <1>5, <1>6, <2>2 DEF ClaimListed
<1>10. ClosedBy(books, today)
  BY <1>5, <1>6 DEF ClosedBy, Settled
<1>11. RefundsLedgered(books)
  BY <1>6 DEF RefundsLedgered, Entries, Kinds
<1>12. QED
  BY <1>1, <1>2, <1>3, <1>4, <1>7, <1>8, <1>9, <1>10, <1>11 DEF RemittanceInv, SoundBooks, Init

\* The invariant holds in every state, whatever jobs, pages, commands and people
\* do side by side.
THEOREM RemittanceInvariance == Spec => []RemittanceInv
<1>1. RemittanceInv /\ [Next]_vars => RemittanceInv'
  BY NextKeeps
<1>2. QED
  BY InitInv, <1>1, PTL DEF Spec

\* A statement is due for checking only when its period has ended: no job, page or
\* command closes one early.
THEOREM DueWhenClosed == Spec => []OnlyClosedPeriodsDue
<1>1. RemittanceInv => OnlyClosedPeriodsDue
  BY DEF RemittanceInv, ClosedBy, OnlyClosedPeriodsDue, Status
<1>2. QED
  BY RemittanceInvariance, <1>1, PTL

\* Statements that were checked or paid are final: only people, and the
\* command that recalculates, move them on or back, and never their amounts or
\* items; but for a worker that looked before they were written and writes after.
THEOREM SettledIsFinal == Spec => StatementsFinal
<1>1. RemittanceInv /\ [Next]_vars => [SettledStay]_vars
  BY NextKeeps
<1>2. QED
  BY RemittanceInvariance, <1>1, PTL DEF Spec, StatementsFinal, SettledStay

-----------------------------------------------------------------------------
(* The pages of the hotel's money. *)

\* What the revenue page computes from a payment agrees with the ledger that
\* other pages read.
LEMMA LedgerTold ==
    ASSUME RemittanceInv
    PROVE  RevenueTellsLedger
<1>1. PaymentOK /\ books \in SoundBooks /\ RefundsLedgered(books) /\ Made \subseteq Payments
  BY DEF RemittanceInv, Made
<1>2. /\ \A e \in Entries : Ledger[e] = SyncedEntry(books, Made, e)
      /\ RefundsLedgered(Synced(books, Made))
  BY <1>1, SyncedSound DEF Ledger
<1>3. \A p \in Payments, kind \in Kinds : <<p, kind>> \in Entries
  BY DEF Entries
<1>4. ASSUME NEW p \in Made, LedgerInOrder(p)
      PROVE  /\ p \in HeldFunds <=> Revenue(p).held > 0
             /\ Revenue(p).released > 0 => Ledger[<<p, "release">>] # NoEntry
             /\ Revenue(p).collection > 0 => Ledger[<<p, "collection">>] # NoEntry
             /\ Revenue(p).refunded > 0 <=> p \in DOMAIN Refunds /\ Refunds[p] = Revenue(p).refunded
             /\ p \in HeldFunds => \A kind \in {"collection", "release"} : books.item[<<p, kind>>] = NoItem
  <2>1. /\ p \in Payments /\ payment[p].paid_on \in Nat /\ payment[p].check_in \in Nat
        /\ payment[p].paid_on <= today /\ payment[p].refunded \in 0 .. Amount
        /\ payment[p].non_refundable \in BOOLEAN
        /\ Amount \in Nat /\ today \in Nat
    BY <1>1, DatesOK, InvFacts DEF PaymentOK, Made
  <2>2. /\ Ledger[<<p, "collection">>] # NoEntry <=> ~Held(p)
        /\ Ledger[<<p, "held">>] # NoEntry <=> Held(p)
        /\ Ledger[<<p, "release">>] # NoEntry <=> Released(p)
    BY <1>4 DEF LedgerInOrder
  <2>3. p \in HeldFunds <=> Held(p) /\ ~Released(p) /\ Remaining(p) > 0
    BY <2>1, <2>2 DEF HeldFunds
  <2>4. p \in HeldFunds <=> Revenue(p).held > 0
    <3>1. Revenue(p).held = IF RevenueStatus(p) = "held" THEN Remaining(p) ELSE 0
      BY DEF Revenue
    <3>2. Remaining(p) \in Nat
      BY <2>1 DEF Remaining
    <3>3. RevenueStatus(p) = "held" <=>
            Remaining(p) # 0 /\ ~payment[p].non_refundable /\ today < payment[p].check_in
      BY <2>1 DEF RevenueStatus
    <3>4. Held(p) /\ ~Released(p) <=> ~payment[p].non_refundable /\ today < payment[p].check_in
      BY <2>1 DEF Held, Released
    <3>5. QED
      BY <2>3, <3>1, <3>2, <3>3, <3>4
  <2>5. Revenue(p).released > 0 => Ledger[<<p, "release">>] # NoEntry
    <3>1. Revenue(p).released > 0 =>
            ~payment[p].non_refundable /\ Advance(p) /\ RevenueStatus(p) = "available"
      BY DEF Revenue
    <3>2. RevenueStatus(p) = "available" /\ ~payment[p].non_refundable => today >= payment[p].check_in
      BY DEF RevenueStatus
    <3>3. QED
      BY <2>1, <2>2, <3>1, <3>2 DEF Advance, Held, Released
  <2>6. Revenue(p).collection > 0 => Ledger[<<p, "collection">>] # NoEntry
    <3> DEFINE available == IF RevenueStatus(p) = "available" THEN Remaining(p) ELSE 0
    <3>1. Revenue(p).collection =
            available - IF ~payment[p].non_refundable /\ Advance(p) THEN available ELSE 0
      BY DEF Revenue
    <3>2. available \in Nat
      BY <2>1 DEF Remaining
    <3> HIDE DEF available
    <3>3. Revenue(p).collection > 0 => payment[p].non_refundable \/ ~Advance(p)
      BY <3>1, <3>2
    <3>4. QED
      BY <2>1, <2>2, <3>3 DEF Advance, Held
  <2>7. Revenue(p).refunded > 0 <=> p \in DOMAIN Refunds /\ Refunds[p] = Revenue(p).refunded
    <3> DEFINE entry == Ledger[<<p, "refund">>]
    <3>1. Revenue(p).refunded = payment[p].refunded
      BY DEF Revenue
    <3>2. DOMAIN Refunds = {q \in Payments : Ledger[<<q, "refund">>] # NoEntry}
          /\ (p \in DOMAIN Refunds => Refunds[p] = entry.refund)
      BY DEF Refunds
    <3>3. payment[p].refunded = 0 => entry = NoEntry
      BY <1>2, <2>1 DEF RefundsLedgered, Ledger
    <3>4. payment[p].refunded > 0 =>
            entry = Entry(payment[p].refunded_on, payment[p].refunded)
      <4>1. <<p, "refund">> \in Entries /\ <<p, "refund">>[1] = p /\ <<p, "refund">>[2] = "refund"
        BY <1>3, <2>1 DEF Kinds
      <4>2. entry = SyncedEntry(books, Made, <<p, "refund">>)
        BY <1>2, <4>1
      <4>3. QED
        BY <4>1, <4>2, <1>4 DEF SyncedEntry
    <3>5. payment[p].refunded > 0 => entry # NoEntry /\ entry.refund = payment[p].refunded
      BY <2>1, <3>4 DEF Entry, NoEntry
    <3> HIDE DEF entry
    <3>6. QED
      BY <2>1, <3>1, <3>2, <3>3, <3>5 DEF entry
  <2>8. ASSUME p \in HeldFunds, NEW kind \in {"collection", "release"}
        PROVE  books.item[<<p, kind>>] = NoItem
    <3>1. <<p, kind>> \in Entries
      BY <1>3, <2>1 DEF Kinds
    <3>2. Ledger[<<p, kind>>] = NoEntry
      BY <2>2, <2>3, <2>8
    <3>3. books.ledger[<<p, kind>>] = NoEntry
      BY <1>1, <1>2, <3>1, <3>2, SyncedEntrySound
    <3>4. ItemSound(books, <<p, kind>>)
      BY <1>1, <3>1 DEF SoundBooks
    <3>5. QED
      BY <3>3, <3>4 DEF ItemSound
  <2>9. QED
    BY <2>4, <2>5, <2>6, <2>7, <2>8
<1>5. QED
  BY <1>4 DEF RevenueTellsLedger

\* The revenue page and the pages read from the ledger agree about every payment
\* whose stay was not moved over its payment or release, and no money shown as
\* held is in a statement.
THEOREM PagesAgree == Spec => []RevenueTellsLedger
BY RemittanceInvariance, LedgerTold, PTL

-----------------------------------------------------------------------------
(* The statement the hotel is to be paid next. *)

\* A period closed in b with nothing left to write for it is not accruing, or
\* stranded.
Dealt(b, p) == b.statement[p].status = "ACCRUING" => Eligible(b, p) = {}

\* Writing one statement deals with it, if it is closed.
LEMMA GeneratedDealt ==
    ASSUME NEW b \in Books, NEW p \in Periods
    PROVE  Dealt(Generated(b, p, FALSE), p)
<1>1. CASE Writes(b, p, FALSE)
  <2>1. Generated(b, p, FALSE).statement[p].status = "PENDING"
    BY <1>1, GeneratedEffect DEF Written
  <2>2. QED
    BY <2>1 DEF Dealt
<1>2. CASE ~Writes(b, p, FALSE)
  <2>1. Generated(b, p, FALSE) = b
    BY <1>2, GeneratedEffect
  <2>2. Kept(b.statement[p], ItemsOf(b, p), FALSE) => b.statement[p].status # "ACCRUING"
    BY DEF Kept, Settled
  <2>3. QED
    BY <1>2, <2>1, <2>2 DEF Dealt, Writes
<1>3. QED
  BY <1>1, <1>2

\* And it does not put entries back into another's reach.
LEMMA OthersDealt ==
    ASSUME NEW b \in Books, NEW p \in Periods, NEW accruing \in BOOLEAN, NEW q \in Periods, q # p
    PROVE  /\ Dealt(b, q) => Dealt(Generated(b, p, accruing), q)
           /\ Generated(b, p, accruing).statement[q] = b.statement[q]
           /\ Eligible(Generated(b, p, accruing), q) \subseteq Eligible(b, q)
<1> DEFINE c == Generated(b, p, accruing)
<1>1. CASE ~Writes(b, p, accruing)
  <2>1. c = b
    BY <1>1, GeneratedEffect
  <2>2. QED
    BY <2>1
<1>2. CASE Writes(b, p, accruing)
  <2>1. Written(b, p, Eligible(b, p), accruing, c) /\ c.ledger = b.ledger
    BY <1>2, GeneratedEffect
  <2> HIDE DEF c
  <2>2. c.statement[q] = b.statement[q]
    BY <2>1 DEF Written
  <2>3. \A e \in Entries : c.item[e].period \in {NoPeriod, q} => c.item[e] = b.item[e]
    <3>1. p # NoPeriod
      BY KnownPeriods
    <3>2. \A e : NewItem(b, p, e).period = p
      BY DEF NewItem
    <3>3. \A e \in Entries : c.item[e] = IF e \in Eligible(b, p) THEN NewItem(b, p, e) ELSE b.item[e]
      BY <2>1 DEF Written
    <3>4. QED
      BY <3>1, <3>2, <3>3
  <2>4. Eligible(c, q) \subseteq Eligible(b, q)
    BY <2>1, <2>3 DEF Eligible
  <2>5. Dealt(b, q) => Dealt(c, q)
    BY <2>2, <2>4 DEF Dealt
  <2>6. QED
    BY <2>2, <2>4, <2>5 DEF c
<1>3. QED
  BY <1>1, <1>2

\* Closing several deals with all of them, and with no other.
LEMMA ClosedDealt ==
    ASSUME NEW b \in Books, NEW S, S \subseteq Periods
    PROVE  /\ AllClosed(b, S) \in Books
           /\ \A p \in S : Dealt(AllClosed(b, S), p)
           /\ \A p \in Periods \ S : AllClosed(b, S).statement[p] = b.statement[p]
<1> DEFINE dealt(T) == {c \in Books : /\ \A p \in T : Dealt(c, p)
                                      /\ \A p \in Periods \ T : c.statement[p] = b.statement[p]}
           D == [T \in SUBSET S |-> dealt(T)]
<1>1. IsFiniteSet(S)
  BY PeriodsFinite, FS_Subset
<1>2. b \in dealt({})
  OBVIOUS
<1>3. ASSUME NEW T \in SUBSET S, NEW p \in T, NEW c \in dealt(T \ {p})
      PROVE  Generated(c, p, FALSE) \in dealt(T)
  <2>1. c \in Books /\ p \in Periods
    BY <1>3
  <2>2. \A q \in T \ {p} : Dealt(c, q)
    BY <1>3
  <2>3. \A q \in (Periods \ T) \cup {p} : c.statement[q] = b.statement[q]
    BY <1>3
  <2>4. Generated(c, p, FALSE) \in Books
    BY <2>1, GeneratedEffect
  <2>5. \A q \in T : Dealt(Generated(c, p, FALSE), q)
    <3>1. Dealt(Generated(c, p, FALSE), p)
      BY <2>1, GeneratedDealt
    <3>2. ASSUME NEW q \in T, q # p PROVE Dealt(Generated(c, p, FALSE), q)
      BY <2>1, <2>2, <3>2, OthersDealt
    <3>3. QED
      BY <3>1, <3>2
  <2>6. ASSUME NEW q \in Periods \ T PROVE Generated(c, p, FALSE).statement[q] = b.statement[q]
    <3>1. q # p
      BY <2>6
    <3>2. QED
      BY <2>1, <2>3, <3>1, OthersDealt
  <2>7. QED
    BY <2>4, <2>5, <2>6
<1> HIDE DEF dealt
<1>4. b \in D[{}] /\ D[S] = dealt(S)
  BY <1>2
<1>5. \A T \in SUBSET S : \A p \in T : \A c \in D[T \ {p}] : Generated(c, p, p \in {}) \in D[T]
  <2>1. \A p : (p \in {}) = FALSE
    OBVIOUS
  <2>2. \A T \in SUBSET S : \A p \in T : T \ {p} \in SUBSET S
    OBVIOUS
  <2>3. QED
    BY <1>3, <2>1, <2>2
<1> HIDE DEF D
<1>6. WrittenAnew(b, S, {}) \in D[S]
  BY <1>1, <1>4, <1>5, WrittenOneByOne
<1>7. AllClosed(b, S) \in dealt(S)
  BY <1>4, <1>6 DEF AllClosed
<1>8. QED
  BY <1>7 DEF dealt

\* After the refresh a period of the past is dealt with.
LEMMA RefreshDeals ==
    ASSUME RemittanceInv
    PROVE  /\ Refreshed \in Books
           /\ \A p \in Periods : p[2] < today => Dealt(Refreshed, p)
<1> DEFINE synced == Synced(books, Made)
           due == Due(books, OptionFor(today))
           closed == AllClosed(synced, due)
           active == ActivePeriod(today)
<1>1. synced \in Books /\ synced.statement = books.statement
  <2>1. PaymentOK /\ books \in SoundBooks /\ Made \subseteq Made
    BY DEF RemittanceInv
  <2>2. QED
    BY <2>1, SyncedSound DEF SoundBooks
<1>2. due \subseteq Periods /\ \A p \in Periods : p[2] < today /\ p \notin due => books.statement[p].status # "ACCRUING"
  BY DEF Due
<1> HIDE DEF synced, due
<1>3. /\ closed \in Books /\ \A p \in due : Dealt(closed, p)
      /\ \A p \in Periods \ due : closed.statement[p] = synced.statement[p]
  BY <1>1, <1>2, ClosedDealt
<1>4. \A p \in Periods : p[2] < today => Dealt(closed, p)
  BY <1>1, <1>2, <1>3 DEF Dealt
<1>5. active \in Periods /\ ~(active[2] < today)
  <2>1. OptionFor(today) \in PayoutOptions /\ today \in Nat
    BY InvFacts
  <2>2. active \in Periods /\ active = ActiveUnder(OptionFor(today), today)
    BY <2>1, InvFacts
  <2>3. active[2] \in Int /\ today <= active[2]
    BY <2>1, <2>2, ActiveOfDay, KnownPeriods
  <2>4. QED
    BY <2>1, <2>2, <2>3
<1>6. Refreshed = Generated(closed, active, TRUE)
  BY DEF Refreshed, synced, due
<1> HIDE DEF closed, active
<1>7. Refreshed \in Books
  BY <1>3, <1>5, <1>6, GeneratedEffect
<1>8. \A p \in Periods : p[2] < today => Dealt(Refreshed, p)
  BY <1>3, <1>4, <1>5, <1>6, OthersDealt
<1>9. QED
  BY <1>7, <1>8

\* The statements of the week before the current period that are not paid, and
\* the one the hotel is shown.
LEMMA ShownFirst ==
    ASSUME RemittanceInv, NEW b \in Books
    PROVE  /\ Blocking(b) \subseteq UnpaidIn(b, Periods)
           /\ \A p \in Blocking(b) : /\ p[2] < today /\ p # ActivePeriod(today)
                                     /\ p[1] < ActivePeriod(today)[1]
           /\ Blocking(b) # {} => /\ AvailableRevenue(b) \in Blocking(b)
                                  /\ \A p \in Blocking(b) : AvailableRevenue(b)[1] <= p[1]
           /\ Blocking(b) = {} => AvailableRevenue(b) = ActivePeriod(today)
           /\ \A p \in PayoutPeriods(OptionFor(today), Monday(today)) :
                p[1] < ActivePeriod(today)[1] => p \in Blocking(b) \/ p \notin UnpaidIn(b, Periods)
<1> DEFINE m == Monday(today)
           opt == OptionFor(today)
           active == ActivePeriod(today)
<1>1. today \in Nat /\ opt \in PayoutOptions /\ PayoutPeriods(opt, m) \subseteq Periods
  BY InvFacts
<1>2. m \in Int /\ m <= today /\ today <= m + 6 /\ today - m = today % 7 /\ today % 7 \in 0 .. 6
  BY <1>1 DEF Monday
<1>3. /\ active \in PayoutPeriods(opt, m) /\ active \in Int \X Int
      /\ active[1] <= today /\ today <= active[2]
  BY <1>1, InvFacts, ActiveOfDay
<1>4. /\ \A p \in PayoutPeriods(opt, m) : /\ p \in Int \X Int /\ m <= p[1]
                                          /\ p[1] < active[1] => p[2] < active[1]
  BY <1>1, <1>2, <1>3, PeriodsOfWeek
<1>5. Blocking(b) = CASE opt = "three_times_weekly" -> UnpaidIn(b, {p \in Periods : m <= p[1] /\ p[2] < active[1]})
                      [] opt = "twice_weekly" /\ today % 7 >= 3 -> UnpaidIn(b, {<<m, m + 2>>})
                      [] OTHER -> {}
  BY DEF Blocking, BlockingFrom
<1>6. \A p \in Periods : p \in Int \X Int /\ p[1] <= p[2]
  BY KnownPeriods
<1> HIDE DEF m, opt, active
<1>7. /\ Blocking(b) \subseteq UnpaidIn(b, Periods)
      /\ \A p \in Blocking(b) : p[2] < today /\ p # active /\ p[1] < active[1]
      /\ \A p \in PayoutPeriods(opt, m) : p[1] < active[1] => p \in Blocking(b) \/ p \notin UnpaidIn(b, Periods)
  <2>1. CASE opt = "three_times_weekly"
    <3>1. Blocking(b) = UnpaidIn(b, {p \in Periods : m <= p[1] /\ p[2] < active[1]})
      BY <1>5, <2>1
    <3>2. \A p \in Periods : p[2] < active[1] => p[2] < today /\ p # active /\ p[1] < active[1]
      BY <1>1, <1>3, <1>6
    <3>3. QED
      BY <1>1, <1>4, <3>1, <3>2 DEF UnpaidIn
  <2>2. CASE opt = "twice_weekly" /\ today % 7 >= 3
    <3>1. Blocking(b) = UnpaidIn(b, {<<m, m + 2>>})
      BY <1>5, <2>2
    <3>2. PayoutPeriods(opt, m) = {<<m, m + 2>>, <<m + 3, m + 6>>}
      BY <2>2 DEF PayoutPeriods
    <3>3. m + 2 < today
      BY <1>1, <1>2, <2>2
    <3>4. active = <<m + 3, m + 6>>
      BY <1>1, <1>2, <1>3, <3>2, <3>3
    <3>5. /\ <<m, m + 2>> \in Periods /\ <<m, m + 2>>[2] < today
          /\ <<m, m + 2>> # active /\ <<m, m + 2>>[1] < active[1]
      BY <1>1, <1>2, <3>2, <3>3, <3>4
    <3>6. \A p \in PayoutPeriods(opt, m) : p[1] < active[1] => p = <<m, m + 2>>
      BY <1>2, <3>2, <3>4
    <3>7. QED
      BY <3>1, <3>5, <3>6 DEF UnpaidIn
  <2>3. CASE opt = "twice_weekly" /\ ~(today % 7 >= 3)
    <3>1. Blocking(b) = {}
      BY <1>5, <2>3
    <3>2. PayoutPeriods(opt, m) = {<<m, m + 2>>, <<m + 3, m + 6>>}
      BY <2>3 DEF PayoutPeriods
    <3>3. today < m + 3
      BY <1>1, <1>2, <2>3
    <3>4. active = <<m, m + 2>>
      BY <1>1, <1>2, <1>3, <3>2, <3>3
    <3>5. \A p \in PayoutPeriods(opt, m) : ~(p[1] < active[1])
      BY <1>2, <3>2, <3>4
    <3>6. QED
      BY <3>1, <3>5
  <2>4. CASE opt = "weekly"
    <3>1. Blocking(b) = {}
      BY <1>5, <2>4
    <3>2. PayoutPeriods(opt, m) = {<<m, m + 6>>}
      BY <2>4 DEF PayoutPeriods
    <3>3. \A p \in PayoutPeriods(opt, m) : ~(p[1] < active[1])
      BY <1>2, <1>3, <3>2
    <3>4. QED
      BY <3>1, <3>3
  <2>5. QED
    BY <1>1, <2>1, <2>2, <2>3, <2>4 DEF PayoutOptions
<1>8. Blocking(b) # {} => /\ First(Blocking(b)) \in Blocking(b)
                          /\ \A p \in Blocking(b) : First(Blocking(b))[1] <= p[1]
  <2>1. Blocking(b) \subseteq Periods
    BY <1>7 DEF UnpaidIn
  <2>2. QED
    BY <2>1, FirstPeriod
<1>9. QED
  BY <1>7, <1>8 DEF AvailableRevenue, active, m, opt

\* In a state of the invariant the page refreshed tells who is to be paid next.
LEMMA InTurn ==
    ASSUME RemittanceInv
    PROVE  PaidInTurn
<1> DEFINE b == Refreshed
           shown == AvailableRevenue(b)
           act == ActionRecord(b)
<1>1. b \in Books /\ \A p \in Periods : p[2] < today => Dealt(b, p)
  BY RefreshDeals
<1>2. PayoutPeriods(OptionFor(today), Monday(today)) \subseteq Periods /\ ActivePeriod(today) \in Periods
  BY InvFacts
<1> HIDE DEF b
<1>3. /\ Blocking(b) \subseteq UnpaidIn(b, Periods)
      /\ \A p \in Blocking(b) : /\ p[2] < today /\ p # ActivePeriod(today)
                                /\ p[1] < ActivePeriod(today)[1]
      /\ Blocking(b) # {} => shown \in Blocking(b) /\ \A p \in Blocking(b) : shown[1] <= p[1]
      /\ Blocking(b) = {} => shown = ActivePeriod(today)
      /\ \A p \in PayoutPeriods(OptionFor(today), Monday(today)) :
           p[1] < ActivePeriod(today)[1] => p \in Blocking(b) \/ p \notin UnpaidIn(b, Periods)
  BY <1>1, ShownFirst
<1>4. Outstanding(b) # {} => act \in Outstanding(b) /\ \A p \in Outstanding(b) : act[1] <= p[1]
  <2>1. Outstanding(b) \subseteq Periods
    BY DEF Outstanding
  <2>2. QED
    BY <2>1, FirstPeriod DEF ActionRecord
<1> HIDE DEF shown, act
<1>5. \A p \in Periods : p \in Int \X Int /\ p # NoPeriod
  BY KnownPeriods
<1>6. ASSUME NEW p \in PayoutPeriods(OptionFor(today), Monday(today)), p[1] < shown[1]
      PROVE  b.statement[p].status \in {"NONE", "PAID", "RECEIVED"}
  <2>1. p \in Periods
    BY <1>2
  <2>2. p \notin UnpaidIn(b, Periods)
    <3>1. CASE Blocking(b) = {}
      BY <1>3, <1>6, <3>1
    <3>2. CASE Blocking(b) # {}
      <4>1. shown \in Blocking(b) /\ \A q \in Blocking(b) : shown[1] <= q[1]
        BY <1>3, <3>2
      <4>2. shown \in Periods /\ ~(shown[1] <= p[1])
        BY <1>3, <1>5, <1>6, <2>1, <4>1 DEF UnpaidIn
      <4>3. p \notin Blocking(b)
        BY <4>1, <4>2
      <4>4. CASE p[1] < ActivePeriod(today)[1]
        BY <1>3, <4>3, <4>4
      <4>5. CASE ~(p[1] < ActivePeriod(today)[1])
        <5>1. shown[1] < ActivePeriod(today)[1] /\ p[1] < shown[1]
          BY <1>3, <1>6, <4>1
        <5>2. p[1] \in Int /\ shown[1] \in Int /\ ActivePeriod(today)[1] \in Int
          BY <1>2, <1>5, <2>1, <4>2
        <5>3. QED
          BY <4>5, <5>1, <5>2
      <4>6. QED
        BY <4>4, <4>5
    <3>3. QED
      BY <3>1, <3>2
  <2>3. QED
    BY <2>1, <2>2 DEF UnpaidIn
<1>7. ASSUME shown # ActivePeriod(today), ~Stranded(b, shown)
      PROVE  act # NoPeriod /\ act[1] <= shown[1]
  <2>1. shown \in Blocking(b)
    BY <1>3, <1>7
  <2>2. shown \in Periods /\ shown[2] < today /\ b.statement[shown].status \notin {"NONE", "PAID", "RECEIVED"}
    BY <1>3, <2>1 DEF UnpaidIn
  <2>3. b.statement[shown].status # "ACCRUING"
    BY <1>1, <1>7, <2>2 DEF Dealt, Stranded
  <2>4. b.statement[shown].status \in Statuses
    BY <1>1, <2>2 DEF Books, Statements
  <2>5. shown \in Outstanding(b)
    BY <2>2, <2>3, <2>4 DEF Outstanding, Statuses
  <2>6. QED
    BY <1>4, <1>5, <2>5 DEF Outstanding
<1>8. \A p \in ToPay(b) : act[1] <= p[1]
  BY <1>4 DEF ToPay
<1>9. QED
  BY <1>6, <1>7, <1>8 DEF PaidInTurn, b, shown, act

\* Nobody is paid out of turn: what the revenue page shows the hotel and what the
\* accountants are to act on and to pay agree, after the page's refresh.
THEOREM InOrder == Spec => []PaidInTurn
BY RemittanceInvariance, InTurn, PTL

-----------------------------------------------------------------------------
(* What the details of a statement list. *)

\* The rows are the items of money collected or released, and the refunds of
\* payments that have neither.
LEMMA RowsSplit ==
    ASSUME RemittanceInv, NEW p \in Periods
    PROVE  /\ ItemsOf(books, p) \subseteq Entries
           /\ \A e \in ItemsOf(books, p) :
                /\ e = <<e[1], e[2]>> /\ e[1] \in Payments
                /\ e[2] \in {"collection", "release", "refund"}
                /\ books.item[e].gross = Gross(e[2])
                /\ e[2] # "refund" => books.item[e].refund = 0
           /\ Rows(p, "collection") \cap Rows(p, "release") = {}
           /\ Rows(p, "collection") \cup Rows(p, "release") \subseteq ItemsOf(books, p)
           /\ \A e \in ItemsOf(books, p) :
                e \in Rows(p, "collection") \cup Rows(p, "release") <=>
                  \/ e[2] # "refund"
                  \/ \A kind \in {"collection", "release"} : <<e[1], kind>> \notin ItemsOf(books, p)
<1> DEFINE items == ItemsOf(books, p)
<1>1. items \subseteq Entries
  BY DEF ItemsOf
<1>2. \A e \in Entries : ItemSound(books, e)
  BY DEF RemittanceInv, SoundBooks
<1>3. \A e \in items : books.item[e].period # NoPeriod
  BY KnownPeriods DEF ItemsOf
<1>4. ASSUME NEW e \in items
      PROVE  /\ e = <<e[1], e[2]>> /\ e[1] \in Payments
             /\ e[2] \in {"collection", "release", "refund"}
             /\ books.item[e].gross = Gross(e[2])
             /\ e[2] # "refund" => books.item[e].refund = 0
  <2>1. e = <<e[1], e[2]>> /\ e[1] \in Payments /\ e[2] \in Kinds
    BY <1>1 DEF Entries
  <2>2. QED
    BY <1>1, <1>2, <1>3, <2>1 DEF ItemSound, Kinds
<1> HIDE DEF items
<1>5. /\ Rows(p, "collection") =
           {e \in items : e[2] = "collection" \/ (e[2] = "refund" /\ \A kind \in {"collection", "release"} :
                                                    <<e[1], kind>> \notin items)}
      /\ Rows(p, "release") = {e \in items : e[2] = "release"}
  BY DEF Rows, items
<1>6. QED
  BY <1>1, <1>4, <1>5 DEF items

\* What DetailTotals adds up, as sums over the rows of both sections.
LEMMA DetailsOfRows ==
    ASSUME RemittanceInv, NEW p \in Periods
    PROVE  LET rows == Rows(p, "collection") \cup Rows(p, "release")
           IN  /\ DetailTotals(p).amount = SumFunctionOnSet([e \in Entries |-> books.item[e].gross], rows)
               /\ DetailTotals(p).refund = SumFunctionOnSet([e \in Entries |-> RefundIn(p, e)], rows)
<1> DEFINE g == [e \in Entries |-> books.item[e].gross]
           r == [e \in Entries |-> RefundIn(p, e)]
           c == Rows(p, "collection")
           d == Rows(p, "release")
<1>1. c \in SUBSET Entries /\ d \in SUBSET Entries /\ c \cap d = {}
  BY RowsSplit
<1>2. \A e \in Entries : g[e] \in Nat /\ r[e] \in Nat
  <2>1. books \in Books
    BY InvFacts
  <2>2. \A e \in Entries : books.item[e].gross \in Nat /\ books.item[e].refund \in Nat
    BY <2>1, DatesOK DEF Books
  <2>3. \A e \in Entries : <<e[1], "refund">> \in Entries
    BY DEF Entries, Kinds
  <2>4. QED
    BY <2>2, <2>3 DEF RefundIn
<1>3. ASSUME NEW section \in {"collection", "release"}
      PROVE  /\ SectionTotals(p, section).amount = SumFunctionOnSet(g, Rows(p, section))
             /\ SectionTotals(p, section).refund = SumFunctionOnSet(r, Rows(p, section))
  <2> DEFINE s == Rows(p, section)
             gs == [e \in s |-> books.item[e].gross]
             rs == [e \in s |-> RefundIn(p, e)]
  <2>1. s \subseteq Entries
    BY <1>1
  <2>2. /\ SectionTotals(p, section).amount = SumFunctionOnSet(gs, s)
        /\ SectionTotals(p, section).refund = SumFunctionOnSet(rs, s)
    <3>1. DOMAIN gs = s /\ DOMAIN rs = s
      OBVIOUS
    <3>2. QED
      BY <3>1 DEF SectionTotals, SumFunction
  <2>3. \A e \in s : gs[e] = g[e] /\ rs[e] = r[e]
    BY <2>1
  <2> HIDE DEF gs, rs, g, r, s
  <2>4. SumFunctionOnSet(gs, s) = SumFunctionOnSet(g, s) /\ SumFunctionOnSet(rs, s) = SumFunctionOnSet(r, s)
    BY <2>3, SumSame
  <2>5. QED
    BY <2>2, <2>4 DEF s
<1>4. /\ DetailTotals(p).amount = SumFunctionOnSet(g, c) + SumFunctionOnSet(g, d)
      /\ DetailTotals(p).refund = SumFunctionOnSet(r, c) + SumFunctionOnSet(r, d)
  BY <1>3 DEF DetailTotals
<1> HIDE DEF g, r, c, d
<1>5. IsFiniteSet(c) /\ IsFiniteSet(d)
  BY <1>1, EntriesFinite, FS_Subset
<1>6. \A e \in c \cup d : g[e] \in Int /\ r[e] \in Int
  BY <1>1, <1>2
<1>7. /\ SumFunctionOnSet(g, c \cup d) = SumFunctionOnSet(g, c) + SumFunctionOnSet(g, d)
      /\ SumFunctionOnSet(r, c \cup d) = SumFunctionOnSet(r, c) + SumFunctionOnSet(r, d)
  BY <1>1, <1>5, <1>6, SumDisjoint
<1>8. QED
  BY <1>4, <1>7 DEF g, r, c, d

\* The rows list all that was collected or released: a refund has no gross.
LEMMA GrossListed ==
    ASSUME RemittanceInv, NEW p \in Periods
    PROVE  DetailTotals(p).amount = ItemsGross(books, p)
<1> DEFINE items == ItemsOf(books, p)
           rows == Rows(p, "collection") \cup Rows(p, "release")
           g == [e \in Entries |-> books.item[e].gross]
<1>1. items \subseteq Entries /\ rows \in SUBSET items
  BY RowsSplit
<1>2. \A e \in items \ rows : e[2] = "refund" /\ books.item[e].gross = Gross(e[2])
  BY RowsSplit
<1>3. \A e \in items : g[e] \in Int
  <2>1. books \in Books
    BY InvFacts
  <2>2. QED
    BY <1>1, <2>1, DatesOK DEF Books
<1>4. \A e \in items \ rows : g[e] = 0
  BY <1>1, <1>2 DEF Gross
<1>5. IsFiniteSet(items)
  BY <1>1, EntriesFinite, FS_Subset
<1>6. DetailTotals(p).amount = SumFunctionOnSet(g, rows)
  BY DetailsOfRows
<1>7. ItemsGross(books, p) = SumFunctionOnSet(g, items)
  BY DEF ItemsGross
<1> HIDE DEF items, rows, g
<1>8. QED
  BY <1>1, <1>3, <1>4, <1>5, <1>6, <1>7, SumOfRest

\* The row that shows the refund of e's payment first.
ShownIn(p, e) ==
  IF <<e[1], "collection">> \in ItemsOf(books, p) THEN <<e[1], "collection">>
  ELSE IF <<e[1], "release">> \in ItemsOf(books, p) THEN <<e[1], "release">>
  ELSE e

\* Each refund is in a row of its own payment, and in one only unless the
\* payment has two.
LEMMA RefundsListed ==
    ASSUME RemittanceInv, NEW p \in Periods
    PROVE  /\ ItemsRefund(books, p) <= DetailTotals(p).refund
           /\ \/ DetailTotals(p).refund = ItemsRefund(books, p)
              \/ \E q \in Payments : {<<q, "collection">>, <<q, "release">>} \subseteq ItemsOf(books, p)
<1> DEFINE items == ItemsOf(books, p)
           refunds == {e \in items : e[2] = "refund"}
           rows == Rows(p, "collection") \cup Rows(p, "release")
           f == [e \in Entries |-> books.item[e].refund]
           r == [e \in Entries |-> RefundIn(p, e)]
           h == [e \in refunds |-> ShownIn(p, e)]
           image == {h[e] : e \in refunds}
<1>1. items \subseteq Entries /\ rows \subseteq items /\ refunds \in SUBSET items
  BY RowsSplit
<1>2. \A e \in items : /\ e = <<e[1], e[2]>> /\ e[1] \in Payments
                       /\ e[2] \in {"collection", "release", "refund"}
                       /\ e[2] # "refund" => books.item[e].refund = 0
  BY RowsSplit
<1>3. \A e \in items :
        e \in rows <=> \/ e[2] # "refund"
                       \/ <<e[1], "collection">> \notin items /\ <<e[1], "release">> \notin items
  BY RowsSplit
<1>4. \A e \in Entries : /\ f[e] \in Nat /\ r[e] \in Nat
                         /\ f[e] = books.item[e].refund
                         /\ r[e] = IF <<e[1], "refund">> \in items
                                   THEN books.item[<<e[1], "refund">>].refund ELSE 0
  <2>1. books \in Books
    BY InvFacts
  <2>2. \A e \in Entries : books.item[e].refund \in Nat
    BY <2>1, DatesOK DEF Books
  <2>3. \A e \in Entries : <<e[1], "refund">> \in Entries
    BY DEF Entries, Kinds
  <2>4. QED
    BY <2>2, <2>3 DEF RefundIn
<1>5. \A e \in Entries : f[e] \in Nat /\ f[e] \in Int /\ r[e] \in Nat
  <2> HIDE DEF f, r
  <2>1. \A e \in Entries : f[e] \in Nat /\ r[e] \in Nat
    BY <1>4
  <2>2. QED
    BY <2>1
<1>6. /\ \A e \in refunds : /\ e \in items /\ e[2] = "refund"
                            /\ h[e] = IF <<e[1], "collection">> \in items THEN <<e[1], "collection">>
                                      ELSE IF <<e[1], "release">> \in items THEN <<e[1], "release">> ELSE e
      /\ \A e \in items : e[2] = "refund" => e \in refunds
  BY DEF ShownIn
<1>7. DetailTotals(p).refund = SumFunctionOnSet(r, rows) /\ ItemsRefund(books, p) = SumFunctionOnSet(f, items)
  BY DetailsOfRows DEF ItemsRefund
<1>8. IsFiniteSet(items) /\ IsFiniteSet(refunds) /\ IsFiniteSet(rows)
  BY <1>1, EntriesFinite, FS_Subset
<1> HIDE DEF items, refunds, rows, f, r, h
<1>9. ASSUME NEW e \in refunds
      PROVE  h[e] \in rows /\ h[e][1] = e[1] /\ r[h[e]] = f[e]
  <2>1. e \in items /\ e[2] = "refund" /\ e = <<e[1], "refund">>
    BY <1>2, <1>6
  <2>2. h[e] \in items /\ h[e][1] = e[1]
    <3>1. h[e] = IF <<e[1], "collection">> \in items THEN <<e[1], "collection">>
                 ELSE IF <<e[1], "release">> \in items THEN <<e[1], "release">> ELSE e
      BY <1>6
    <3> HIDE DEF h
    <3>2. QED
      BY <2>1, <3>1
  <2>3. h[e] \in rows
    <3>1. CASE <<e[1], "collection">> \in items
      <4>1. h[e] = <<e[1], "collection">>
        BY <1>6, <3>1
      <4>2. QED
        BY <1>3, <2>2, <4>1
    <3>2. CASE <<e[1], "collection">> \notin items /\ <<e[1], "release">> \in items
      <4>1. h[e] = <<e[1], "release">>
        BY <1>6, <3>2
      <4>2. QED
        BY <1>3, <2>2, <4>1
    <3>3. CASE <<e[1], "collection">> \notin items /\ <<e[1], "release">> \notin items
      <4>1. h[e] = e
        BY <1>6, <3>3
      <4>2. QED
        BY <1>3, <2>1, <3>3, <4>1
    <3>4. QED
      BY <3>1, <3>2, <3>3
  <2>4. r[h[e]] = f[e]
    BY <1>1, <1>4, <2>1, <2>2
  <2>5. QED
    BY <2>2, <2>3, <2>4
<1>10. \A x, y \in refunds : h[x] = h[y] => x = y
  <2> TAKE x, y \in refunds
  <2>1. x = <<x[1], "refund">> /\ y = <<y[1], "refund">>
    BY <1>2, <1>6
  <2>2. h[x][1] = x[1] /\ h[y][1] = y[1]
    BY <1>9
  <2>3. QED
    BY <2>1, <2>2
<1>11. SumFunctionOnSet(r, image) = SumFunctionOnSet(f, refunds)
  <2>1. \A e \in refunds : f[e] \in Int /\ r[h[e]] = f[e]
    BY <1>1, <1>5, <1>9
  <2>2. QED
    BY <1>8, <1>10, <2>1, SumRenamed
<1>12. SumFunctionOnSet(f, items) = SumFunctionOnSet(f, refunds)
  <2>1. \A e \in items : f[e] \in Int
    BY <1>1, <1>5
  <2>2. \A e \in items \ refunds : f[e] = 0
    BY <1>1, <1>2, <1>4, <1>6
  <2>3. QED
    BY <1>1, <1>8, <2>1, <2>2, SumOfRest
<1>13. image \in SUBSET rows
  BY <1>9
<1>14. \A e \in rows : r[e] \in Nat
  BY <1>1, <1>4
<1>15. ASSUME ~ \E q \in Payments : {<<q, "collection">>, <<q, "release">>} \subseteq items
       PROVE  \A e \in rows \ image : r[e] = 0
  <2>1. SUFFICES ASSUME NEW e \in rows, r[e] # 0
                 PROVE  e \in image
    OBVIOUS
  <2> DEFINE x == <<e[1], "refund">>
  <2>2. e \in items /\ e \in Entries /\ e = <<e[1], e[2]>> /\ e[1] \in Payments
        /\ e[2] \in {"collection", "release", "refund"}
    BY <1>1, <1>2
  <2>3. x \in items
    BY <1>4, <2>1, <2>2
  <2>4. x \in refunds /\ x[1] = e[1]
    BY <1>6, <2>3
  <2>5. h[x] = IF <<e[1], "collection">> \in items THEN <<e[1], "collection">>
               ELSE IF <<e[1], "release">> \in items THEN <<e[1], "release">> ELSE x
    BY <1>6, <2>4
  <2>6. ~(<<e[1], "collection">> \in items /\ <<e[1], "release">> \in items)
    BY <1>15, <2>2
  <2>7. h[x] = e
    <3>1. CASE e[2] = "collection"
      BY <2>2, <2>5, <3>1
    <3>2. CASE e[2] = "release"
      BY <2>2, <2>5, <2>6, <3>2
    <3>3. CASE e[2] = "refund"
      BY <1>3, <2>2, <2>5, <3>3
    <3>4. QED
      BY <2>2, <3>1, <3>2, <3>3
  <2> HIDE DEF x
  <2>8. QED
    BY <2>4, <2>7
<1> HIDE DEF image
<1>16. SumFunctionOnSet(r, image) <= SumFunctionOnSet(r, rows)
  BY <1>8, <1>13, <1>14, SumGrows
<1>17. \/ SumFunctionOnSet(r, rows) = SumFunctionOnSet(r, image)
       \/ \E q \in Payments : {<<q, "collection">>, <<q, "release">>} \subseteq items
  <2>1. CASE ~ \E q \in Payments : {<<q, "collection">>, <<q, "release">>} \subseteq items
    <3>1. \A e \in rows : r[e] \in Int
      BY <1>14
    <3>2. QED
      BY <1>8, <1>13, <1>15, <2>1, <3>1, SumOfRest
  <2>2. QED
    BY <2>1
<1>18. QED
  BY <1>7, <1>11, <1>12, <1>16, <1>17 DEF items

\* The invariant bounds every variable.
LEMMA TypesOfInv == ASSUME RemittanceInv PROVE RemittanceTypeOK
<1>1. books \in Books /\ today \in Dates
  BY InvFacts DEF RemittanceInv
<1>2. \A p \in Payments : payment[p].refunded \in 0 .. Amount /\ payment[p].paid_on <= today
  BY DEF RemittanceInv, PaymentOK
<1>3. \A p \in Periods : Status(p) \in Statuses /\ books.statement[p].adjustment \in Adjustments
  BY <1>1 DEF Books, Statements, Status
<1>4. robbed \subseteq Periods
  BY DEF RemittanceInv
<1>5. QED
  BY <1>1, <1>2, <1>3, <1>4 DEF RemittanceTypeOK, Books

\* What is claimed, listed by item, is listed by row.
LEMMA AllListed == ASSUME RemittanceInv PROVE TotalsAreListed
<1>1. ASSUME NEW p \in Periods
      PROVE  LET total  == DetailTotals(p)
                 refund == SumFunction([e \in ItemsOf(books, p) |-> books.item[e].refund])
             IN  /\ p \notin robbed => /\ books.statement[p].gross <= total.amount
                                    /\ books.statement[p].refund <= refund
                 /\ refund <= total.refund
                 /\ \/ total.refund = refund
                    \/ \E q \in Payments :
                         {<<q, "collection">>, <<q, "release">>} \subseteq ItemsOf(books, p)
  <2> DEFINE items == ItemsOf(books, p)
             f == [e \in items |-> books.item[e].refund]
             g == [e \in Entries |-> books.item[e].refund]
  <2>1. SumFunction(f) = SumFunctionOnSet(f, items)
    <3>1. DOMAIN f = items
      OBVIOUS
    <3>2. QED
      BY <3>1 DEF SumFunction
  <2>2. \A e \in items : f[e] = g[e]
    BY DEF ItemsOf
  <2>3. ItemsRefund(books, p) = SumFunctionOnSet(g, items)
    BY DEF ItemsRefund
  <2> HIDE DEF f, g, items
  <2>4. SumFunction(f) = ItemsRefund(books, p)
    BY <2>1, <2>2, <2>3, SumSame
  <2>5. p \notin robbed => ClaimListed(books, p)
    BY DEF RemittanceInv, SoundBooks
  <2>6. p \notin robbed => /\ books.statement[p].gross <= DetailTotals(p).amount
                          /\ books.statement[p].refund <= ItemsRefund(books, p)
    BY <2>5, GrossListed DEF ClaimListed
  <2>7. QED
    BY <2>4, <2>6, RefundsListed DEF f, items
<1>2. QED
  BY <1>1, TypesOfInv DEF TotalsAreListed, Existing

\* No statement claims more than the two sections of its details list, unless a
\* late write took from it, and each refund is listed there, once unless its payment has a row in both.
THEOREM ClaimsListed == Spec => []TotalsAreListed
BY RemittanceInvariance, AllListed, PTL
=============================================================================
