----------------------------- MODULE Sums_proofs -----------------------------
(***************************************************************************)
(* Sums of numbers over finite sets, as SumFunctionOnSet of the community  *)
(* modules computes them: by a function CHOOSEn to satisfy a recursive     *)
(* equation.  That function exists, so a sum is what one expects: the      *)
(* order of its terms does not matter, and it changes with them.           *)
(***************************************************************************)
EXTENDS Integers, FiniteSets, FiniteSetsExt, Functions, FiniteSetTheorems, WellFoundedInduction, TLAPS

\* Among subsets of a finite set there is a smallest one, for inclusion.
LEMMA SmallestSet ==
    ASSUME NEW S, IsFiniteSet(S), NEW T \in SUBSET SUBSET S, T # {}
    PROVE  \E A \in T : \A B \in T : B \subseteq A => B = A
<1>1. IsWellFoundedOn(StrictSubsetOrdering(S), SUBSET S)
  BY FS_StrictSubsetOrderingWellFounded, FS_FiniteSubsetsOfFinite
<1>2. PICK A \in T : \A B \in T : ~ (<<B, A>> \in StrictSubsetOrdering(S))
  BY <1>1, WFMin
<1>3. \A B \in T : B \subseteq A => B = A
  BY <1>2 DEF StrictSubsetOrdering
<1>4. QED
  BY <1>3

-----------------------------------------------------------------------------
(* The recursive equation. *)

\* The element taken first.
Taken(s) == CHOOSE x \in s : TRUE

\* The equation of the sums of f over the subsets of S.
Equation(f, S, sums) ==
    [s \in SUBSET S |-> IF s = {} THEN 0 ELSE f[Taken(s)] + sums[s \ {Taken(s)}]]

LEMMA SumIsSolution ==
    ASSUME NEW f, NEW S
    PROVE  SumFunctionOnSet(f, S) = (CHOOSE sums : sums = Equation(f, S, sums))[S]
BY DEF SumFunctionOnSet, FoldFunctionOnSet, MapThenFoldSet, Equation, Taken

LEMMA FirstIn == \A s : s # {} => Taken(s) \in s
BY DEF Taken

LEMMA OneSolution ==
    ASSUME NEW f, NEW S, IsFiniteSet(S),
           NEW u, u = Equation(f, S, u), NEW v, v = Equation(f, S, v)
    PROVE  u = v
<1> DEFINE T == {s \in SUBSET S : u[s] # v[s]}
<1>1. ASSUME T # {} PROVE FALSE
  <2>1. PICK A \in T : \A B \in T : B \subseteq A => B = A
    <3>1. T \in SUBSET SUBSET S
      OBVIOUS
    <3> HIDE DEF T
    <3>2. QED
      BY <1>1, <3>1, SmallestSet
  <2>2. A # {} /\ A \in SUBSET S
    BY <2>1 DEF Equation
  <2>3. A \ {Taken(A)} \notin T /\ A \ {Taken(A)} \in SUBSET S
    BY <2>1, <2>2, FirstIn
  <2>4. u[A] = f[Taken(A)] + u[A \ {Taken(A)}] /\ v[A] = f[Taken(A)] + v[A \ {Taken(A)}]
    BY <2>2 DEF Equation
  <2>5. QED
    BY <2>1, <2>3, <2>4
<1>2. \A s \in SUBSET S : u[s] = v[s]
  BY <1>1
<1>3. QED
  BY <1>2 DEF Equation

\* What a solution gives for its whole set: there is one solution only.
SumBySolution(f, S) == (CHOOSE sums : sums = Equation(f, S, sums))[S]

LEMMA TotalOfSolution ==
    ASSUME NEW f, NEW S, IsFiniteSet(S), NEW u, u = Equation(f, S, u), NEW D \in SUBSET S
    PROVE  SumBySolution(f, D) = u[D]
<1> DEFINE d == [s \in SUBSET D |-> u[s]]
<1>1. d = Equation(f, D, d)
  <2>1. \A s \in SUBSET D : s # {} => s \ {Taken(s)} \in SUBSET D
    OBVIOUS
  <2>2. \A s \in SUBSET D : d[s] = IF s = {} THEN 0 ELSE f[Taken(s)] + u[s \ {Taken(s)}]
    BY DEF Equation
  <2>3. \A s \in SUBSET D : d[s] = IF s = {} THEN 0 ELSE f[Taken(s)] + d[s \ {Taken(s)}]
    BY <2>1, <2>2
  <2>4. QED
    BY <2>3 DEF Equation
<1>2. IsFiniteSet(D)
  BY FS_Subset
<1>3. d[D] = u[D]
  OBVIOUS
<1> HIDE DEF d
<1> DEFINE v == CHOOSE sums : sums = Equation(f, D, sums)
<1>4. v = Equation(f, D, v)
  BY <1>1
<1> HIDE DEF v
<1>5. v = d
  BY <1>1, <1>2, <1>4, OneSolution
<1>6. QED
  BY <1>3, <1>5 DEF SumBySolution, v

LEMMA SolutionExists ==
    ASSUME NEW f, NEW S, IsFiniteSet(S)
    PROVE  \E sums : sums = Equation(f, S, sums)
<1> DEFINE Solvable(A) == \E sums : sums = Equation(f, A, sums)
           T == {A \in SUBSET S : ~Solvable(A)}
<1>1. ASSUME T # {} PROVE FALSE
  <2>1. PICK A \in T : \A B \in T : B \subseteq A => B = A
    <3>1. T \in SUBSET SUBSET S
      OBVIOUS
    <3> HIDE DEF T
    <3>2. QED
      BY <1>1, <3>1, SmallestSet
  <2>2. A \in SUBSET S /\ ~Solvable(A)
    BY <2>1
  <2>3. \A B \in SUBSET A : B # A => Solvable(B)
    BY <2>1
  <2>4. ASSUME NEW B \in SUBSET A, B # A
        PROVE  SumBySolution(f, B) = IF B = {} THEN 0 ELSE f[Taken(B)] + SumBySolution(f, B \ {Taken(B)})
    <3>1. PICK u : u = Equation(f, B, u)
      BY <2>3, <2>4
    <3>2. IsFiniteSet(B)
      BY <2>2, FS_Subset
    <3>3. B \in SUBSET B /\ B \ {Taken(B)} \in SUBSET B
      OBVIOUS
    <3>4. u[B] = IF B = {} THEN 0 ELSE f[Taken(B)] + u[B \ {Taken(B)}]
      BY <3>1 DEF Equation
    <3>5. SumBySolution(f, B) = u[B] /\ SumBySolution(f, B \ {Taken(B)}) = u[B \ {Taken(B)}]
      BY <3>1, <3>2, <3>3, TotalOfSolution
    <3>6. QED
      BY <3>4, <3>5
  <2> DEFINE Last == IF A = {} THEN 0 ELSE f[Taken(A)] + SumBySolution(f, A \ {Taken(A)})
             u == [s \in SUBSET A |-> IF s = A THEN Last ELSE SumBySolution(f, s)]
  <2>5. \A s \in SUBSET A : s # {} => s \ {Taken(s)} \in SUBSET A /\ s \ {Taken(s)} # A
    BY FirstIn
  <2>6. \A s \in SUBSET A : u[s] = IF s = {} THEN 0 ELSE f[Taken(s)] + SumBySolution(f, s \ {Taken(s)})
    BY <2>4
  <2>7. \A s \in SUBSET A : s # {} => u[s \ {Taken(s)}] = SumBySolution(f, s \ {Taken(s)})
    BY <2>5
  <2>8. u = Equation(f, A, u)
    <3>1. u = [s \in SUBSET A |-> u[s]]
      OBVIOUS
    <3> HIDE DEF u
    <3>2. QED
      BY <2>6, <2>7, <3>1 DEF Equation
  <2>9. QED
    BY <2>2, <2>8
<1>2. S \notin T
  BY <1>1
<1>3. QED
  BY <1>2

-----------------------------------------------------------------------------
(* What a sum is. *)

LEMMA SumEmpty == \A f : SumFunctionOnSet(f, {}) = 0
<1> TAKE f
<1>1. IsFiniteSet({})
  BY FS_EmptySet
<1>2. PICK u : u = Equation(f, {}, u)
  BY <1>1, SolutionExists
<1>3. SumBySolution(f, {}) = u[{}]
  BY <1>1, <1>2, TotalOfSolution
<1>4. u[{}] = 0
  BY <1>2 DEF Equation
<1>5. QED
  BY <1>3, <1>4, SumIsSolution DEF SumBySolution

LEMMA SumFirst ==
    ASSUME NEW f, NEW S, IsFiniteSet(S), S # {}
    PROVE  SumFunctionOnSet(f, S) = f[Taken(S)] + SumFunctionOnSet(f, S \ {Taken(S)})
<1>1. PICK u : u = Equation(f, S, u)
  BY SolutionExists
<1>2. S \in SUBSET S /\ S \ {Taken(S)} \in SUBSET S
  OBVIOUS
<1>3. SumBySolution(f, S) = u[S] /\ SumBySolution(f, S \ {Taken(S)}) = u[S \ {Taken(S)}]
  BY <1>1, <1>2, TotalOfSolution
<1>4. u[S] = f[Taken(S)] + u[S \ {Taken(S)}]
  BY <1>1 DEF Equation
<1>5. QED
  BY <1>3, <1>4, SumIsSolution DEF SumBySolution

LEMMA SumInt ==
    ASSUME NEW S, IsFiniteSet(S), NEW f, \A x \in S : f[x] \in Int
    PROVE  SumFunctionOnSet(f, S) \in Int
<1> DEFINE T == {A \in SUBSET S : SumFunctionOnSet(f, A) \notin Int}
<1>1. ASSUME T # {} PROVE FALSE
  <2>1. PICK A \in T : \A B \in T : B \subseteq A => B = A
    <3>1. T \in SUBSET SUBSET S
      OBVIOUS
    <3> HIDE DEF T
    <3>2. QED
      BY <1>1, <3>1, SmallestSet
  <2>2. A \in SUBSET S /\ IsFiniteSet(A) /\ A # {}
    <3>1. A \in SUBSET S /\ SumFunctionOnSet(f, A) \notin Int
      BY <2>1
    <3>2. IsFiniteSet(A)
      BY <3>1, FS_Subset
    <3>3. QED
      BY <3>1, <3>2, SumEmpty
  <2>3. SumFunctionOnSet(f, A) = f[Taken(A)] + SumFunctionOnSet(f, A \ {Taken(A)})
    BY <2>2, SumFirst
  <2>4. Taken(A) \in A /\ SumFunctionOnSet(f, A \ {Taken(A)}) \in Int
    BY <2>1, <2>2, FirstIn
  <2>5. SumFunctionOnSet(f, A) \in Int
    BY <2>2, <2>3, <2>4
  <2>6. QED
    BY <2>1, <2>5
<1>2. S \notin T
  BY <1>1
<1>3. QED
  BY <1>2

\* Any term may be taken first.
LEMMA SumTerm ==
    ASSUME NEW S, IsFiniteSet(S), NEW f, \A x \in S : f[x] \in Int, NEW x \in S
    PROVE  SumFunctionOnSet(f, S) = f[x] + SumFunctionOnSet(f, S \ {x})
<1> DEFINE Sum(A) == SumFunctionOnSet(f, A)
           T == {A \in SUBSET S : \E y \in A : Sum(A) # f[y] + Sum(A \ {y})}
<1>0. \A A \in SUBSET S : IsFiniteSet(A) /\ Sum(A) \in Int /\ (A # {} => Sum(A) = f[Taken(A)] + Sum(A \ {Taken(A)}))
  <2> TAKE A \in SUBSET S
  <2>1. IsFiniteSet(A)
    BY FS_Subset
  <2>2. Sum(A) \in Int
    BY <2>1, SumInt
  <2>3. QED
    BY <2>1, <2>2, SumFirst
<1> HIDE DEF Sum
<1>1. ASSUME T # {} PROVE FALSE
  <2>1. PICK A \in T : \A B \in T : B \subseteq A => B = A
    <3>1. T \in SUBSET SUBSET S
      OBVIOUS
    <3> HIDE DEF T
    <3>2. QED
      BY <1>1, <3>1, SmallestSet
  <2>2. A \in SUBSET S
    BY <2>1
  <2>3. PICK y \in A : Sum(A) # f[y] + Sum(A \ {y})
    BY <2>1
  <2> DEFINE c == Taken(A)
  <2>4. c \in A
    BY <2>3, FirstIn
  <2>5. Sum(A) = f[c] + Sum(A \ {c})
    BY <1>0, <2>2, <2>3
  <2> HIDE DEF c
  <2>6. c # y
    BY <2>3, <2>5
  <2>7. A \ {c} \notin T /\ A \ {y} \notin T
    BY <2>1, <2>3, <2>4
  <2>8. Sum(A \ {c}) = f[y] + Sum((A \ {c}) \ {y}) /\ Sum(A \ {y}) = f[c] + Sum((A \ {y}) \ {c})
    BY <2>2, <2>3, <2>4, <2>6, <2>7
  <2>9. (A \ {c}) \ {y} = (A \ {y}) \ {c} /\ (A \ {y}) \ {c} \in SUBSET S
    BY <2>2
  <2> DEFINE rest == Sum((A \ {y}) \ {c})
  <2>10. rest \in Int /\ f[y] \in Int /\ f[c] \in Int
    BY <1>0, <2>2, <2>3, <2>4, <2>9
  <2>11. Sum(A) = f[c] + (f[y] + rest) /\ Sum(A \ {y}) = f[c] + rest
    BY <2>5, <2>8, <2>9
  <2> HIDE DEF rest
  <2>12. QED
    BY <2>3, <2>10, <2>11
<1>2. S \notin T
  BY <1>1
<1>3. QED
  BY <1>2 DEF Sum

LEMMA SumSame ==
    ASSUME NEW S, NEW f, NEW g, \A x \in S : f[x] = g[x]
    PROVE  SumFunctionOnSet(f, S) = SumFunctionOnSet(g, S)
<1> DEFINE P(u) == u = Equation(f, S, u)
           Q(u) == u = Equation(g, S, u)
<1>1. \A u : P(u) <=> Q(u)
  BY FirstIn DEF Equation
<1>2. SumFunctionOnSet(f, S) = (CHOOSE u : P(u))[S] /\ SumFunctionOnSet(g, S) = (CHOOSE u : Q(u))[S]
  BY SumIsSolution
<1> HIDE DEF P, Q
<1>3. (CHOOSE u : P(u)) = (CHOOSE u : Q(u))
  BY <1>1
<1>4. QED
  BY <1>2, <1>3

\* When one term changes, the sum changes by as much.
LEMMA SumChanged ==
    ASSUME NEW S, IsFiniteSet(S), NEW f, NEW g, NEW x \in S,
           \A y \in S : f[y] \in Int /\ g[y] \in Int, \A y \in S \ {x} : g[y] = f[y]
    PROVE  SumFunctionOnSet(g, S) = SumFunctionOnSet(f, S) + g[x] - f[x]
<1>1. /\ SumFunctionOnSet(f, S) = f[x] + SumFunctionOnSet(f, S \ {x})
      /\ SumFunctionOnSet(g, S) = g[x] + SumFunctionOnSet(g, S \ {x})
  BY SumTerm
<1>2. SumFunctionOnSet(g, S \ {x}) = SumFunctionOnSet(f, S \ {x})
  BY SumSame
<1>3. SumFunctionOnSet(f, S \ {x}) \in Int
  <2>1. IsFiniteSet(S \ {x})
    BY FS_Subset
  <2>2. QED
    BY <2>1, SumInt
<1>4. QED
  BY <1>1, <1>2, <1>3

\* Terms that are nothing may be left out.
LEMMA SumOfRest ==
    ASSUME NEW S, IsFiniteSet(S), NEW D \in SUBSET S, NEW f, \A x \in S : f[x] \in Int,
           \A x \in S \ D : f[x] = 0
    PROVE  SumFunctionOnSet(f, S) = SumFunctionOnSet(f, D)
<1> DEFINE T == {A \in SUBSET S : D \subseteq A /\ SumFunctionOnSet(f, A) # SumFunctionOnSet(f, D)}
<1>1. ASSUME T # {} PROVE FALSE
  <2>1. PICK A \in T : \A B \in T : B \subseteq A => B = A
    <3>1. T \in SUBSET SUBSET S
      OBVIOUS
    <3> HIDE DEF T
    <3>2. QED
      BY <1>1, <3>1, SmallestSet
  <2>2. PICK x \in A \ D : TRUE
    BY <2>1
  <2>3. IsFiniteSet(A) /\ A \in SUBSET S
    <3>1. A \in SUBSET S
      BY <2>1
    <3>2. QED
      BY <3>1, FS_Subset
  <2>4. SumFunctionOnSet(f, A) = f[x] + SumFunctionOnSet(f, A \ {x})
    BY <2>2, <2>3, SumTerm
  <2>5. f[x] = 0 /\ SumFunctionOnSet(f, A \ {x}) \in Int
    <3>1. IsFiniteSet(A \ {x})
      BY <2>3, FS_Subset
    <3>2. QED
      BY <2>2, <2>3, <3>1, SumInt
  <2>6. A \ {x} \notin T
    BY <2>1, <2>2
  <2>7. SumFunctionOnSet(f, A \ {x}) = SumFunctionOnSet(f, D)
    BY <2>2, <2>3, <2>6
  <2>8. QED
    BY <2>1, <2>4, <2>5, <2>7
<1>2. S \notin T
  BY <1>1
<1>3. QED
  BY <1>2

\* A sum of numbers that are at least nothing is at least each of them.
LEMMA SumBounds ==
    ASSUME NEW S, IsFiniteSet(S), NEW f, \A x \in S : f[x] \in Nat
    PROVE  SumFunctionOnSet(f, S) \in Nat /\ \A x \in S : f[x] <= SumFunctionOnSet(f, S)
<1> DEFINE T == {A \in SUBSET S : SumFunctionOnSet(f, A) \notin Nat}
<1>1. ASSUME T # {} PROVE FALSE
  <2>1. PICK A \in T : \A B \in T : B \subseteq A => B = A
    <3>1. T \in SUBSET SUBSET S
      OBVIOUS
    <3> HIDE DEF T
    <3>2. QED
      BY <1>1, <3>1, SmallestSet
  <2>2. A \in SUBSET S /\ IsFiniteSet(A) /\ A # {}
    <3>1. A \in SUBSET S /\ SumFunctionOnSet(f, A) \notin Nat
      BY <2>1
    <3>2. IsFiniteSet(A)
      BY <3>1, FS_Subset
    <3>3. QED
      BY <3>1, <3>2, SumEmpty
  <2>3. SumFunctionOnSet(f, A) = f[Taken(A)] + SumFunctionOnSet(f, A \ {Taken(A)})
    BY <2>2, SumFirst
  <2>4. Taken(A) \in A /\ SumFunctionOnSet(f, A \ {Taken(A)}) \in Nat
    BY <2>1, <2>2, FirstIn
  <2>5. SumFunctionOnSet(f, A) \in Nat
    BY <2>2, <2>3, <2>4
  <2>6. QED
    BY <2>1, <2>5
<1>2. \A A \in SUBSET S : SumFunctionOnSet(f, A) \in Nat
  BY <1>1
<1>3. ASSUME NEW x \in S PROVE f[x] <= SumFunctionOnSet(f, S)
  <2>1. SumFunctionOnSet(f, S) = f[x] + SumFunctionOnSet(f, S \ {x})
    BY SumTerm
  <2>2. SumFunctionOnSet(f, S \ {x}) \in Nat
    BY <1>2
  <2>3. QED
    BY <2>1, <2>2
<1>4. QED
  BY <1>2, <1>3

\* With more terms that are at least nothing, a sum does not become smaller.
LEMMA SumGrows ==
    ASSUME NEW S, IsFiniteSet(S), NEW D \in SUBSET S, NEW f, \A x \in S : f[x] \in Nat
    PROVE  SumFunctionOnSet(f, D) <= SumFunctionOnSet(f, S)
<1> DEFINE Sum(A) == SumFunctionOnSet(f, A)
           T == {A \in SUBSET S : D \subseteq A /\ ~(Sum(D) <= Sum(A))}
<1>0. \A A \in SUBSET S : IsFiniteSet(A) /\ Sum(A) \in Nat /\ \A x \in A : Sum(A) = f[x] + Sum(A \ {x})
  <2> TAKE A \in SUBSET S
  <2>1. IsFiniteSet(A)
    BY FS_Subset
  <2>2. Sum(A) \in Nat
    BY <2>1, SumBounds
  <2>3. \A x \in A : Sum(A) = f[x] + Sum(A \ {x})
    BY <2>1, SumTerm
  <2>4. QED
    BY <2>1, <2>2, <2>3
<1> HIDE DEF Sum
<1>1. ASSUME T # {} PROVE FALSE
  <2>1. PICK A \in T : \A B \in T : B \subseteq A => B = A
    <3>1. T \in SUBSET SUBSET S
      OBVIOUS
    <3> HIDE DEF T
    <3>2. QED
      BY <1>1, <3>1, SmallestSet
  <2>2. A \in SUBSET S /\ D \subseteq A /\ ~(Sum(D) <= Sum(A))
    BY <2>1
  <2>3. A # D
    BY <1>0, <2>2
  <2>4. PICK x \in A \ D : TRUE
    BY <2>2, <2>3
  <2>5. A \ {x} \notin T /\ A \ {x} \in SUBSET S
    BY <2>1, <2>2, <2>4
  <2>6. Sum(D) <= Sum(A \ {x})
    BY <2>2, <2>4, <2>5
  <2>7. Sum(A) = f[x] + Sum(A \ {x}) /\ f[x] \in Nat
    BY <1>0, <2>2, <2>4
  <2>8. Sum(D) \in Nat /\ Sum(A \ {x}) \in Nat
    BY <1>0, <2>5
  <2>9. QED
    BY <2>2, <2>6, <2>7, <2>8
<1>2. S \notin T
  BY <1>1
<1>3. QED
  BY <1>2 DEF Sum

\* The sum over two sets with nothing in common.
LEMMA SumDisjoint ==
    ASSUME NEW A, IsFiniteSet(A), NEW B, IsFiniteSet(B), A \cap B = {},
           NEW f, \A x \in A \cup B : f[x] \in Int
    PROVE  SumFunctionOnSet(f, A \cup B) = SumFunctionOnSet(f, A) + SumFunctionOnSet(f, B)
<1> DEFINE Sum(D) == SumFunctionOnSet(f, D)
           T == {D \in SUBSET B : Sum(A \cup D) # Sum(A) + Sum(D)}
<1>1. ASSUME NEW D \in SUBSET (A \cup B)
      PROVE  IsFiniteSet(D) /\ Sum(D) \in Int /\ \A x \in D : Sum(D) = f[x] + Sum(D \ {x})
  <2>1. IsFiniteSet(A \cup B)
    BY FS_Union
  <2>2. IsFiniteSet(D)
    BY <2>1, FS_Subset
  <2>3. Sum(D) \in Int
    BY <2>2, SumInt
  <2>4. ASSUME NEW x \in D PROVE Sum(D) = f[x] + Sum(D \ {x})
    BY <2>2, SumTerm
  <2>5. QED
    BY <2>2, <2>3, <2>4
<1>2. Sum({}) = 0
  BY SumEmpty
<1> HIDE DEF Sum
<1>3. ASSUME T # {} PROVE FALSE
  <2>1. PICK D \in T : \A E \in T : E \subseteq D => E = D
    <3>1. T \in SUBSET SUBSET B
      OBVIOUS
    <3> HIDE DEF T
    <3>2. QED
      BY <1>3, <3>1, SmallestSet
  <2>2. D \in SUBSET B /\ Sum(A \cup D) # Sum(A) + Sum(D)
    BY <2>1
  <2>3. ASSUME D = {} PROVE FALSE
    <3>1. A \cup D = A /\ A \in SUBSET (A \cup B)
      BY <2>3
    <3>2. Sum(A) \in Int
      BY <1>1, <3>1
    <3>3. Sum(A \cup D) = Sum(A) /\ Sum(D) = 0
      BY <1>2, <2>3, <3>1
    <3>4. QED
      BY <2>2, <3>2, <3>3
  <2>4. PICK x \in D : TRUE
    BY <2>3
  <2> DEFINE E == D \ {x}
  <2>5. /\ E \in SUBSET B /\ E # D /\ E \subseteq D
        /\ (A \cup D) \ {x} = A \cup E /\ x \in A \cup D
    BY <2>2, <2>4
  <2>6. Sum(A \cup E) = Sum(A) + Sum(E)
    BY <2>1, <2>5
  <2>7. Sum(A \cup D) = f[x] + Sum(A \cup E) /\ Sum(D) = f[x] + Sum(E)
    <3>1. A \cup D \in SUBSET (A \cup B) /\ D \in SUBSET (A \cup B)
      BY <2>2
    <3>2. Sum(A \cup D) = f[x] + Sum((A \cup D) \ {x}) /\ Sum(D) = f[x] + Sum(D \ {x})
      BY <1>1, <2>4, <2>5, <3>1
    <3>3. QED
      BY <2>5, <3>2
  <2>8. Sum(A) \in Int /\ Sum(E) \in Int /\ f[x] \in Int
    <3>1. A \in SUBSET (A \cup B) /\ E \in SUBSET (A \cup B) /\ x \in A \cup B
      BY <2>2, <2>4, <2>5
    <3>2. QED
      BY <1>1, <3>1
  <2> HIDE DEF E
  <2>9. QED
    BY <2>2, <2>6, <2>7, <2>8
<1>4. B \notin T
  BY <1>3
<1>5. QED
  BY <1>4 DEF Sum

\* The terms may be named otherwise.
LEMMA SumRenamed ==
    ASSUME NEW S, IsFiniteSet(S), NEW f, \A x \in S : f[x] \in Int, NEW g, NEW h,
           \A x, y \in S : h[x] = h[y] => x = y, \A x \in S : g[h[x]] = f[x]
    PROVE  SumFunctionOnSet(g, {h[x] : x \in S}) = SumFunctionOnSet(f, S)
<1> DEFINE Image(D) == {h[x] : x \in D}
           SumF(D) == SumFunctionOnSet(f, D)
           SumG(D) == SumFunctionOnSet(g, Image(D))
           T == {D \in SUBSET S : SumG(D) # SumF(D)}
<1>1. ASSUME NEW D \in SUBSET S, NEW x \in D
      PROVE  SumF(D) = f[x] + SumF(D \ {x}) /\ SumG(D) = g[h[x]] + SumG(D \ {x})
  <2>1. IsFiniteSet(D)
    BY FS_Subset
  <2>2. SumF(D) = f[x] + SumF(D \ {x})
    BY <2>1, SumTerm
  <2>3. Image(D) \ {h[x]} = Image(D \ {x}) /\ h[x] \in Image(D)
    OBVIOUS
  <2>4. IsFiniteSet(Image(D))
    <3> DEFINE k == [y \in D |-> h[y]]
    <3>1. k \in Surjection(D, Image(D))
      BY DEF Surjection
    <3> HIDE DEF k, Image
    <3>2. QED
      BY <2>1, <3>1, FS_Surjection
  <2>5. \A y \in Image(D) : g[y] \in Int
    OBVIOUS
  <2> HIDE DEF Image
  <2>6. SumFunctionOnSet(g, Image(D)) = g[h[x]] + SumFunctionOnSet(g, Image(D) \ {h[x]})
    BY <2>3, <2>4, <2>5, SumTerm
  <2>7. QED
    BY <2>2, <2>3, <2>6
<1>2. SumF({}) = 0 /\ SumG({}) = 0
  <2>1. Image({}) = {}
    OBVIOUS
  <2>2. QED
    BY <2>1, SumEmpty
<1> HIDE DEF SumF, SumG, Image
<1>3. ASSUME T # {} PROVE FALSE
  <2>1. PICK D \in T : \A E \in T : E \subseteq D => E = D
    <3>1. T \in SUBSET SUBSET S
      OBVIOUS
    <3> HIDE DEF T
    <3>2. QED
      BY <1>3, <3>1, SmallestSet
  <2>2. D \in SUBSET S /\ SumG(D) # SumF(D)
    BY <2>1
  <2>3. D # {}
    BY <1>2, <2>2
  <2>4. PICK x \in D : TRUE
    BY <2>3
  <2>5. D \ {x} \notin T /\ D \ {x} \in SUBSET S
    BY <2>1, <2>2, <2>4
  <2>6. SumG(D \ {x}) = SumF(D \ {x})
    BY <2>5
  <2>7. QED
    BY <1>1, <2>2, <2>4, <2>6
<1>4. S \notin T
  BY <1>3
<1>5. QED
  BY <1>4 DEF SumF, SumG, Image

LEMMA SumAppended ==
    ASSUME NEW n \in Nat, NEW f, NEW g, \A x \in 1 .. n + 1 : g[x] \in Int, \A x \in 1 .. n : g[x] = f[x]
    PROVE  SumFunctionOnSet(g, 1 .. n + 1) = SumFunctionOnSet(f, 1 .. n) + g[n + 1]
<1>1. IsFiniteSet(1 .. n + 1) /\ IsFiniteSet(1 .. n)
  BY FS_Interval
<1>2. n + 1 \in 1 .. n + 1 /\ (1 .. n + 1) \ {n + 1} = 1 .. n
  OBVIOUS
<1>3. SumFunctionOnSet(g, 1 .. n + 1) = g[n + 1] + SumFunctionOnSet(g, (1 .. n + 1) \ {n + 1})
  BY <1>1, <1>2, SumTerm
<1>4. SumFunctionOnSet(g, 1 .. n) = SumFunctionOnSet(f, 1 .. n)
  BY SumSame
<1>5. SumFunctionOnSet(g, 1 .. n) \in Int
  BY <1>1, SumInt
<1>6. g[n + 1] \in Int
  BY <1>2
<1>7. SumFunctionOnSet(g, (1 .. n + 1) \ {n + 1}) = SumFunctionOnSet(g, 1 .. n)
  BY <1>2
<1> DEFINE sum == SumFunctionOnSet(f, 1 .. n)
<1>8. SumFunctionOnSet(g, 1 .. n + 1) = g[n + 1] + sum /\ sum \in Int
  BY <1>3, <1>4, <1>5, <1>7
<1> HIDE DEF sum
<1>9. SumFunctionOnSet(g, 1 .. n + 1) = sum + g[n + 1]
  BY <1>6, <1>8
<1>10. QED
  BY <1>9 DEF sum

-----------------------------------------------------------------------------
(* The greatest and the least of a finite set of numbers. *)

LEMMA GreatestOne ==
    ASSUME NEW S, S \subseteq Int, IsFiniteSet(S), S # {}
    PROVE  Max(S) \in S /\ \A y \in S : Max(S) >= y
<1> DEFINE T == {A \in SUBSET S : A # {} /\ ~ \E x \in A : \A y \in A : x >= y}
<1>1. ASSUME T # {} PROVE FALSE
  <2>1. PICK A \in T : \A B \in T : B \subseteq A => B = A
    <3>1. T \in SUBSET SUBSET S
      OBVIOUS
    <3> HIDE DEF T
    <3>2. QED
      BY ONLY IsFiniteSet(S), <1>1, <3>1, SmallestSet
  <2>2. PICK x \in A : TRUE
    BY <2>1
  <2>3. A \subseteq S /\ ~ \E y \in A : \A z \in A : y >= z
    BY <2>1
  <2> DEFINE rest == A \ {x}
  <2>4. rest = {} \/ \E m \in rest : \A y \in rest : m >= y
    <3>1. rest \notin T /\ rest \in SUBSET S
      BY <2>1, <2>2
    <3> HIDE DEF rest
    <3>2. QED
      BY <3>1
  <2>5. CASE A \ {x} = {}
    BY <2>2, <2>3, <2>5
  <2>6. CASE \E m \in A \ {x} : \A y \in A \ {x} : m >= y
    <3>1. PICK m \in A \ {x} : \A y \in A \ {x} : m >= y
      BY <2>6
    <3>2. m >= x => \A y \in A : m >= y
      BY <3>1
    <3>3. x >= m => \A y \in A : x >= y
      BY <2>2, <2>3, <3>1
    <3>4. QED
      BY <2>2, <2>3, <3>1, <3>2, <3>3
  <2>7. QED
    BY <2>4, <2>5, <2>6
<1>2. \E x \in S : \A y \in S : x >= y
  BY <1>1
<1>3. QED
  BY <1>2 DEF Max

LEMMA LeastOne ==
    ASSUME NEW S, S \subseteq Int, IsFiniteSet(S), S # {}
    PROVE  Min(S) \in S /\ \A y \in S : Min(S) <= y
<1> DEFINE T == {A \in SUBSET S : A # {} /\ ~ \E x \in A : \A y \in A : x <= y}
<1>1. ASSUME T # {} PROVE FALSE
  <2>1. PICK A \in T : \A B \in T : B \subseteq A => B = A
    <3>1. T \in SUBSET SUBSET S
      OBVIOUS
    <3> HIDE DEF T
    <3>2. QED
      BY ONLY IsFiniteSet(S), <1>1, <3>1, SmallestSet
  <2>2. PICK x \in A : TRUE
    BY <2>1
  <2>3. A \subseteq S /\ ~ \E y \in A : \A z \in A : y <= z
    BY <2>1
  <2> DEFINE rest == A \ {x}
  <2>4. rest = {} \/ \E m \in rest : \A y \in rest : m <= y
    <3>1. rest \notin T /\ rest \in SUBSET S
      BY <2>1, <2>2
    <3> HIDE DEF rest
    <3>2. QED
      BY <3>1
  <2>5. CASE A \ {x} = {}
    BY <2>2, <2>3, <2>5
  <2>6. CASE \E m \in A \ {x} : \A y \in A \ {x} : m <= y
    <3>1. PICK m \in A \ {x} : \A y \in A \ {x} : m <= y
      BY <2>6
    <3>2. m <= x => \A y \in A : m <= y
      BY <3>1
    <3>3. x <= m => \A y \in A : x <= y
      BY <2>2, <2>3, <3>1
    <3>4. QED
      BY <2>2, <2>3, <3>1, <3>2, <3>3
  <2>7. QED
    BY <2>4, <2>5, <2>6
<1>2. \E x \in S : \A y \in S : x <= y
  BY <1>1
<1>3. QED
  BY <1>2 DEF Min

\* The greater of two.
LEMMA GreaterOfTwo == \A x, y \in Int : Max({x, y}) = IF x >= y THEN x ELSE y
BY DEF Max

LEMMA LesserOfTwo == \A x, y \in Int : Min({x, y}) = IF x <= y THEN x ELSE y
BY DEF Min
=============================================================================
