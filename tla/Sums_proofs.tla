---------------------------- MODULE Sums_proofs ----------------------------
(***************************************************************************)
(* Laws of SumOf over a finite set: it exists, any element may be taken    *)
(* out, it splits, and it grows with its summands.                         *)
(*                                                                         *)
(* The induction theorems of the library take a predicate as a parameter.  *)
(* A minimal counterexample does without: the subsets for which a law      *)
(* fails, were there any, would include a smallest one (MinimalSet).       *)
(***************************************************************************)
EXTENDS Sums, FiniteSetTheorems, WellFoundedInduction, TLAPS

Pick(s) == CHOOSE x \in s : TRUE

\* g is the table of partial sums that the fold over S builds.
IsTable(g, f, S) ==
    g = [s \in SUBSET S |-> IF s = {} THEN 0 ELSE f[Pick(s)] + g[s \ {Pick(s)}]]

LEMMA SumIsTable ==
    ASSUME NEW f, NEW S
    PROVE  SumOf(f, S) = (CHOOSE g : IsTable(g, f, S))[S]
BY DEF SumOf, MapThenSumSet, MapThenFoldSet, IsTable, Pick

LEMMA MinimalSet ==
    ASSUME NEW S, IsFiniteSet(S), NEW T, T \subseteq SUBSET S, T # {}
    PROVE  \E m \in T : \A u \in T : u \subseteq m => u = m
<1>1. IsWellFoundedOn(StrictSubsetOrdering(S), SUBSET S)
  BY FS_StrictSubsetOrderingWellFounded, FS_FiniteSubsetsOfFinite
<1>2. PICK m \in T : \A u \in T : ~ (<<u, m>> \in StrictSubsetOrdering(S))
  BY <1>1, WFMin
<1>3. \A u \in T : u \subseteq m => u = m
  BY <1>2 DEF StrictSubsetOrdering
<1> QED BY <1>3

LEMMA TableEntry ==
    ASSUME NEW g, NEW f, NEW S, IsTable(g, f, S), NEW s \in SUBSET S
    PROVE  g[s] = IF s = {} THEN 0 ELSE f[Pick(s)] + g[s \ {Pick(s)}]
BY DEF IsTable

LEMMA PickIn == ASSUME NEW s, s # {} PROVE Pick(s) \in s
BY DEF Pick

\* Two tables agree on all they have in common.
LEMMA TablesAgree ==
    ASSUME NEW f, NEW S, IsFiniteSet(S), NEW g, IsTable(g, f, S),
           NEW R \in SUBSET S, NEW h, IsTable(h, f, R)
    PROVE  \A s \in SUBSET R : g[s] = h[s]
<1> DEFINE Bad == {s \in SUBSET R : g[s] # h[s]}
<1>1. SUFFICES ASSUME Bad # {} PROVE FALSE
  OBVIOUS
<1>2. PICK m \in Bad : \A u \in Bad : u \subseteq m => u = m
  <2>1. IsFiniteSet(R)
    BY FS_Subset
  <2>2. Bad \subseteq SUBSET R
    OBVIOUS
  <2> HIDE DEF Bad
  <2> QED BY <1>1, <2>1, <2>2, MinimalSet
<1>3. m # {}
  BY TableEntry, <1>2
<1>4. Pick(m) \in m
  BY <1>3, PickIn
<1>5. m \ {Pick(m)} \notin Bad
  BY <1>2, <1>4
<1>6. g[m \ {Pick(m)}] = h[m \ {Pick(m)}]
  BY <1>5
<1>7. g[m] = f[Pick(m)] + g[m \ {Pick(m)}]
  BY <1>3, TableEntry
<1>8. h[m] = f[Pick(m)] + h[m \ {Pick(m)}]
  BY <1>3, TableEntry
<1> QED BY <1>6, <1>7, <1>8

LEMMA TableExists ==
    ASSUME NEW f, NEW S, IsFiniteSet(S)
    PROVE  \E g : IsTable(g, f, S)
<1> DEFINE Bad == {s \in SUBSET S : ~ \E g : IsTable(g, f, s)}
<1>1. SUFFICES ASSUME Bad # {} PROVE FALSE
  OBVIOUS
<1>2. PICK m \in Bad : \A u \in Bad : u \subseteq m => u = m
  <2>1. Bad \subseteq SUBSET S
    OBVIOUS
  <2> HIDE DEF Bad
  <2> QED BY <1>1, <2>1, MinimalSet
<1>3. m \in SUBSET S /\ IsFiniteSet(m)
  BY FS_Subset
<1> DEFINE T(u) == CHOOSE g : IsTable(g, f, u)
<1>4. \A u \in SUBSET m : u # m => IsTable(T(u), f, u)
  BY <1>2
<1> DEFINE g == [s \in SUBSET m |-> IF s = {} THEN 0
                                    ELSE f[Pick(s)] + T(s \ {Pick(s)})[s \ {Pick(s)}]]
<1>5. \A s \in SUBSET m : s # m => g[s] = T(s)[s]
  <2>1. SUFFICES ASSUME NEW s \in SUBSET m, s # m PROVE g[s] = T(s)[s]
    OBVIOUS
  <2>2. IsTable(T(s), f, s)
    BY <1>4, <2>1
  <2>3. CASE s = {}
    BY <2>3, <2>2, TableEntry
  <2>4. CASE s # {}
    <3> DEFINE r == s \ {Pick(s)}
    <3>1. Pick(s) \in s
      BY <2>4, PickIn
    <3>2. r # m /\ r \in SUBSET m /\ r \in SUBSET s
      BY <3>1, <2>1
    <3>3. IsTable(T(r), f, r)
      BY <1>4, <3>2
    <3>4. IsFiniteSet(s)
      BY <1>3, FS_Subset
    <3>5. T(s)[r] = T(r)[r]
      BY <2>2, <3>2, <3>3, <3>4, TablesAgree
    <3>6. T(s)[s] = f[Pick(s)] + T(s)[r]
      BY <2>2, <2>4, TableEntry
    <3> QED BY <2>4, <3>5, <3>6
  <2> QED BY <2>3, <2>4
<1>6. IsTable(g, f, m)
  <2>1. \A s \in SUBSET m : s # {} => s \ {Pick(s)} \in SUBSET m /\ s \ {Pick(s)} # m
    BY PickIn
  <2>2. \A s \in SUBSET m : s # {} => g[s \ {Pick(s)}] = T(s \ {Pick(s)})[s \ {Pick(s)}]
    BY <2>1, <1>5
  <2>3. \A s \in SUBSET m : (IF s = {} THEN 0 ELSE f[Pick(s)] + T(s \ {Pick(s)})[s \ {Pick(s)}])
                              = (IF s = {} THEN 0 ELSE f[Pick(s)] + g[s \ {Pick(s)}])
    <3> HIDE DEF g, T
    <3>1. SUFFICES ASSUME NEW s \in SUBSET m, s # {}
                   PROVE  T(s \ {Pick(s)})[s \ {Pick(s)}] = g[s \ {Pick(s)}]
      BY Zenon
    <3> QED BY <3>1, <2>2, Zenon
  <2>4. g = [s \in SUBSET m |-> IF s = {} THEN 0 ELSE f[Pick(s)] + g[s \ {Pick(s)}]]
    <3> DEFINE A(s) == IF s = {} THEN 0 ELSE f[Pick(s)] + T(s \ {Pick(s)})[s \ {Pick(s)}]
               B(s) == IF s = {} THEN 0 ELSE f[Pick(s)] + g[s \ {Pick(s)}]
    <3>1. \A s \in SUBSET m : A(s) = B(s)
      BY <2>3
    <3>2. g = [s \in SUBSET m |-> A(s)]
      OBVIOUS
    <3> HIDE DEF A, B
    <3>3. g = [s \in SUBSET m |-> B(s)]
      BY <3>1, <3>2
    <3> QED BY <3>3 DEF B
  <2> QED BY <2>4 DEF IsTable
<1> QED BY <1>6

LEMMA SumStep ==
    ASSUME NEW f, NEW S, IsFiniteSet(S)
    PROVE  /\ S = {} => SumOf(f, S) = 0
           /\ S # {} => SumOf(f, S) = f[Pick(S)] + SumOf(f, S \ {Pick(S)})
<1> DEFINE T(u) == CHOOSE g : IsTable(g, f, u)
<1>1. IsTable(T(S), f, S)
  BY TableExists
<1>2. CASE S = {}
  BY <1>1, <1>2, TableEntry, SumIsTable
<1>3. CASE S # {}
  <2> DEFINE R == S \ {Pick(S)}
  <2>1. IsFiniteSet(R) /\ R \in SUBSET S
    BY FS_RemoveElement
  <2>2. IsTable(T(R), f, R)
    BY <2>1, TableExists
  <2>3. T(S)[R] = T(R)[R]
    BY <1>1, <2>1, <2>2, TablesAgree
  <2>4. T(S)[S] = f[Pick(S)] + T(S)[R]
    BY <1>1, <1>3, TableEntry
  <2> QED BY <1>3, <2>3, <2>4, SumIsTable
<1> QED BY <1>2, <1>3

\* Any element may be taken out of a sum.
LEMMA SumOut ==
    ASSUME NEW f, NEW S, IsFiniteSet(S), \A x \in S : f[x] \in Int
    PROVE  /\ SumOf(f, S) \in Int
           /\ \A x \in S : SumOf(f, S) = f[x] + SumOf(f, S \ {x})
<1> DEFINE Good(s) == /\ SumOf(f, s) \in Int
                      /\ \A x \in s : SumOf(f, s) = f[x] + SumOf(f, s \ {x})
           Bad == {s \in SUBSET S : ~ Good(s)}
<1>1. SUFFICES ASSUME Bad # {} PROVE FALSE
  BY DEF Bad
<1>2. PICK m \in Bad : \A u \in Bad : u \subseteq m => u = m
  <2>1. Bad \subseteq SUBSET S
    OBVIOUS
  <2> HIDE DEF Bad
  <2> QED BY <1>1, <2>1, MinimalSet
<1>3. m \in SUBSET S /\ IsFiniteSet(m) /\ ~ Good(m)
  BY FS_Subset
<1>4. \A u \in SUBSET m : u # m => Good(u) /\ IsFiniteSet(u)
  BY <1>2, <1>3, FS_Subset
<1> HIDE DEF Bad
<1>5. m # {}
  <2>1. Good({})
    <3>1. SumOf(f, {}) = 0
      BY SumStep, FS_EmptySet
    <3> QED BY <3>1
  <2> HIDE DEF Good
  <2> QED BY <1>3, <2>1
<1> DEFINE p == Pick(m)
<1>6. p \in m /\ SumOf(f, m) = f[p] + SumOf(f, m \ {p})
  BY <1>3, <1>5, SumStep, PickIn
<1>7. SumOf(f, m \ {p}) \in Int /\ f[p] \in Int
  BY <1>3, <1>4, <1>6
<1>8. ASSUME NEW x \in m, x # p
      PROVE  SumOf(f, m) = f[x] + SumOf(f, m \ {x})
  <2> DEFINE r == (m \ {p}) \ {x}
  <2>1. r = (m \ {x}) \ {p} /\ m \ {p} # m /\ m \ {x} # m /\ r # m
    BY <1>6
  <2>2. SumOf(f, m \ {p}) = f[x] + SumOf(f, r)
    BY <1>4, <2>1, <1>8
  <2>3. SumOf(f, m \ {x}) = f[p] + SumOf(f, r)
    BY <1>4, <1>6, <2>1, <1>8
  <2>4. SumOf(f, r) \in Int /\ f[x] \in Int /\ f[p] \in Int
    BY <1>3, <1>4, <1>6, <2>1
  <2> HIDE DEF r, p
  <2> QED BY <1>6, <2>2, <2>3, <2>4
<1>9. SumOf(f, m) \in Int
  BY <1>6, <1>7
<1>10. \A x \in m : SumOf(f, m) = f[x] + SumOf(f, m \ {x})
  <2> HIDE DEF p
  <2> QED BY <1>6, <1>8
<1> QED BY <1>3, <1>9, <1>10

LEMMA SumEmpty ==
    ASSUME NEW f PROVE SumOf(f, {}) = 0
BY SumStep, FS_EmptySet

LEMMA SumAdd ==
    ASSUME NEW f, NEW S, IsFiniteSet(S), NEW x, x \notin S,
           \A y \in S \cup {x} : f[y] \in Int
    PROVE  SumOf(f, S \cup {x}) = f[x] + SumOf(f, S)
<1>1. IsFiniteSet(S \cup {x}) /\ (S \cup {x}) \ {x} = S
  BY FS_AddElement
<1> QED BY <1>1, SumOut

\* A sum depends on the summands only.
LEMMA SumSame ==
    ASSUME NEW f, NEW g, NEW S, IsFiniteSet(S),
           \A x \in S : f[x] \in Int /\ g[x] = f[x]
    PROVE  SumOf(g, S) = SumOf(f, S)
<1> DEFINE Bad == {s \in SUBSET S : SumOf(g, s) # SumOf(f, s)}
<1>1. SUFFICES ASSUME Bad # {} PROVE FALSE
  BY DEF Bad
<1>2. PICK m \in Bad : \A u \in Bad : u \subseteq m => u = m
  <2>1. Bad \subseteq SUBSET S
    OBVIOUS
  <2> HIDE DEF Bad
  <2> QED BY <1>1, <2>1, MinimalSet
<1>3. m \in SUBSET S /\ IsFiniteSet(m) /\ SumOf(g, m) # SumOf(f, m)
  BY FS_Subset
<1>4. \A u \in SUBSET m : u # m => SumOf(g, u) = SumOf(f, u)
  BY <1>2, <1>3
<1> HIDE DEF Bad
<1>5. m # {}
  BY <1>3, SumEmpty
<1>6. PICK x \in m : TRUE
  BY <1>5
<1>7. SumOf(g, m \ {x}) = SumOf(f, m \ {x})
  BY <1>4
<1> QED BY <1>3, <1>6, <1>7, SumOut

LEMMA SumSplit ==
    ASSUME NEW f, NEW S, IsFiniteSet(S), NEW T \in SUBSET S,
           \A x \in S : f[x] \in Int
    PROVE  SumOf(f, S) = SumOf(f, T) + SumOf(f, S \ T)
<1> DEFINE Bad == {s \in SUBSET T : SumOf(f, s \cup (S \ T)) # SumOf(f, s) + SumOf(f, S \ T)}
<1>1. IsFiniteSet(T) /\ IsFiniteSet(S \ T)
  BY FS_Subset
<1>2. SUFFICES ASSUME Bad # {} PROVE FALSE
  <2>1. T \notin Bad => SumOf(f, T \cup (S \ T)) = SumOf(f, T) + SumOf(f, S \ T)
    BY DEF Bad
  <2>2. T \cup (S \ T) = S
    OBVIOUS
  <2> HIDE DEF Bad
  <2> QED BY <2>1, <2>2
<1>3. PICK m \in Bad : \A u \in Bad : u \subseteq m => u = m
  <2>1. Bad \subseteq SUBSET T
    OBVIOUS
  <2> HIDE DEF Bad
  <2> QED BY <1>2, <1>1, <2>1, MinimalSet
<1>4. m \in SUBSET T /\ IsFiniteSet(m) /\ SumOf(f, m \cup (S \ T)) # SumOf(f, m) + SumOf(f, S \ T)
  BY <1>1, FS_Subset
<1>5. \A u \in SUBSET m : u # m => SumOf(f, u \cup (S \ T)) = SumOf(f, u) + SumOf(f, S \ T)
  BY <1>3, <1>4
<1> HIDE DEF Bad
<1>6. SumOf(f, S \ T) \in Int
  BY <1>1, SumOut
<1>7. m # {}
  <2>1. SumOf(f, {} \cup (S \ T)) = SumOf(f, {}) + SumOf(f, S \ T)
    <3>1. {} \cup (S \ T) = S \ T
      OBVIOUS
    <3>2. SumOf(f, {}) = 0
      BY SumEmpty
    <3> QED BY <1>6, <3>1, <3>2
  <2> QED BY <1>4, <2>1
<1>8. PICK x \in m : TRUE
  BY <1>7
<1> DEFINE r == m \ {x}
<1>9. SumOf(f, r \cup (S \ T)) = SumOf(f, r) + SumOf(f, S \ T)
  BY <1>5
<1>10. (m \cup (S \ T)) \ {x} = r \cup (S \ T) /\ IsFiniteSet(m \cup (S \ T)) /\ x \in S
      /\ m \cup (S \ T) \subseteq S
  BY <1>4, <1>1, FS_Subset
<1>11. SumOf(f, m \cup (S \ T)) = f[x] + SumOf(f, r \cup (S \ T))
  BY <1>10, SumOut
<1>12. SumOf(f, m) = f[x] + SumOf(f, r) /\ SumOf(f, r) \in Int /\ f[x] \in Int
  <2>1. IsFiniteSet(r) /\ r \subseteq S
    BY <1>4, FS_Subset
  <2> QED BY <1>4, <1>10, <2>1, SumOut
<1> HIDE DEF r
<1> QED BY <1>4, <1>9, <1>11, <1>12, <1>6

\* Larger summands make a sum larger.
LEMMA SumMonotonic ==
    ASSUME NEW f, NEW g, NEW S, IsFiniteSet(S),
           \A x \in S : f[x] \in Int /\ g[x] \in Int /\ f[x] <= g[x]
    PROVE  SumOf(f, S) <= SumOf(g, S)
<1> DEFINE Bad == {s \in SUBSET S : ~ (SumOf(f, s) <= SumOf(g, s))}
<1>1. SUFFICES ASSUME Bad # {} PROVE FALSE
  BY DEF Bad
<1>2. PICK m \in Bad : \A u \in Bad : u \subseteq m => u = m
  <2>1. Bad \subseteq SUBSET S
    OBVIOUS
  <2> HIDE DEF Bad
  <2> QED BY <1>1, <2>1, MinimalSet
<1>3. m \in SUBSET S /\ IsFiniteSet(m) /\ ~ (SumOf(f, m) <= SumOf(g, m))
  BY FS_Subset
<1>4. \A u \in SUBSET m : u # m => SumOf(f, u) <= SumOf(g, u)
  BY <1>2, <1>3
<1> HIDE DEF Bad
<1>5. m # {}
  <2>1. SumOf(f, {}) = 0 /\ SumOf(g, {}) = 0
    BY SumEmpty
  <2> QED BY <1>3, <2>1
<1>6. PICK x \in m : TRUE
  BY <1>5
<1>7. SumOf(f, m \ {x}) <= SumOf(g, m \ {x})
  BY <1>4
<1>8. IsFiniteSet(m \ {x}) /\ m \ {x} \subseteq S
  BY <1>3, FS_RemoveElement
<1>9. SumOf(f, m \ {x}) \in Int /\ SumOf(g, m \ {x}) \in Int
  BY <1>8, SumOut
<1>10. SumOf(f, m) = f[x] + SumOf(f, m \ {x}) /\ SumOf(g, m) = g[x] + SumOf(g, m \ {x})
  BY <1>3, <1>6, SumOut
<1>11. f[x] \in Int /\ g[x] \in Int /\ f[x] <= g[x]
  BY <1>3, <1>6
<1> QED BY <1>3, <1>7, <1>9, <1>10, <1>11

\* A sum of zeros, and of what is not negative.
LEMMA SumZero ==
    ASSUME NEW f, NEW S, IsFiniteSet(S), \A x \in S : f[x] = 0
    PROVE  SumOf(f, S) = 0
<1> DEFINE Bad == {s \in SUBSET S : SumOf(f, s) # 0}
<1>1. SUFFICES ASSUME Bad # {} PROVE FALSE
  BY DEF Bad
<1>2. PICK m \in Bad : \A u \in Bad : u \subseteq m => u = m
  <2>1. Bad \subseteq SUBSET S
    OBVIOUS
  <2> HIDE DEF Bad
  <2> QED BY <1>1, <2>1, MinimalSet
<1>3. m \in SUBSET S /\ IsFiniteSet(m) /\ SumOf(f, m) # 0
  BY FS_Subset
<1>4. \A u \in SUBSET m : u # m => SumOf(f, u) = 0
  BY <1>2, <1>3
<1> HIDE DEF Bad
<1>5. m # {}
  BY <1>3, SumEmpty
<1>6. PICK x \in m : TRUE
  BY <1>5
<1>7. SumOf(f, m) = f[x] + SumOf(f, m \ {x})
  BY <1>3, <1>6, SumOut
<1> QED BY <1>3, <1>4, <1>6, <1>7

LEMMA SumNat ==
    ASSUME NEW f, NEW S, IsFiniteSet(S), \A x \in S : f[x] \in Nat
    PROVE  SumOf(f, S) \in Nat
<1> DEFINE z == [x \in S |-> 0]
<1>1. SumOf(z, S) = 0
  BY SumZero
<1>2. SumOf(z, S) <= SumOf(f, S)
  BY SumMonotonic
<1>3. SumOf(f, S) \in Int
  BY SumOut
<1> QED BY <1>1, <1>2, <1>3

LEMMA SumSubset ==
    ASSUME NEW f, NEW S, IsFiniteSet(S), NEW T \in SUBSET S, \A x \in S : f[x] \in Nat
    PROVE  SumOf(f, T) <= SumOf(f, S)
<1>1. IsFiniteSet(T) /\ IsFiniteSet(S \ T)
  BY FS_Subset
<1>2. SumOf(f, T) \in Nat /\ SumOf(f, S \ T) \in Nat
  BY <1>1, SumNat
<1>3. SumOf(f, S) = SumOf(f, T) + SumOf(f, S \ T)
  BY SumSplit
<1> QED BY <1>2, <1>3

\* One summand changes.
LEMMA SumChange ==
    ASSUME NEW f, NEW g, NEW S, IsFiniteSet(S), NEW x \in S,
           \A y \in S : f[y] \in Int /\ g[y] \in Int,
           \A y \in S \ {x} : g[y] = f[y]
    PROVE  SumOf(g, S) = SumOf(f, S) - f[x] + g[x]
<1>1. IsFiniteSet(S \ {x})
  BY FS_RemoveElement
<1>2. SumOf(g, S \ {x}) = SumOf(f, S \ {x})
  BY <1>1, SumSame
<1>3. SumOf(f, S \ {x}) \in Int
  BY <1>1, SumOut
<1>4. SumOf(f, S) = f[x] + SumOf(f, S \ {x}) /\ SumOf(g, S) = g[x] + SumOf(g, S \ {x})
  BY SumOut
<1> QED BY <1>2, <1>3, <1>4

\* A sum over S is at most one over the part T of it that counts.
LEMMA SumBelow ==
    ASSUME NEW f, NEW g, NEW S, IsFiniteSet(S), NEW T \in SUBSET S,
           \A x \in S : f[x] \in Int, \A x \in T : g[x] \in Int /\ f[x] <= g[x],
           \A x \in S \ T : f[x] <= 0
    PROVE  SumOf(f, S) <= SumOf(g, T)
<1> DEFINE z == [x \in S |-> 0]
<1>1. IsFiniteSet(T) /\ IsFiniteSet(S \ T)
  BY FS_Subset
<1>2. SumOf(f, S) = SumOf(f, T) + SumOf(f, S \ T)
  BY SumSplit
<1>3. SumOf(f, T) <= SumOf(g, T)
  BY <1>1, SumMonotonic
<1>4. \A x \in S \ T : z[x] = 0
  OBVIOUS
<1> HIDE DEF z
<1>5. SumOf(f, S \ T) <= SumOf(z, S \ T) /\ SumOf(z, S \ T) = 0
  BY <1>1, <1>4, SumMonotonic, SumZero
<1>6. SumOf(f, T) \in Int /\ SumOf(f, S \ T) \in Int /\ SumOf(g, T) \in Int
  BY <1>1, SumOut
<1> QED BY <1>2, <1>3, <1>5, <1>6

\* An element that counts nothing may join or leave.
LEMMA SumWithout ==
    ASSUME NEW f, NEW S, IsFiniteSet(S), NEW x, f[x] = 0, \A y \in S : f[y] \in Int
    PROVE  SumOf(f, S \ {x}) = SumOf(f, S)
<1>1. CASE x \in S
  <2>1. SumOf(f, S) = f[x] + SumOf(f, S \ {x}) /\ SumOf(f, S \ {x}) \in Int
    <3>1. IsFiniteSet(S \ {x})
      BY FS_RemoveElement
    <3> QED BY <1>1, <3>1, SumOut
  <2> QED BY <2>1
<1>2. CASE x \notin S
  <2>1. S \ {x} = S
    BY <1>2
  <2> QED BY <2>1
<1> QED BY <1>1, <1>2

\* A finite set of numbers has a largest one: above it there is least.
LEMMA LeastAbove ==
    ASSUME NEW D, IsFiniteSet(D), D # {}
    PROVE  \E m \in D : \A x \in D :
             {d \in D : d >= x} \subseteq {d \in D : d >= m} => {d \in D : d >= x} = {d \in D : d >= m}
<1> DEFINE T == {{d \in D : d >= x} : x \in D}
<1>1. T \subseteq SUBSET D /\ T # {}
  OBVIOUS
<1>2. \A x \in D : {d \in D : d >= x} \in T
  OBVIOUS
<1>3. \A t \in T : \E x \in D : t = {d \in D : d >= x}
  OBVIOUS
<1> HIDE DEF T
<1>4. PICK m \in T : \A u \in T : u \subseteq m => u = m
  BY <1>1, MinimalSet
<1>5. PICK x \in D : m = {d \in D : d >= x}
  BY <1>3
<1>6. ASSUME NEW y \in D, {d \in D : d >= y} \subseteq {d \in D : d >= x}
      PROVE  {d \in D : d >= y} = {d \in D : d >= x}
  <2>1. PICK u \in T : u = {d \in D : d >= y}
    BY <1>2
  <2>2. u = m
    BY <1>4, <1>5, <1>6, <2>1
  <2> QED
    BY <1>5, <2>1, <2>2
<1> QED
  BY <1>6

LEMMA Largest ==
    ASSUME NEW D, IsFiniteSet(D), D # {}, D \subseteq Nat
    PROVE  \E m \in D : \A d \in D : d <= m
<1>1. PICK m \in D : \A x \in D :
        {d \in D : d >= x} \subseteq {d \in D : d >= m} => {d \in D : d >= x} = {d \in D : d >= m}
  BY LeastAbove
<1>2. ASSUME NEW x \in D, ~ (x <= m) PROVE FALSE
  <2>1. x > m /\ x \in Nat /\ m \in Nat
    BY <1>2
  <2>2. \A d \in D : d >= x => d >= m
    BY <2>1
  <2>3. {d \in D : d >= x} = {d \in D : d >= m}
    BY <1>1, <2>2
  <2>4. m \in {d \in D : d >= m} /\ m \notin {d \in D : d >= x}
    BY <2>1
  <2> QED
    BY <2>3, <2>4
<1> QED
  BY <1>2
=============================================================================
