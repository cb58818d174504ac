-------------------------------- MODULE Sums --------------------------------
(***************************************************************************)
(* The laws of SumOf, the sum of a function over a finite set: it does not *)
(* depend on the order the terms are taken in, so a term may be taken out, *)
(* put in or changed.  SumOf is a recursive definition; the least-number   *)
(* principle (WFMin for < on the naturals) stands in for an induction      *)
(* rule: a counterexample of the least size is none.                       *)
(***************************************************************************)
EXTENDS Totals, FiniteSets, TLAPS, FiniteSetTheorems, WellFoundedInduction

-----------------------------------------------------------------------------
(* Induction *)

\* A set of naturals that is not empty has a least member.
LEMMA LeastNumber ==
    ASSUME NEW T, T \subseteq Nat, T # {}
    PROVE  \E m \in T : \A n \in T : m <= n
<1>1. \E x \in T : \A y \in T : <<y, x>> \notin OpToRel(<, Nat)
  BY WFMin, NatLessThanWellFounded
<1>2. \A x, y \in Nat : <<y, x>> \in OpToRel(<, Nat) <=> y < x
  BY Zenon DEF OpToRel
<1>3. PICK x \in T : \A y \in T : <<y, x>> \notin OpToRel(<, Nat)
  BY <1>1
<1>4. x \in Nat /\ \A y \in T : y \in Nat /\ ~(y < x)
  BY <1>2, <1>3, Zenon
<1> QED
  BY <1>4

\* A set of finite sets that is not empty has a member of the least size.
LEMMA LeastSet ==
    ASSUME NEW T, T # {}, \A s \in T : IsFiniteSet(s)
    PROVE  \E m \in T : \A s \in T : Cardinality(m) <= Cardinality(s)
<1> DEFINE sizes == {Cardinality(s) : s \in T}
<1>1. sizes \subseteq Nat /\ sizes # {}
  BY FS_CardinalityType
<1>2. PICK n \in sizes : \A k \in sizes : n <= k
  BY <1>1, LeastNumber, Zenon
<1> QED
  BY <1>2

-----------------------------------------------------------------------------
(* The recursion SumOf stands for *)

Pick(s) == CHOOSE x \in s : TRUE
Partial(f, g, s) == IF s = {} THEN 0 ELSE f[Pick(s)] + g[s \ {Pick(s)}]
SumFun(f, S, g) == g = [s \in SUBSET S |-> Partial(f, g, s)]

\* SumOf is the value at S of a function that satisfies its equation, if there is one.
LEMMA SumUnfold ==
    ASSUME NEW f, NEW S
    PROVE  SumOf(f, S) = (CHOOSE g : SumFun(f, S, g))[S]
BY Zenon DEF SumOf, MapThenSumSet, MapThenFoldSet, SumFun, Partial, Pick

\* The element picked is one, and what is left is smaller.
LEMMA PickSteps ==
    ASSUME NEW s, IsFiniteSet(s), s # {}
    PROVE  /\ Pick(s) \in s /\ IsFiniteSet(s \ {Pick(s)})
           /\ Cardinality(s) \in Nat /\ Cardinality(s \ {Pick(s)}) \in Nat
           /\ Cardinality(s \ {Pick(s)}) = Cardinality(s) - 1
<1>1. Pick(s) \in s
  BY DEF Pick
<1> QED
  BY <1>1, FS_RemoveElement, FS_CardinalityType

\* There is such a function: for the sets of each size, from those of the size below.
LEMMA SumExists ==
    ASSUME NEW S, IsFiniteSet(S), NEW f, \A x \in S : f[x] \in Int
    PROVE  \E g \in [SUBSET S -> Int] : SumFun(f, S, g)
<1> DEFINE Level(n) == {s \in SUBSET S : Cardinality(s) <= n}
           Solves(n) == \E g \in [Level(n) -> Int] : \A s \in Level(n) : g[s] = Partial(f, g, s)
           bad == {n \in Nat : ~Solves(n)}
<1>1. \A s \in SUBSET S : IsFiniteSet(s) /\ Cardinality(s) \in Nat
  BY FS_Subset, FS_CardinalityType
<1>2. Solves(0)
  <2>1. \A s \in Level(0) : s = {}
    BY <1>1, FS_EmptySet
  <2>2. [s \in Level(0) |-> 0] \in [Level(0) -> Int]
    OBVIOUS
  <2> QED
    BY <2>1, <2>2 DEF Partial
<1>3. ASSUME NEW n \in Nat, Solves(n) PROVE Solves(n + 1)
  <2>1. PICK g \in [Level(n) -> Int] : \A s \in Level(n) : g[s] = Partial(f, g, s)
    BY <1>3
  <2> DEFINE h == [s \in Level(n + 1) |-> IF s \in Level(n) THEN g[s] ELSE Partial(f, g, s)]
  <2>2. \A s \in Level(n + 1) : s # {} =>
           Pick(s) \in S /\ s \ {Pick(s)} \in Level(n) /\ s \ {Pick(s)} \in Level(n + 1)
    <3>1. SUFFICES ASSUME NEW s \in Level(n + 1), s # {}
                   PROVE  Pick(s) \in S /\ s \ {Pick(s)} \in Level(n) /\ s \ {Pick(s)} \in Level(n + 1)
      OBVIOUS
    <3>2. /\ Pick(s) \in s /\ Cardinality(s) \in Nat /\ Cardinality(s \ {Pick(s)}) \in Nat
          /\ Cardinality(s \ {Pick(s)}) = Cardinality(s) - 1
      BY <1>1, <3>1, PickSteps
    <3> QED
      BY <3>1, <3>2
  <2>3. \A s \in Level(n + 1) : Partial(f, g, s) \in Int
    BY <2>1, <2>2 DEF Partial
  <2>4. Level(n) \subseteq Level(n + 1)
    BY <1>1
  <2>5. h \in [Level(n + 1) -> Int]
    BY <2>1, <2>3
  <2>6. \A s \in Level(n + 1) : h[s] = Partial(f, g, s)
    BY <2>1
  <2>7. \A s \in Level(n + 1) : Partial(f, h, s) = Partial(f, g, s)
    BY <2>2 DEF Partial
  <2> QED
    BY <2>5, <2>6, <2>7
<1>4. bad = {}
  <2>1. SUFFICES ASSUME bad # {} PROVE FALSE
    OBVIOUS
  <2>2. PICK m \in bad : \A n \in bad : m <= n
    BY <2>1, LeastNumber
  <2> HIDE DEF Solves
  <2>3. m \in Nat /\ m # 0 /\ ~Solves(m)
    BY <1>2
  <2>4. m - 1 \in Nat /\ m - 1 \notin bad
    BY <2>2, <2>3
  <2>5. Solves(m - 1) /\ (m - 1) + 1 = m
    BY <2>3, <2>4
  <2> QED
    BY <1>3, <2>3, <2>4, <2>5
<1>5. Solves(Cardinality(S))
  BY <1>4, FS_CardinalityType
<1>6. Level(Cardinality(S)) = SUBSET S
  BY FS_Subset
<1>7. PICK g \in [SUBSET S -> Int] : \A s \in SUBSET S : g[s] = Partial(f, g, s)
  BY <1>5, <1>6
<1>8. SumFun(f, S, g)
  BY <1>7 DEF SumFun
<1> QED
  BY <1>7, <1>8

\* Two such functions agree wherever both are defined.
LEMMA SumUnique ==
    ASSUME NEW S, IsFiniteSet(S), NEW U, U \subseteq S, NEW f, NEW g, NEW h,
           SumFun(f, S, g), SumFun(f, U, h)
    PROVE  \A s \in SUBSET U : g[s] = h[s]
<1> DEFINE bad == {s \in SUBSET U : g[s] # h[s]}
<1>1. SUFFICES ASSUME bad # {} PROVE FALSE
  OBVIOUS
<1>2. \A s \in SUBSET S : IsFiniteSet(s)
  BY FS_Subset
<1>3. PICK m \in bad : \A s \in bad : Cardinality(m) <= Cardinality(s)
  BY <1>1, <1>2, LeastSet
<1>4. g[m] = Partial(f, g, m) /\ h[m] = Partial(f, h, m)
  BY DEF SumFun
<1>5. m # {}
  BY <1>3, <1>4 DEF Partial
<1>6. /\ Pick(m) \in m /\ Cardinality(m) \in Nat /\ Cardinality(m \ {Pick(m)}) \in Nat
      /\ Cardinality(m \ {Pick(m)}) = Cardinality(m) - 1
  BY <1>2, <1>5, PickSteps
<1>7. m \ {Pick(m)} \notin bad
  BY <1>3, <1>6
<1>8. g[m \ {Pick(m)}] = h[m \ {Pick(m)}]
  BY <1>7
<1> QED
  BY <1>4, <1>5, <1>8 DEF Partial

-----------------------------------------------------------------------------
(* The laws *)

\* A sum takes its first term, then the rest.
LEMMA SumFirst ==
    ASSUME NEW S, IsFiniteSet(S), NEW f, \A x \in S : f[x] \in Int
    PROVE  /\ SumOf(f, S) \in Int
           /\ S = {} => SumOf(f, S) = 0
           /\ S # {} => SumOf(f, S) = f[Pick(S)] + SumOf(f, S \ {Pick(S)})
<1> DEFINE G(U) == CHOOSE g : SumFun(f, U, g)
<1>1. \A U \in SUBSET S : SumFun(f, U, G(U)) /\ SumOf(f, U) = G(U)[U]
  <2>1. SUFFICES ASSUME NEW U \in SUBSET S PROVE SumFun(f, U, G(U)) /\ SumOf(f, U) = G(U)[U]
    OBVIOUS
  <2>2. IsFiniteSet(U) /\ \A x \in U : f[x] \in Int
    BY FS_Subset
  <2>3. \E g : SumFun(f, U, g)
    BY <2>2, SumExists
  <2>4. SumFun(f, U, G(U))
    BY <2>3, Zenon
  <2> QED
    BY <2>4, SumUnfold
<1>2. SumOf(f, S) = G(S)[S] /\ SumFun(f, S, G(S))
  BY <1>1
<1>3. PICK g \in [SUBSET S -> Int] : SumFun(f, S, g)
  BY SumExists
<1> HIDE DEF G
<1>4. G(S)[S] = g[S]
  BY <1>2, <1>3, SumUnique
<1>5. G(S)[S] = Partial(f, G(S), S)
  BY <1>2 DEF SumFun
<1>6. ASSUME S # {} PROVE G(S)[S \ {Pick(S)}] = SumOf(f, S \ {Pick(S)})
  <2>1. S \ {Pick(S)} \in SUBSET S
    OBVIOUS
  <2>2. SumFun(f, S \ {Pick(S)}, G(S \ {Pick(S)}))
    BY <1>1, <2>1
  <2>3. G(S)[S \ {Pick(S)}] = G(S \ {Pick(S)})[S \ {Pick(S)}]
    BY <1>2, <2>1, <2>2, SumUnique
  <2> QED
    BY <1>1, <2>1, <2>3
<1> QED
  BY <1>2, <1>3, <1>4, <1>5, <1>6 DEF Partial

\* Any term may be taken first.
LEMMA SumTake ==
    ASSUME NEW S, IsFiniteSet(S), NEW f, \A x \in S : f[x] \in Int, NEW x \in S
    PROVE  SumOf(f, S) = f[x] + SumOf(f, S \ {x})
<1> DEFINE bad == {s \in SUBSET S : \E y \in s : SumOf(f, s) # f[y] + SumOf(f, s \ {y})}
<1>1. \A s \in SUBSET S : IsFiniteSet(s) /\ SumOf(f, s) \in Int
  BY FS_Subset, SumFirst
<1>2. bad = {}
  <2>1. SUFFICES ASSUME bad # {} PROVE FALSE
    OBVIOUS
  <2>2. PICK m \in bad : \A s \in bad : Cardinality(m) <= Cardinality(s)
    BY <1>1, <2>1, LeastSet
  <2>3. PICK y \in m : SumOf(f, m) # f[y] + SumOf(f, m \ {y})
    BY <2>2
  <2>4. m \in SUBSET S /\ IsFiniteSet(m) /\ m # {} /\ \A z \in m : f[z] \in Int
    BY <1>1, <2>3
  <2> DEFINE p == Pick(m)
  <2>5. p \in m /\ SumOf(f, m) = f[p] + SumOf(f, m \ {p})
    BY <2>4, PickSteps, SumFirst
  <2> HIDE DEF p, bad
  <2>6. p # y
    BY <2>3, <2>5
  <2>7. \A z \in m : /\ Cardinality(m) \in Nat /\ Cardinality(m \ {z}) = Cardinality(m) - 1
                     /\ m \ {z} \in SUBSET S /\ m \ {z} \notin bad
    <3>1. SUFFICES ASSUME NEW z \in m
                   PROVE  /\ Cardinality(m) \in Nat /\ Cardinality(m \ {z}) = Cardinality(m) - 1
                          /\ m \ {z} \in SUBSET S /\ m \ {z} \notin bad
      OBVIOUS
    <3>2. Cardinality(m) \in Nat /\ Cardinality(m \ {z}) = Cardinality(m) - 1
      BY <2>4, FS_RemoveElement, FS_CardinalityType
    <3> QED
      BY <2>2, <2>4, <3>2
  <2>8. SumOf(f, m \ {p}) = f[y] + SumOf(f, (m \ {p}) \ {y})
    BY <2>5, <2>6, <2>7 DEF bad
  <2>9. SumOf(f, m \ {y}) = f[p] + SumOf(f, (m \ {y}) \ {p})
    BY <2>5, <2>6, <2>7 DEF bad
  <2>10. (m \ {p}) \ {y} = (m \ {y}) \ {p}
    OBVIOUS
  <2> DEFINE rest == (m \ {y}) \ {p}
  <2>11. SumOf(f, m \ {p}) = f[y] + SumOf(f, rest) /\ SumOf(f, m \ {y}) = f[p] + SumOf(f, rest)
    BY <2>8, <2>9, <2>10, Zenon
  <2>12. rest \in SUBSET S /\ f[y] \in Int /\ f[p] \in Int
    BY <2>4, <2>5
  <2>13. SumOf(f, rest) \in Int
    BY <1>1, <2>12
  <2> HIDE DEF rest
  <2> QED
    BY <2>3, <2>5, <2>11, <2>12, <2>13
<1> QED
  BY <1>2

\* A term is put in.
LEMMA SumPut ==
    ASSUME NEW S, IsFiniteSet(S), NEW f, NEW x, x \notin S, \A y \in S \cup {x} : f[y] \in Int
    PROVE  SumOf(f, S \cup {x}) = SumOf(f, S) + f[x]
<1>1. IsFiniteSet(S \cup {x})
  BY FS_AddElement
<1>2. SumOf(f, S \cup {x}) = f[x] + SumOf(f, (S \cup {x}) \ {x})
  BY <1>1, SumTake
<1>3. (S \cup {x}) \ {x} = S
  OBVIOUS
<1>4. SumOf(f, S) \in Int /\ f[x] \in Int
  BY SumFirst
<1>5. SumOf(f, S \cup {x}) = f[x] + SumOf(f, S)
  BY <1>2, <1>3, Zenon
<1> QED
  BY <1>4, <1>5

\* Functions that agree on the set have the same sum.
LEMMA SumSame ==
    ASSUME NEW S, IsFiniteSet(S), NEW f, NEW g, \A x \in S : f[x] \in Int /\ g[x] = f[x]
    PROVE  SumOf(f, S) = SumOf(g, S)
<1> DEFINE bad == {s \in SUBSET S : SumOf(f, s) # SumOf(g, s)}
<1>1. SUFFICES ASSUME bad # {} PROVE FALSE
  OBVIOUS
<1>2. \A s \in SUBSET S : IsFiniteSet(s)
  BY FS_Subset
<1>3. PICK m \in bad : \A s \in bad : Cardinality(m) <= Cardinality(s)
  BY <1>1, <1>2, LeastSet
<1>4. m # {}
  <2>1. SumOf(f, {}) = 0 /\ SumOf(g, {}) = 0
    BY SumFirst, FS_EmptySet
  <2> QED
    BY <1>3, <2>1
<1>5. /\ Pick(m) \in m /\ Cardinality(m) \in Nat
      /\ Cardinality(m \ {Pick(m)}) = Cardinality(m) - 1
  BY <1>2, <1>4, PickSteps
<1>6. m \ {Pick(m)} \notin bad
  BY <1>3, <1>5
<1>7. SumOf(f, m \ {Pick(m)}) = SumOf(g, m \ {Pick(m)})
  BY <1>6
<1>8. /\ SumOf(f, m) = f[Pick(m)] + SumOf(f, m \ {Pick(m)})
      /\ SumOf(g, m) = g[Pick(m)] + SumOf(g, m \ {Pick(m)})
  BY <1>2, <1>4, SumFirst
<1> QED
  BY <1>5, <1>7, <1>8

\* A sum of naturals is one.
LEMMA SumNat ==
    ASSUME NEW S, IsFiniteSet(S), NEW f, \A x \in S : f[x] \in Nat
    PROVE  SumOf(f, S) \in Nat
<1> DEFINE bad == {s \in SUBSET S : SumOf(f, s) \notin Nat}
<1>1. SUFFICES ASSUME bad # {} PROVE FALSE
  OBVIOUS
<1>2. \A s \in SUBSET S : IsFiniteSet(s)
  BY FS_Subset
<1>3. PICK m \in bad : \A s \in bad : Cardinality(m) <= Cardinality(s)
  BY <1>1, <1>2, LeastSet
<1>4. m # {}
  BY <1>3, SumFirst, FS_EmptySet
<1>5. /\ Pick(m) \in m /\ Cardinality(m) \in Nat
      /\ Cardinality(m \ {Pick(m)}) = Cardinality(m) - 1
  BY <1>2, <1>4, PickSteps
<1>6. m \ {Pick(m)} \notin bad
  BY <1>3, <1>5
<1>7. \A x \in m : f[x] \in Int
  BY <1>3
<1>8. SumOf(f, m) = f[Pick(m)] + SumOf(f, m \ {Pick(m)})
  BY <1>2, <1>4, <1>7, SumFirst
<1>9. f[Pick(m)] \in Nat /\ SumOf(f, m \ {Pick(m)}) \in Nat
  BY <1>5, <1>6
<1> QED
  BY <1>3, <1>8, <1>9

\* One term changes.
LEMMA SumChange ==
    ASSUME NEW S, IsFiniteSet(S), NEW f, NEW g, NEW x \in S,
           \A y \in S : f[y] \in Int /\ g[y] \in Int, \A y \in S : y # x => g[y] = f[y]
    PROVE  SumOf(g, S) = SumOf(f, S) + (g[x] - f[x])
<1>1. IsFiniteSet(S \ {x}) /\ S \ {x} \subseteq S
  BY FS_RemoveElement
<1>2. SumOf(f, S) = f[x] + SumOf(f, S \ {x}) /\ SumOf(g, S) = g[x] + SumOf(g, S \ {x})
  BY SumTake
<1>3. SumOf(f, S \ {x}) = SumOf(g, S \ {x})
  BY <1>1, SumSame
<1>4. f[x] \in Int /\ g[x] \in Int /\ SumOf(f, S \ {x}) \in Int
  BY <1>1, SumFirst
<1> QED
  BY <1>2, <1>3, <1>4

\* A sum of zeros is zero.
LEMMA SumZero ==
    ASSUME NEW S, IsFiniteSet(S), NEW f, \A x \in S : f[x] = 0
    PROVE  SumOf(f, S) = 0
<1> DEFINE bad == {s \in SUBSET S : SumOf(f, s) # 0}
<1>1. SUFFICES ASSUME bad # {} PROVE FALSE
  OBVIOUS
<1>2. \A s \in SUBSET S : IsFiniteSet(s)
  BY FS_Subset
<1>3. PICK m \in bad : \A s \in bad : Cardinality(m) <= Cardinality(s)
  BY <1>1, <1>2, LeastSet
<1>4. m # {}
  BY <1>3, SumFirst, FS_EmptySet
<1>5. /\ Pick(m) \in m /\ Cardinality(m) \in Nat
      /\ Cardinality(m \ {Pick(m)}) = Cardinality(m) - 1
  BY <1>2, <1>4, PickSteps
<1>6. m \ {Pick(m)} \notin bad
  BY <1>3, <1>5
<1>7. \A x \in m : f[x] \in Int
  BY <1>3
<1>8. SumOf(f, m) = f[Pick(m)] + SumOf(f, m \ {Pick(m)})
  BY <1>2, <1>4, <1>7, SumFirst
<1>9. f[Pick(m)] = 0 /\ SumOf(f, m \ {Pick(m)}) = 0
  BY <1>5, <1>6
<1> QED
  BY <1>3, <1>8, <1>9

\* Terms that are no larger have a sum that is no larger.
LEMMA SumAtMost ==
    ASSUME NEW S, IsFiniteSet(S), NEW f, NEW g,
           \A x \in S : f[x] \in Int /\ g[x] \in Int /\ f[x] <= g[x]
    PROVE  SumOf(f, S) <= SumOf(g, S)
<1> DEFINE bad == {s \in SUBSET S : ~(SumOf(f, s) <= SumOf(g, s))}
<1>1. SUFFICES ASSUME bad # {} PROVE FALSE
  OBVIOUS
<1>2. \A s \in SUBSET S : IsFiniteSet(s)
  BY FS_Subset
<1>3. PICK m \in bad : \A s \in bad : Cardinality(m) <= Cardinality(s)
  BY <1>1, <1>2, LeastSet
<1>4. m # {}
  <2>1. SumOf(f, {}) = 0 /\ SumOf(g, {}) = 0
    BY SumFirst, FS_EmptySet
  <2> QED
    BY <1>3, <2>1
<1>5. /\ Pick(m) \in m /\ Cardinality(m) \in Nat
      /\ Cardinality(m \ {Pick(m)}) = Cardinality(m) - 1
  BY <1>2, <1>4, PickSteps
<1>6. m \ {Pick(m)} \notin bad
  BY <1>3, <1>5
<1>7. SumOf(f, m \ {Pick(m)}) <= SumOf(g, m \ {Pick(m)})
  BY <1>6
<1>8. \A x \in m : f[x] \in Int /\ g[x] \in Int /\ f[x] <= g[x]
  BY <1>3
<1>9. /\ SumOf(f, m) = f[Pick(m)] + SumOf(f, m \ {Pick(m)})
      /\ SumOf(g, m) = g[Pick(m)] + SumOf(g, m \ {Pick(m)})
      /\ SumOf(f, m \ {Pick(m)}) \in Int /\ SumOf(g, m \ {Pick(m)}) \in Int
  <2>1. IsFiniteSet(m) /\ IsFiniteSet(m \ {Pick(m)})
    BY <1>2, <1>4, PickSteps
  <2> QED
    BY <1>4, <1>8, <2>1, SumFirst
<1>10. ~(SumOf(f, m) <= SumOf(g, m))
  BY <1>3
<1> QED
  BY <1>5, <1>7, <1>8, <1>9, <1>10
=============================================================================
