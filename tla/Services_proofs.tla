--------------------------- MODULE Services_proofs ---------------------------
(***************************************************************************)
(* Proofs about Services, for every value of its constants.                *)
(*                                                                         *)
(* ServicesInv is inductive: what each calculator answered is what it      *)
(* computes of its question (AskedInv), and each of the six services that  *)
(* keep state has an invariant of its own, which its own steps keep and no *)
(* other part's step can disturb.  What a calculator computes adds up, or  *)
(* ranks the better higher, by the arithmetic of the lemmas before it.     *)
(*                                                                         *)
(* Sums over finite sets come first, the services one after the other, and *)
(* the composition with its theorems last.                                 *)
(***************************************************************************)
EXTENDS Services, TLAPS, FiniteSetTheorems, WellFoundedInduction

\* The order by which the smallest counterexample of a claim is taken.
Less == OpToRel(<, Nat)

\* Every non-empty set of natural numbers has a smallest member.
LEMMA MinNat == ASSUME NEW S, S \subseteq Nat, S # {} PROVE \E m \in S : \A n \in S : m <= n
<1>1. \A x, y \in Nat : <<x, y>> \in Less <=> x < y
  BY DEF Less, OpToRel
<1>2. IsWellFoundedOn(Less, Nat)
  BY NatLessThanWellFounded, Zenon DEF Less
<1>3. PICK m \in S : \A n \in S : ~ (<<n, m>> \in Less)
  BY <1>2, WFMin
<1>4. \A n \in S : ~(n < m)
  BY <1>1, <1>3
<1>5. QED
  BY <1>4

\* A claim has no counterexample if 0 is none and no number is the first.
LEMMA NoneIsFirst ==
    ASSUME NEW Bad, Bad \subseteq Nat, 0 \notin Bad, \A n \in Nat : n \notin Bad => n + 1 \notin Bad
    PROVE  Bad = {}
<1> SUFFICES ASSUME Bad # {} PROVE FALSE
  OBVIOUS
<1>1. PICK m \in Bad : \A n \in Bad : m <= n
  BY MinNat
<1>2. m \in Nat /\ m # 0
  OBVIOUS
<1>3. m - 1 \in Nat /\ m - 1 \notin Bad
  BY <1>1, <1>2
<1>4. (m - 1) + 1 \notin Bad
  BY <1>3
<1>5. QED
  BY <1>2, <1>4

-----------------------------------------------------------------------------
\* Sums over finite sets.  The folds of the community modules take the members of
\* a set in an order of their own; Total(f, S) is what they make of a sum, and
\* what follows says that the order does not matter.

Pick(s) == CHOOSE x \in s : TRUE
Adding(f, S, g) == g = [s \in SUBSET S |-> IF s = {} THEN 0 ELSE f[Pick(s)] + g[s \ {Pick(s)}]]
Total(f, S) == (CHOOSE g : Adding(f, S, g))[S]

LEMMA PickIn == \A s : s # {} => Pick(s) \in s
BY DEF Pick

\* Sets of at most n of the members of S.
Small(S, n) == {s \in SUBSET S : Cardinality(s) <= n}
AddingSmall(f, S, n, g) ==
    g = [s \in Small(S, n) |-> IF s = {} THEN 0 ELSE f[Pick(s)] + g[s \ {Pick(s)}]]

\* A set without one of its members is smaller.
LEMMA Without ==
    ASSUME NEW S, IsFiniteSet(S), NEW s \in SUBSET S, NEW x \in s
    PROVE  /\ IsFiniteSet(s) /\ IsFiniteSet(s \ {x})
           /\ Cardinality(s) \in Nat /\ Cardinality(s \ {x}) \in Nat
           /\ Cardinality(s) = Cardinality(s \ {x}) + 1
<1>1. IsFiniteSet(s)
  BY FS_Subset
<1>2. IsFiniteSet(s \ {x}) /\ Cardinality(s \ {x}) = Cardinality(s) - 1
  BY <1>1, FS_RemoveElement
<1>3. Cardinality(s) \in Nat /\ Cardinality(s \ {x}) \in Nat
  BY <1>1, <1>2, FS_CardinalityType
<1>4. QED
  BY <1>1, <1>2, <1>3

\* The sums over small sets exist.
LEMMA SmallExists ==
    ASSUME NEW f, NEW S, IsFiniteSet(S), NEW n \in Nat
    PROVE  \E g : AddingSmall(f, S, n, g)
<1> DEFINE Bad == {k \in Nat : ~ \E g : AddingSmall(f, S, k, g)}
<1>1. 0 \notin Bad
  <2>1. \A s \in Small(S, 0) : s = {}
    <3> SUFFICES ASSUME NEW s \in Small(S, 0), s # {} PROVE FALSE
      OBVIOUS
    <3>1. IsFiniteSet(s) /\ Cardinality(s) \in Nat
      BY FS_Subset, FS_CardinalityType DEF Small
    <3>2. Cardinality(s) = 0
      BY <3>1 DEF Small
    <3>3. QED
      BY <3>1, <3>2, FS_EmptySet
  <2> DEFINE g == [s \in Small(S, 0) |-> 0]
  <2>2. AddingSmall(f, S, 0, g)
    BY <2>1 DEF AddingSmall
  <2>3. QED
    BY <2>2
<1>2. ASSUME NEW k \in Nat, k \notin Bad PROVE k + 1 \notin Bad
  <2>1. PICK g : AddingSmall(f, S, k, g)
    BY <1>2
  <2>2. DOMAIN g = Small(S, k)
    BY <2>1 DEF AddingSmall
  <2>3. ASSUME NEW s \in Small(S, k)
        PROVE  g[s] = IF s = {} THEN 0 ELSE f[Pick(s)] + g[s \ {Pick(s)}]
    BY <2>1 DEF AddingSmall
  <2> DEFINE h == [s \in Small(S, k + 1) |-> IF s = {} THEN 0 ELSE f[Pick(s)] + g[s \ {Pick(s)}]]
  <2>4. ASSUME NEW s \in Small(S, k + 1), s # {} PROVE s \ {Pick(s)} \in Small(S, k)
    <3>1. s \in SUBSET S /\ Cardinality(s) <= k + 1 /\ Pick(s) \in s
      BY <2>4, PickIn DEF Small
    <3>2. Cardinality(s) = Cardinality(s \ {Pick(s)}) + 1 /\ Cardinality(s \ {Pick(s)}) \in Nat
      BY <3>1, Without
    <3>3. Cardinality(s \ {Pick(s)}) <= k
      BY <3>1, <3>2
    <3>4. QED
      BY <3>1, <3>3 DEF Small
  <2>5. ASSUME NEW s \in Small(S, k) PROVE s \in Small(S, k + 1) /\ h[s] = g[s]
    <3>1. Cardinality(s) \in Nat
      BY FS_Subset, FS_CardinalityType DEF Small
    <3>2. s \in Small(S, k + 1)
      BY <3>1 DEF Small
    <3>3. QED
      BY <2>3, <3>2
  <2>6. ASSUME NEW s \in Small(S, k + 1)
        PROVE  h[s] = IF s = {} THEN 0 ELSE f[Pick(s)] + h[s \ {Pick(s)}]
    BY <2>4, <2>5
  <2>7. AddingSmall(f, S, k + 1, h)
    BY <2>6 DEF AddingSmall
  <2>8. \E x : AddingSmall(f, S, k + 1, x)
    BY <2>7
  <2>9. QED
    BY <2>8
<1>3. Bad = {}
  <2> HIDE DEF Bad
  <2>1. Bad \subseteq Nat
    BY DEF Bad
  <2>2. QED
    BY <1>1, <1>2, <2>1, NoneIsFirst
<1>4. QED
  BY <1>3

\* The sums over the subsets of S exist.
LEMMA AddingExists ==
    ASSUME NEW f, NEW S, IsFiniteSet(S) PROVE \E g : Adding(f, S, g)
<1>1. Cardinality(S) \in Nat
  BY FS_CardinalityType
<1>2. Small(S, Cardinality(S)) = SUBSET S
  BY FS_Subset DEF Small
<1>3. PICK g : AddingSmall(f, S, Cardinality(S), g)
  BY <1>1, SmallExists
<1>4. Adding(f, S, g)
  BY <1>2, <1>3 DEF AddingSmall, Adding
<1>5. QED
  BY <1>4

\* What a sum is, for a set and for the empty one.
LEMMA AddingIs ==
    ASSUME NEW f, NEW S, NEW g, Adding(f, S, g), NEW s \in SUBSET S
    PROVE  g[s] = IF s = {} THEN 0 ELSE f[Pick(s)] + g[s \ {Pick(s)}]
BY DEF Adding

\* It only depends on the values in the set, and is a number.
LEMMA AddingOnce ==
    ASSUME NEW f, NEW S, NEW g, Adding(f, S, g), NEW h, NEW T, NEW k, Adding(h, T, k),
           NEW U \in SUBSET (S \cap T), IsFiniteSet(U), \A x \in U : f[x] = h[x] /\ f[x] \in Nat
    PROVE  g[U] = k[U] /\ g[U] \in Nat
<1> DEFINE P(s) == g[s] = k[s] /\ g[s] \in Nat
           Bad == {n \in Nat : \E s \in SUBSET U : Cardinality(s) = n /\ ~P(s)}
<1>1. 0 \notin Bad
  <2> SUFFICES ASSUME NEW s \in SUBSET U, Cardinality(s) = 0 PROVE P(s)
    OBVIOUS
  <2>1. s = {}
    BY FS_Subset, FS_EmptySet
  <2>2. s \in SUBSET S /\ s \in SUBSET T
    OBVIOUS
  <2>3. g[s] = 0
    BY <2>1, <2>2, AddingIs
  <2>4. k[s] = 0
    BY <2>1, <2>2, AddingIs
  <2>5. QED
    BY <2>3, <2>4
<1>2. ASSUME NEW n \in Nat, n \notin Bad PROVE n + 1 \notin Bad
  <2> SUFFICES ASSUME NEW s \in SUBSET U, Cardinality(s) = n + 1 PROVE P(s)
    OBVIOUS
  <2>1. s # {}
    BY FS_EmptySet
  <2>2. Pick(s) \in s
    BY <2>1, PickIn
  <2>3. Cardinality(s) = Cardinality(s \ {Pick(s)}) + 1 /\ Cardinality(s \ {Pick(s)}) \in Nat
    BY <2>2, Without
  <2>4. Cardinality(s \ {Pick(s)}) = n
    BY <2>3
  <2>5. P(s \ {Pick(s)})
    BY <1>2, <2>4
  <2>6. s \in SUBSET S /\ s \in SUBSET T
    OBVIOUS
  <2>7. g[s] = f[Pick(s)] + g[s \ {Pick(s)}]
    <3>1. g[s] = IF s = {} THEN 0 ELSE f[Pick(s)] + g[s \ {Pick(s)}]
      BY <2>6, AddingIs
    <3>2. QED
      BY <2>1, <3>1
  <2>8. k[s] = h[Pick(s)] + k[s \ {Pick(s)}]
    <3>1. k[s] = IF s = {} THEN 0 ELSE h[Pick(s)] + k[s \ {Pick(s)}]
      BY <2>6, AddingIs
    <3>2. QED
      BY <2>1, <3>1
  <2>9. f[Pick(s)] = h[Pick(s)] /\ f[Pick(s)] \in Nat
    BY <2>2
  <2>10. QED
    BY <2>5, <2>7, <2>8, <2>9
<1>3. Bad = {}
  <2> HIDE DEF Bad
  <2>1. Bad \subseteq Nat
    BY DEF Bad
  <2>2. QED
    BY <1>1, <1>2, <2>1, NoneIsFirst
<1>4. Cardinality(U) \in Nat /\ U \in SUBSET U
  BY FS_CardinalityType
<1>5. QED
  BY <1>3, <1>4

LEMMA TotalAdding ==
    ASSUME NEW f, NEW S, IsFiniteSet(S)
    PROVE  \E g : Adding(f, S, g) /\ Total(f, S) = g[S]
<1> DEFINE g == CHOOSE x : Adding(f, S, x)
<1>1. Adding(f, S, g)
  BY AddingExists
<1>2. Total(f, S) = g[S]
  BY DEF Total
<1> HIDE DEF g
<1>3. QED
  BY <1>1, <1>2

\* The sum over a set of numbers is a number, that over none is 0.
LEMMA TotalType ==
    ASSUME NEW f, NEW S, IsFiniteSet(S), \A x \in S : f[x] \in Nat PROVE Total(f, S) \in Nat
<1>1. PICK g : Adding(f, S, g) /\ Total(f, S) = g[S]
  BY TotalAdding
<1>2. S \in SUBSET (S \cap S)
  OBVIOUS
<1>3. QED
  BY <1>1, <1>2, AddingOnce

LEMMA TotalEmpty == ASSUME NEW f PROVE Total(f, {}) = 0
<1>1. PICK g : Adding(f, {}, g) /\ Total(f, {}) = g[{}]
  BY TotalAdding, FS_EmptySet
<1>2. QED
  BY <1>1, AddingIs

\* Only the values in the set count.
LEMMA TotalSame ==
    ASSUME NEW f, NEW h, NEW S, IsFiniteSet(S), \A x \in S : f[x] = h[x] /\ f[x] \in Nat
    PROVE  Total(f, S) = Total(h, S)
<1>1. PICK g : Adding(f, S, g) /\ Total(f, S) = g[S]
  BY TotalAdding
<1>2. PICK k : Adding(h, S, k) /\ Total(h, S) = k[S]
  BY TotalAdding
<1>3. S \in SUBSET (S \cap S)
  OBVIOUS
<1>4. QED
  BY <1>1, <1>2, <1>3, AddingOnce

\* The member that is picked may be taken first.
LEMMA TotalPicked ==
    ASSUME NEW f, NEW S, IsFiniteSet(S), S # {}, \A x \in S : f[x] \in Nat
    PROVE  Total(f, S) = f[Pick(S)] + Total(f, S \ {Pick(S)})
<1>1. PICK g : Adding(f, S, g) /\ Total(f, S) = g[S]
  BY TotalAdding
<1>2. IsFiniteSet(S \ {Pick(S)})
  BY FS_Subset
<1>3. PICK k : Adding(f, S \ {Pick(S)}, k) /\ Total(f, S \ {Pick(S)}) = k[S \ {Pick(S)}]
  BY <1>2, TotalAdding
<1>4. S \ {Pick(S)} \in SUBSET (S \cap (S \ {Pick(S)}))
  OBVIOUS
<1>5. g[S \ {Pick(S)}] = k[S \ {Pick(S)}]
  BY <1>1, <1>2, <1>3, <1>4, AddingOnce
<1>6. g[S] = f[Pick(S)] + g[S \ {Pick(S)}]
  BY <1>1, AddingIs
<1>7. QED
  BY <1>1, <1>3, <1>5, <1>6

\* So may any other.
LEMMA TotalOne ==
    ASSUME NEW f, NEW S, IsFiniteSet(S), \A x \in S : f[x] \in Nat, NEW x \in S
    PROVE  Total(f, S) = f[x] + Total(f, S \ {x})
<1> DEFINE P(s) == \A y \in s : Total(f, s) = f[y] + Total(f, s \ {y})
           Bad == {n \in Nat : \E s \in SUBSET S : Cardinality(s) = n /\ ~P(s)}
<1>1. 0 \notin Bad
  <2> SUFFICES ASSUME NEW s \in SUBSET S, Cardinality(s) = 0 PROVE P(s)
    OBVIOUS
  <2>1. s = {}
    BY FS_Subset, FS_EmptySet
  <2>2. QED
    BY <2>1
<1>2. ASSUME NEW n \in Nat, n \notin Bad PROVE n + 1 \notin Bad
  <2> SUFFICES ASSUME NEW s \in SUBSET S, Cardinality(s) = n + 1, NEW y \in s
               PROVE  Total(f, s) = f[y] + Total(f, s \ {y})
    OBVIOUS
  <2>1. PICK p \in s : p = Pick(s)
    BY PickIn
  <2>2. IsFiniteSet(s) /\ \A z \in s : f[z] \in Nat
    BY FS_Subset
  <2>3. Total(f, s) = f[p] + Total(f, s \ {p})
    BY <2>1, <2>2, TotalPicked
  <2>4. CASE y = p
    BY <2>3, <2>4
  <2>5. CASE y # p
    <3>1. /\ Cardinality(s) = Cardinality(s \ {p}) + 1 /\ Cardinality(s \ {p}) \in Nat
          /\ IsFiniteSet(s \ {p})
      BY Without
    <3>2. /\ Cardinality(s) = Cardinality(s \ {y}) + 1 /\ Cardinality(s \ {y}) \in Nat
          /\ IsFiniteSet(s \ {y})
      BY Without
    <3>3. Cardinality(s \ {p}) = n /\ Cardinality(s \ {y}) = n
      BY <3>1, <3>2
    <3>4. s \ {p} \in SUBSET S /\ s \ {y} \in SUBSET S
      OBVIOUS
    <3>5. P(s \ {p}) /\ P(s \ {y})
      BY <1>2, <3>3, <3>4
    <3>6. Total(f, s \ {p}) = f[y] + Total(f, (s \ {p}) \ {y})
      BY <2>5, <3>5
    <3>7. Total(f, s \ {y}) = f[p] + Total(f, (s \ {y}) \ {p})
      BY <2>1, <2>5, <3>5
    <3>8. (s \ {p}) \ {y} = (s \ {y}) \ {p}
      OBVIOUS
    <3>9. IsFiniteSet((s \ {y}) \ {p})
      BY <3>2, FS_Subset
    <3>10. Total(f, (s \ {y}) \ {p}) \in Nat /\ f[p] \in Nat /\ f[y] \in Nat
      BY <2>2, <3>9, TotalType
    <3>11. QED
      BY <2>3, <3>6, <3>7, <3>8, <3>10
  <2>6. QED
    BY <2>4, <2>5
<1>3. Bad = {}
  <2> HIDE DEF Bad
  <2>1. Bad \subseteq Nat
    BY DEF Bad
  <2>2. QED
    BY <1>1, <1>2, <2>1, NoneIsFirst
<1>4. Cardinality(S) \in Nat /\ S \in SUBSET S
  BY FS_CardinalityType
<1>5. P(S)
  BY <1>3, <1>4
<1>6. QED
  BY <1>5

\* One value changes: the sum changes by as much.
LEMMA TotalUpdate ==
    ASSUME NEW f, NEW h, NEW S, IsFiniteSet(S), \A y \in S : f[y] \in Nat /\ h[y] \in Nat,
           NEW x \in S, \A y \in S \ {x} : h[y] = f[y]
    PROVE  Total(h, S) = Total(f, S) - f[x] + h[x]
<1>1. IsFiniteSet(S \ {x})
  BY FS_Subset
<1>2. Total(f, S) = f[x] + Total(f, S \ {x})
  BY TotalOne
<1>3. Total(h, S) = h[x] + Total(h, S \ {x})
  BY TotalOne
<1>4. Total(h, S \ {x}) = Total(f, S \ {x})
  BY <1>1, TotalSame
<1>5. Total(f, S \ {x}) \in Nat /\ f[x] \in Nat /\ h[x] \in Nat
  BY <1>1, TotalType
<1>6. QED
  BY <1>2, <1>3, <1>4, <1>5

\* More and larger values have no smaller a sum.
LEMMA TotalLess ==
    ASSUME NEW f, NEW h, NEW T, IsFiniteSet(T), NEW S \in SUBSET T,
           \A x \in T : h[x] \in Nat, \A x \in S : f[x] \in Nat /\ f[x] <= h[x]
    PROVE  Total(f, S) <= Total(h, T)
<1> DEFINE P(t) == Total(f, S \cap t) <= Total(h, t)
           Bad == {n \in Nat : \E t \in SUBSET T : Cardinality(t) = n /\ ~P(t)}
<1>1. 0 \notin Bad
  <2> SUFFICES ASSUME NEW t \in SUBSET T, Cardinality(t) = 0 PROVE P(t)
    OBVIOUS
  <2>1. t = {}
    BY FS_Subset, FS_EmptySet
  <2>2. S \cap t = {}
    BY <2>1
  <2>3. Total(f, S \cap t) = 0 /\ Total(h, t) = 0
    BY <2>1, <2>2, TotalEmpty
  <2>4. QED
    BY <2>3
<1>2. ASSUME NEW n \in Nat, n \notin Bad PROVE n + 1 \notin Bad
  <2> SUFFICES ASSUME NEW t \in SUBSET T, Cardinality(t) = n + 1 PROVE P(t)
    OBVIOUS
  <2>1. t # {}
    BY FS_EmptySet
  <2>2. PICK x \in t : TRUE
    BY <2>1
  <2>3. /\ Cardinality(t) = Cardinality(t \ {x}) + 1 /\ Cardinality(t \ {x}) \in Nat
        /\ IsFiniteSet(t) /\ IsFiniteSet(t \ {x})
    BY Without
  <2>4. Cardinality(t \ {x}) = n
    BY <2>3
  <2>5. P(t \ {x})
    BY <1>2, <2>4
  <2>6. Total(h, t) = h[x] + Total(h, t \ {x}) /\ h[x] \in Nat
    BY <2>3, TotalOne
  <2>7. Total(h, t \ {x}) \in Nat
    BY <2>3, TotalType
  <2>8. IsFiniteSet(S \cap t) /\ IsFiniteSet(S \cap (t \ {x}))
    BY <2>3, FS_Subset
  <2>9. Total(f, S \cap (t \ {x})) \in Nat
    BY <2>8, TotalType
  <2>10. CASE x \in S
    <3>1. x \in S \cap t /\ (S \cap t) \ {x} = S \cap (t \ {x})
      BY <2>10
    <3>2. Total(f, S \cap t) = f[x] + Total(f, S \cap (t \ {x}))
      BY <2>8, <3>1, TotalOne
    <3>3. f[x] \in Nat /\ f[x] <= h[x]
      BY <2>10
    <3>4. QED
      BY <2>5, <2>6, <2>7, <2>9, <3>2, <3>3
  <2>11. CASE x \notin S
    <3>1. S \cap t = S \cap (t \ {x})
      BY <2>11
    <3>2. Total(f, S \cap t) <= Total(h, t \ {x})
      BY <2>5, <3>1
    <3>3. Total(f, S \cap t) \in Nat
      BY <2>9, <3>1
    <3>4. Total(h, t \ {x}) <= Total(h, t)
      BY <2>6, <2>7
    <3>5. Total(h, t) \in Nat
      BY <2>6, <2>7
    <3>6. QED
      BY <2>7, <3>2, <3>3, <3>4, <3>5
  <2>12. QED
    BY <2>10, <2>11
<1>3. Bad = {}
  <2> HIDE DEF Bad
  <2>1. Bad \subseteq Nat
    BY DEF Bad
  <2>2. QED
    BY <1>1, <1>2, <2>1, NoneIsFirst
<1>4. Cardinality(T) \in Nat /\ T \in SUBSET T /\ S \cap T = S
  BY FS_CardinalityType
<1>5. P(T)
  BY <1>3, <1>4
<1>6. QED
  BY <1>4, <1>5

\* A sum of equal values.
LEMMA TotalEqual ==
    ASSUME NEW f, NEW S, IsFiniteSet(S), NEW v \in Nat, \A x \in S : f[x] = v
    PROVE  Total(f, S) = Cardinality(S) * v
<1> DEFINE P(s) == Total(f, s) = Cardinality(s) * v
           Bad == {n \in Nat : \E s \in SUBSET S : Cardinality(s) = n /\ ~P(s)}
<1>1. 0 \notin Bad
  <2> SUFFICES ASSUME NEW s \in SUBSET S, Cardinality(s) = 0 PROVE P(s)
    OBVIOUS
  <2>1. s = {}
    BY FS_Subset, FS_EmptySet
  <2>2. QED
    BY <2>1, TotalEmpty
<1>2. ASSUME NEW n \in Nat, n \notin Bad PROVE n + 1 \notin Bad
  <2> SUFFICES ASSUME NEW s \in SUBSET S, Cardinality(s) = n + 1 PROVE P(s)
    OBVIOUS
  <2>1. s # {}
    BY FS_EmptySet
  <2>2. PICK x \in s : TRUE
    BY <2>1
  <2>3. /\ Cardinality(s) = Cardinality(s \ {x}) + 1 /\ Cardinality(s \ {x}) \in Nat
        /\ IsFiniteSet(s)
    BY Without
  <2>4. Cardinality(s \ {x}) = n
    BY <2>3
  <2>5. Total(f, s \ {x}) = n * v
    BY <1>2, <2>4
  <2>6. Total(f, s) = f[x] + Total(f, s \ {x}) /\ f[x] = v
    BY <2>3, TotalOne
  <2>7. v + n * v = (n + 1) * v
    OBVIOUS
  <2>8. QED
    BY <2>5, <2>6, <2>7
<1>3. Bad = {}
  <2> HIDE DEF Bad
  <2>1. Bad \subseteq Nat
    BY DEF Bad
  <2>2. QED
    BY <1>1, <1>2, <2>1, NoneIsFirst
<1>4. Cardinality(S) \in Nat /\ S \in SUBSET S
  BY FS_CardinalityType
<1>5. QED
  BY <1>3, <1>4

\* A sum of multiples.
LEMMA TotalTimes ==
    ASSUME NEW f, NEW h, NEW S, IsFiniteSet(S), NEW v \in Nat,
           \A x \in S : f[x] \in Nat /\ h[x] = v * f[x]
    PROVE  Total(h, S) = v * Total(f, S)
<1> DEFINE P(s) == Total(h, s) = v * Total(f, s)
           Bad == {n \in Nat : \E s \in SUBSET S : Cardinality(s) = n /\ ~P(s)}
<1>1. 0 \notin Bad
  <2> SUFFICES ASSUME NEW s \in SUBSET S, Cardinality(s) = 0 PROVE P(s)
    OBVIOUS
  <2>1. s = {}
    BY FS_Subset, FS_EmptySet
  <2>2. Total(h, s) = 0 /\ Total(f, s) = 0
    BY <2>1, TotalEmpty
  <2>3. QED
    BY <2>2
<1>2. ASSUME NEW n \in Nat, n \notin Bad PROVE n + 1 \notin Bad
  <2> SUFFICES ASSUME NEW s \in SUBSET S, Cardinality(s) = n + 1 PROVE P(s)
    OBVIOUS
  <2>1. s # {}
    BY FS_EmptySet
  <2>2. PICK x \in s : TRUE
    BY <2>1
  <2>3. /\ Cardinality(s) = Cardinality(s \ {x}) + 1 /\ Cardinality(s \ {x}) \in Nat
        /\ IsFiniteSet(s) /\ IsFiniteSet(s \ {x})
    BY Without
  <2>4. Cardinality(s \ {x}) = n
    BY <2>3
  <2>5. Total(h, s \ {x}) = v * Total(f, s \ {x})
    BY <1>2, <2>4
  <2>6. \A y \in s : f[y] \in Nat /\ h[y] \in Nat
    OBVIOUS
  <2>7. Total(f, s) = f[x] + Total(f, s \ {x}) /\ Total(h, s) = h[x] + Total(h, s \ {x})
    BY <2>3, <2>6, TotalOne
  <2>8. PICK t \in Nat, u \in Nat : t = Total(f, s \ {x}) /\ u = f[x]
    BY <2>3, <2>6, TotalType
  <2>9. v * u + v * t = v * (u + t)
    OBVIOUS
  <2>10. QED
    BY <2>5, <2>7, <2>8, <2>9
<1>3. Bad = {}
  <2> HIDE DEF Bad
  <2>1. Bad \subseteq Nat
    BY DEF Bad
  <2>2. QED
    BY <1>1, <1>2, <2>1, NoneIsFirst
<1>4. Cardinality(S) \in Nat /\ S \in SUBSET S
  BY FS_CardinalityType
<1>5. QED
  BY <1>3, <1>4

\* Members that are told apart by members of T are no more than these, and as many
\* if each of these tells one.
LEMMA OneEach ==
    ASSUME NEW S, NEW T, IsFiniteSet(T), NEW f, \A x \in S : f[x] \in T,
           \A x, y \in S : f[x] = f[y] => x = y
    PROVE  /\ IsFiniteSet(S) /\ Cardinality(S) <= Cardinality(T)
           /\ Cardinality(S) = Cardinality(T) <=> \A t \in T : \E x \in S : f[x] = t
<1>1. PICK g : g = [x \in S |-> f[x]]
  OBVIOUS
<1>2. g \in Injection(S, T)
  BY <1>1 DEF Injection, IsInjective
<1>3. (\A t \in T : \E x \in S : f[x] = t) <=> g \in Surjection(S, T)
  BY <1>1, <1>2 DEF Surjection, Injection
<1>4. QED
  BY <1>2, <1>3, FS_Injection

\* Places from 1 on that tell all members apart are all taken.
LEMMA AllPlaces ==
    ASSUME NEW S, IsFiniteSet(S), NEW n \in Nat, n = Cardinality(S), NEW f,
           \A x \in S : f[x] \in 1..n, \A x, y \in S : f[x] = f[y] => x = y
    PROVE  \A i \in 1..n : \E x \in S : f[x] = i
<1>1. PICK T : T = 1..n
  OBVIOUS
<1>2. IsFiniteSet(T) /\ Cardinality(T) = Cardinality(S)
  BY <1>1, FS_Interval
<1>3. \A x \in S : f[x] \in T
  BY <1>1
<1>4. \A t \in T : \E x \in S : f[x] = t
  BY <1>2, <1>3, OneEach
<1>5. QED
  BY <1>1, <1>4

-----------------------------------------------------------------------------
\* The cache of job descriptions: get_or_analyze of jd_cache_service.py.

\* An entry of MongoDB is there until its end, and one of Redis ends no later
\* than if it had been copied on that day.
CacheStoresOK ==
    /\ mongo # NoEntry => mongo.until = mongo.made + MongoDays /\ day <= mongo.until
    /\ redis # NoEntry => redis.until <= redis.made + MongoDays + RedisDays

\* An analysis that is to be copied was in MongoDB today, and one that is to be
\* stored was made today: no day ends while a request is under way.
CacheLookupOK(r) ==
    /\ lookup[r].pc = "copy" => lookup[r].made \in Cache!Days /\ day <= lookup[r].made + MongoDays
    /\ lookup[r].pc \in {"check", "create", "store"} => lookup[r].made = day

CacheInv ==
    /\ Cache!TypeOK
    /\ CacheStoresOK
    /\ \A r \in Clients : CacheLookupOK(r)
    /\ Cache!ServedIsFresh

\* Days are numbers and no entry is none; the idle lookup has its type.
LEMMA CacheDefaults ==
    /\ CacheDays \in Nat /\ RedisDays \in Nat /\ MongoDays \in Nat /\ RedisDays > 0
    /\ Cache!Days = 0..(CacheDays + MongoDays + RedisDays)
    /\ \A d \in Cache!Days : d \in Nat
    /\ NoEntry \notin Cache!Days /\ NoEntry \notin Cache!Entry
    /\ Cache!NoLookup \in Cache!Lookup
    /\ \A m, u \in Cache!Days : [made |-> m, until |-> u] \in Cache!Entry
<1>1. CacheDays \in Nat /\ RedisDays \in Nat /\ MongoDays \in Nat /\ RedisDays > 0
  BY LifetimesAssumption
<1>2. Cache!Days = 0..(CacheDays + MongoDays + RedisDays)
  BY DEF Cache!Days
<1>3. Cache!Days \subseteq Nat
  BY <1>1, <1>2
<1>4. NoEntry \notin Cache!Days
  BY <1>3, NoEntryAssumption
<1>5. ASSUME NoEntry \in Cache!Entry PROVE FALSE
  <2>1. NoEntry \in [made : Nat, until : Nat]
    BY <1>3, <1>5 DEF Cache!Entry
  <2>2. QED
    BY <2>1, NoEntryAssumption
<1>6. Cache!NoLookup \in Cache!Lookup
  BY DEF Cache!NoLookup, Cache!Lookup
<1>7. \A m, u \in Cache!Days : [made |-> m, until |-> u] \in Cache!Entry
  BY DEF Cache!Entry
<1>8. QED
  BY <1>1, <1>2, <1>3, <1>4, <1>5, <1>6, <1>7

\* Nothing is stored, asked or served.
LEMMA CacheInit == Cache!Init => CacheInv
<1> SUFFICES ASSUME Cache!Init PROVE CacheInv
  OBVIOUS
<1> USE DEF Cache!Init
<1>1. Cache!TypeOK
  BY CacheDefaults DEF Cache!TypeOK
<1>2. CacheStoresOK
  BY DEF CacheStoresOK
<1>3. \A r \in Clients : CacheLookupOK(r)
  BY DEF CacheLookupOK, Cache!NoLookup
<1>4. Cache!ServedIsFresh
  BY DEF Cache!ServedIsFresh
<1>5. QED
  BY <1>1, <1>2, <1>3, <1>4 DEF CacheInv

\* A request moves on: its lookup becomes x and its answer y, while the day and
\* the stores stay as they are or change within their bounds.
LEMMA CacheMove ==
    ASSUME CacheInv, NEW r \in Clients, NEW x \in Cache!Lookup, NEW y \in Cache!Days \cup {NoEntry},
           lookup' = [lookup EXCEPT ![r] = x], served' = [served EXCEPT ![r] = y],
           day' = day, redis' \in Cache!Entry \cup {NoEntry}, mongo' \in Cache!Entry \cup {NoEntry},
           CacheStoresOK',
           x.pc = "copy" => x.made \in Cache!Days /\ day <= x.made + MongoDays,
           x.pc \in {"check", "create", "store"} => x.made = day,
           y # NoEntry => day < y + MongoDays + RedisDays
    PROVE  CacheInv'
<1> USE DEF CacheInv
<1>1. Cache!TypeOK'
  BY DEF Cache!TypeOK
<1>2. \A q \in Clients : lookup'[q] = IF q = r THEN x ELSE lookup[q]
  BY DEF Cache!TypeOK
<1>3. \A q \in Clients : served'[q] = IF q = r THEN y ELSE served[q]
  BY DEF Cache!TypeOK
<1>4. \A q \in Clients : CacheLookupOK(q)'
  BY <1>2 DEF CacheLookupOK
<1>5. Cache!ServedIsFresh'
  BY <1>3 DEF Cache!ServedIsFresh
<1>6. QED
  BY <1>1, <1>4, <1>5

\* What is stored where is as before, or a new entry of Redis for an analysis
\* that may still be copied today.
LEMMA CacheSetRedis ==
    ASSUME CacheInv, NEW r \in Clients, Cache!SetRedis(r), UNCHANGED <<day, mongo>>,
           lookup[r].made \in Cache!Days, day <= lookup[r].made + MongoDays
    PROVE  redis' \in Cache!Entry \cup {NoEntry} /\ CacheStoresOK'
<1> USE DEF CacheInv
<1>1. CASE UNCHANGED redis
  BY <1>1 DEF CacheStoresOK, Cache!TypeOK
<1>2. CASE redis' = [made |-> lookup[r].made, until |-> day + RedisDays]
  <2>1. day \in 0..CacheDays
    BY DEF Cache!TypeOK
  <2>2. day + RedisDays \in Cache!Days
    BY <2>1, CacheDefaults
  <2>3. redis' \in Cache!Entry
    BY <1>2, <2>2, CacheDefaults
  <2>4. day + RedisDays <= lookup[r].made + MongoDays + RedisDays
    BY <2>1, CacheDefaults
  <2>5. redis'.until <= redis'.made + MongoDays + RedisDays
    BY <1>2, <2>4
  <2>6. CacheStoresOK'
    BY <2>5 DEF CacheStoresOK
  <2>7. QED
    BY <2>3, <2>6
<1>3. QED
  BY <1>1, <1>2 DEF Cache!SetRedis

\* A lookup with another pc, or with an analysis, has its type.
LEMMA CacheLookupTypes ==
    ASSUME CacheInv, NEW r \in Clients
    PROVE  /\ lookup[r] \in Cache!Lookup
           /\ served[r] \in Cache!Days \cup {NoEntry}
           /\ served = [served EXCEPT ![r] = served[r]]
           /\ day \in Cache!Days
           /\ \A pc \in {"idle", "redis", "mongo", "copy", "analyze", "check", "create", "store"} :
                /\ [lookup[r] EXCEPT !.pc = pc] \in Cache!Lookup
                /\ [lookup[r] EXCEPT !.pc = pc].pc = pc
                /\ [lookup[r] EXCEPT !.pc = pc].made = lookup[r].made
                /\ \A m \in Cache!Days : [pc |-> pc, made |-> m] \in Cache!Lookup
<1> USE DEF CacheInv, Cache!TypeOK
<1>1. lookup[r] \in Cache!Lookup
  OBVIOUS
<1>2. served = [served EXCEPT ![r] = served[r]] /\ served[r] \in Cache!Days \cup {NoEntry}
  OBVIOUS
<1>3. day \in Cache!Days
  BY CacheDefaults
<1>4. QED
  BY <1>1, <1>2, <1>3 DEF Cache!Lookup

\* A request asks, finds nothing or gives up: the stores stay as they are.
LEMMA CacheGo ==
    ASSUME CacheInv, NEW r \in Clients, UNCHANGED <<day, redis, mongo>>,
           NEW x \in Cache!Lookup, lookup' = [lookup EXCEPT ![r] = x],
           x.pc = "copy" => x.made \in Cache!Days /\ day <= x.made + MongoDays,
           x.pc \in {"check", "create", "store"} => x.made = day,
           \/ served' = [served EXCEPT ![r] = NoEntry]
           \/ UNCHANGED served
    PROVE  CacheInv'
<1>1. redis' \in Cache!Entry \cup {NoEntry} /\ mongo' \in Cache!Entry \cup {NoEntry} /\ CacheStoresOK'
  BY DEF CacheInv, Cache!TypeOK, CacheStoresOK
<1>2. CASE served' = [served EXCEPT ![r] = NoEntry]
  BY <1>1, <1>2, CacheMove
<1>3. CASE UNCHANGED served
  <2>1. served' = [served EXCEPT ![r] = served[r]] /\ served[r] \in Cache!Days \cup {NoEntry}
    BY <1>3, CacheLookupTypes
  <2>2. served[r] # NoEntry => day < served[r] + MongoDays + RedisDays
    BY DEF CacheInv, Cache!ServedIsFresh
  <2>3. QED
    BY <1>1, <2>1, <2>2, CacheMove
<1>4. QED
  BY <1>2, <1>3

LEMMA CacheAskPreserves == ASSUME CacheInv, NEW r \in Clients, Cache!Ask(r) PROVE CacheInv'
<1>1. lookup' = [lookup EXCEPT ![r] = [lookup[r] EXCEPT !.pc = "redis"]]
  BY DEF Cache!Ask, Cache!Go, CacheInv, Cache!TypeOK
<1>2. QED
  BY <1>1, CacheLookupTypes, CacheGo DEF Cache!Ask

\* What is in Redis is young enough to be served today.
LEMMA CacheReadRedisPreserves == ASSUME CacheInv, NEW r \in Clients, Cache!ReadRedis(r) PROVE CacheInv'
<1> USE DEF Cache!ReadRedis
<1>1. CASE Cache!InRedis /\ Cache!Answer(r, redis.made)
  <2>1. redis \in Cache!Entry /\ redis.made \in Cache!Days /\ redis.until \in Cache!Days
    BY <1>1 DEF Cache!InRedis, CacheInv, Cache!TypeOK, Cache!Entry
  <2>2. day < redis.made + MongoDays + RedisDays
    <3>1. day < redis.until /\ redis.until <= redis.made + MongoDays + RedisDays
      BY <1>1 DEF Cache!InRedis, CacheInv, CacheStoresOK
    <3>2. day \in Cache!Days /\ (\A d \in Cache!Days : d \in Nat) /\ MongoDays \in Nat /\ RedisDays \in Nat
      BY CacheDefaults, CacheLookupTypes
    <3>3. day \in Int /\ redis.made \in Int /\ redis.until \in Int
      BY <2>1, <3>2
    <3>4. QED
      BY <3>1, <3>2, <3>3
  <2>3. CacheStoresOK' /\ redis' \in Cache!Entry \cup {NoEntry} /\ mongo' \in Cache!Entry \cup {NoEntry}
    BY DEF CacheInv, CacheStoresOK, Cache!TypeOK
  <2>4. Cache!NoLookup.pc = "idle"
    BY DEF Cache!NoLookup
  <2>5. QED
    BY <1>1, <2>1, <2>2, <2>3, <2>4, CacheDefaults, CacheMove DEF Cache!Answer
<1>2. CASE Cache!Go(r, "mongo") /\ UNCHANGED served
  <2>1. lookup' = [lookup EXCEPT ![r] = [lookup[r] EXCEPT !.pc = "mongo"]]
    BY <1>2 DEF Cache!Go, CacheInv, Cache!TypeOK
  <2>2. QED
    BY <1>2, <2>1, CacheLookupTypes, CacheGo
<1>3. QED
  BY <1>1, <1>2

LEMMA CacheReadMongoPreserves == ASSUME CacheInv, NEW r \in Clients, Cache!ReadMongo(r) PROVE CacheInv'
<1> USE DEF Cache!ReadMongo
<1>1. CASE mongo # NoEntry
  <2>1. mongo.made \in Cache!Days /\ day <= mongo.made + MongoDays
    BY <1>1 DEF CacheInv, Cache!TypeOK, Cache!Entry, CacheStoresOK
  <2>2. lookup' = [lookup EXCEPT ![r] = [pc |-> "copy", made |-> mongo.made]]
    BY <1>1 DEF Cache!Holding
  <2>3. QED
    BY <2>1, <2>2, CacheLookupTypes, CacheGo
<1>2. CASE mongo = NoEntry
  <2>1. lookup' = [lookup EXCEPT ![r] = [lookup[r] EXCEPT !.pc = "analyze"]]
    BY <1>2 DEF Cache!Go, CacheInv, Cache!TypeOK
  <2>2. QED
    BY <2>1, CacheLookupTypes, CacheGo
<1>3. QED
  BY <1>1, <1>2

\* A copy or a new analysis is stored and served.
LEMMA CacheAnswerStep ==
    ASSUME CacheInv, NEW r \in Clients, Cache!SetRedis(r), Cache!Answer(r, lookup[r].made),
           UNCHANGED <<day, mongo>>, lookup[r].made \in Cache!Days, day <= lookup[r].made + MongoDays
    PROVE  CacheInv'
<1>1. redis' \in Cache!Entry \cup {NoEntry} /\ CacheStoresOK'
  BY CacheSetRedis
<1>2. mongo' \in Cache!Entry \cup {NoEntry}
  BY DEF CacheInv, Cache!TypeOK
<1>3. day < lookup[r].made + MongoDays + RedisDays
  <2>1. day \in Cache!Days /\ \A d \in Cache!Days : d \in Nat
    BY CacheDefaults, CacheLookupTypes
  <2>2. MongoDays \in Nat /\ RedisDays \in Nat /\ RedisDays > 0
    BY CacheDefaults
  <2>3. day \in Int /\ lookup[r].made \in Int
    BY <2>1
  <2>4. QED
    BY <2>2, <2>3
<1>4. Cache!NoLookup.pc = "idle"
  BY DEF Cache!NoLookup
<1>5. QED
  BY <1>1, <1>2, <1>3, <1>4, CacheDefaults, CacheMove DEF Cache!Answer

LEMMA CacheCopyPreserves == ASSUME CacheInv, NEW r \in Clients, Cache!Copy(r) PROVE CacheInv'
<1>1. lookup[r].made \in Cache!Days /\ day <= lookup[r].made + MongoDays
  BY DEF Cache!Copy, Cache!At, CacheInv, CacheLookupOK
<1>2. QED
  BY <1>1, CacheAnswerStep DEF Cache!Copy

LEMMA CacheStorePreserves == ASSUME CacheInv, NEW r \in Clients, Cache!Store(r) PROVE CacheInv'
<1>1. lookup[r].made = day /\ day \in Cache!Days
  BY CacheLookupTypes DEF Cache!Store, Cache!At, CacheInv, CacheLookupOK
<1>2. QED
  BY <1>1, CacheDefaults, CacheAnswerStep DEF Cache!Store

LEMMA CacheAnalyzePreserves == ASSUME CacheInv, NEW r \in Clients, Cache!Analyze(r) PROVE CacheInv'
<1>1. lookup' = [lookup EXCEPT ![r] = [pc |-> "check", made |-> day]]
  BY DEF Cache!Analyze, Cache!Holding
<1>2. QED
  BY <1>1, CacheLookupTypes, CacheGo DEF Cache!Analyze

LEMMA CacheCheckPreserves == ASSUME CacheInv, NEW r \in Clients, Cache!Check(r) PROVE CacheInv'
<1>1. PICK pc \in {"create", "store"} : lookup' = [lookup EXCEPT ![r] = [lookup[r] EXCEPT !.pc = pc]]
  BY DEF Cache!Check, Cache!Go, CacheInv, Cache!TypeOK
<1>2. lookup[r].made = day
  BY DEF Cache!Check, Cache!At, CacheInv, CacheLookupOK
<1>3. QED
  BY <1>1, <1>2, CacheLookupTypes, CacheGo DEF Cache!Check

\* What is created in MongoDB was made today.
LEMMA CacheCreatePreserves == ASSUME CacheInv, NEW r \in Clients, Cache!Create(r) PROVE CacheInv'
<1> USE DEF Cache!Create
<1>1. lookup[r].made = day
  BY DEF Cache!At, CacheInv, CacheLookupOK
<1>2. lookup' = [lookup EXCEPT ![r] = [lookup[r] EXCEPT !.pc = "store"]]
  BY DEF Cache!Go, CacheInv, Cache!TypeOK
<1>3. CASE UNCHANGED mongo
  BY <1>1, <1>2, <1>3, CacheLookupTypes, CacheGo
<1>4. CASE mongo' = [made |-> lookup[r].made, until |-> day + MongoDays]
  <2>1. day \in 0..CacheDays /\ day + MongoDays \in Cache!Days
    BY CacheDefaults DEF CacheInv, Cache!TypeOK
  <2>2. mongo' \in Cache!Entry
    BY <1>1, <1>4, <2>1, CacheDefaults, CacheLookupTypes
  <2>3. mongo'.until = mongo'.made + MongoDays /\ day <= mongo'.until
    BY <1>1, <1>4, <2>1, CacheDefaults
  <2>4. CacheStoresOK' /\ redis' \in Cache!Entry \cup {NoEntry}
    BY <2>3 DEF CacheInv, CacheStoresOK, Cache!TypeOK
  <2>5. served' = [served EXCEPT ![r] = served[r]] /\ served[r] \in Cache!Days \cup {NoEntry}
    BY CacheLookupTypes
  <2>6. served[r] # NoEntry => day < served[r] + MongoDays + RedisDays
    BY DEF CacheInv, Cache!ServedIsFresh
  <2>7. QED
    BY <1>1, <1>2, <2>2, <2>4, <2>5, <2>6, CacheLookupTypes, CacheMove
<1>5. QED
  BY <1>3, <1>4

LEMMA CacheRaisesPreserves == ASSUME CacheInv, NEW r \in Clients, Cache!Raises(r) PROVE CacheInv'
<1>1. Cache!NoLookup.pc = "idle"
  BY DEF Cache!NoLookup
<1>2. QED
  BY <1>1, CacheDefaults, CacheGo DEF Cache!Raises

LEMMA CacheExpirePreserves == ASSUME CacheInv, Cache!Expire PROVE CacheInv'
BY DEF Cache!Expire, CacheInv, Cache!TypeOK, CacheStoresOK, CacheLookupOK, Cache!ServedIsFresh

\* A new day finds every request answered and every entry of MongoDB in time.
LEMMA CacheNextDayPreserves == ASSUME CacheInv, Cache!NextDay PROVE CacheInv'
<1> USE DEF Cache!NextDay, CacheInv
<1>1. day \in 0..CacheDays /\ day' = day + 1
  BY DEF Cache!TypeOK
<1>2. Cache!TypeOK'
  BY <1>1, CacheDefaults DEF Cache!TypeOK
<1>3. mongo # NoEntry => mongo.until \in Cache!Days
  BY DEF Cache!TypeOK, Cache!Entry
<1>4. CacheStoresOK'
  BY <1>1, <1>3, CacheDefaults DEF CacheStoresOK
<1>5. \A r \in Clients : CacheLookupOK(r)'
  BY DEF CacheLookupOK, Cache!At
<1>6. Cache!ServedIsFresh'
  BY DEF Cache!ServedIsFresh
<1>7. QED
  BY <1>2, <1>4, <1>5, <1>6

LEMMA CacheStutterPreserves == ASSUME CacheInv, UNCHANGED cacheVars PROVE CacheInv'
BY DEF cacheVars, CacheInv, Cache!TypeOK, CacheStoresOK, CacheLookupOK, Cache!ServedIsFresh

\* The invariant of the cache is inductive.
LEMMA CacheStep == CacheInv /\ [Cache!Next]_cacheVars => CacheInv'
<1> SUFFICES ASSUME CacheInv, [Cache!Next]_cacheVars PROVE CacheInv'
  OBVIOUS
<1>1. ASSUME NEW r \in Clients,
             \/ Cache!Ask(r) \/ Cache!ReadRedis(r) \/ Cache!ReadMongo(r) \/ Cache!Copy(r)
             \/ Cache!Analyze(r) \/ Cache!Check(r) \/ Cache!Create(r) \/ Cache!Store(r)
             \/ Cache!Raises(r)
      PROVE  CacheInv'
  BY <1>1, CacheAskPreserves, CacheReadRedisPreserves, CacheReadMongoPreserves, CacheCopyPreserves,
     CacheAnalyzePreserves, CacheCheckPreserves, CacheCreatePreserves, CacheStorePreserves,
     CacheRaisesPreserves
<1>2. CASE UNCHANGED cacheVars
  BY <1>2, CacheStutterPreserves
<1>3. QED
  BY <1>1, <1>2, CacheExpirePreserves, CacheNextDayPreserves DEF Cache!Next

-----------------------------------------------------------------------------
\* The objects of a document in the vector store: IndexingService.

\* What a run h that met nothing it could not see or finish knows of the objects
\* obj of the store, by where it stands.
IndexRunOK(h, obj) ==
    h.pc # "idle" =>
      /\ h.run \in 1..MaxRuns
      /\ h.pc \in {"read", "tenant", "embed", "insert"} => h.mode = "index"
      /\ h.alone /\ h.pc = "delete" => obj = h.found
      /\ h.alone /\ h.pc \in {"tenant", "embed"} => obj = {}
      /\ h.alone /\ h.pc = "insert" =>
           obj = {[run |-> h.run, chunk |-> k] : k \in Chunks \ h.left}

\* What the last run promised holds of the objects.
IndexPromise ==
    /\ holds = "nothing" => objects = {}
    /\ holds = "text" =>
         \E r \in 1..MaxRuns : objects = {[run |-> r, chunk |-> k] : k \in Chunks}

\* A run that has not searched yet has touched no object.
IndexEarly(h) == h.pc \in {"idle", "read", "search"}

IndexInv ==
    /\ Index!TypeOK
    /\ \A s, t \in Clients : Index!Busy(s) /\ Index!Busy(t) /\ s # t => ~runHandler[s].alone
    /\ \A s \in Clients : IndexRunOK(runHandler[s], objects)
    /\ (\A s \in Clients : IndexEarly(runHandler[s])) => IndexPromise

\* An idle slot has its type, and the instance counts as this module does.
LEMMA IndexDefaults ==
    /\ MaxRuns \in Nat /\ MaxResults \in Nat
    /\ Index!NoRun \in Index!Handler /\ Index!NoRun.pc = "idle"
    /\ \A S : Index!Cardinality(S) = Cardinality(S)
<1>1. MaxRuns \in Nat /\ MaxResults \in Nat
  BY RunsAssumption, ResultsAssumption
<1>2. Index!NoRun \in Index!Handler /\ Index!NoRun.pc = "idle"
  BY <1>1 DEF Index!NoRun, Index!Handler
<1>3. \A S : Index!Cardinality(S) = Cardinality(S)
  BY DEF Index!Cardinality, Cardinality
<1>4. QED
  BY <1>1, <1>2, <1>3

\* There are finitely many objects.
LEMMA IndexObjectsFinite == IsFiniteSet(Index!Object)
<1>1. IsFiniteSet(1..MaxRuns) /\ IsFiniteSet(Chunks)
  BY IndexDefaults, FS_Interval, ChunksAssumption
<1>2. IsFiniteSet((1..MaxRuns) \X Chunks)
  BY <1>1, FS_Product
<1> DEFINE f == [p \in (1..MaxRuns) \X Chunks |-> [run |-> p[1], chunk |-> p[2]]]
<1>3. f \in Surjection((1..MaxRuns) \X Chunks, Index!Object)
  <2>1. f \in [(1..MaxRuns) \X Chunks -> Index!Object]
    BY DEF Index!Object
  <2>2. ASSUME NEW o \in Index!Object PROVE \E p \in (1..MaxRuns) \X Chunks : f[p] = o
    <3>1. <<o.run, o.chunk>> \in (1..MaxRuns) \X Chunks /\ f[<<o.run, o.chunk>>] = o
      BY <2>2 DEF Index!Object
    <3>2. QED
      BY <3>1
  <2>3. QED
    BY <2>1, <2>2 DEF Surjection
<1>4. QED
  BY <1>2, <1>3, FS_Surjection

\* No run was started.
LEMMA IndexInit == Index!Init => IndexInv
<1> SUFFICES ASSUME Index!Init PROVE IndexInv
  OBVIOUS
<1> USE DEF Index!Init
<1>1. Index!TypeOK
  <2>1. 0 \in 0..MaxRuns
    BY IndexDefaults
  <2>2. runHandler \in [Clients -> Index!Handler]
    BY IndexDefaults
  <2>3. document \in [kind : {"resume", "job"}, exists : BOOLEAN]
    OBVIOUS
  <2>4. QED
    BY <2>1, <2>2, <2>3 DEF Index!TypeOK
<1>2. \A s \in Clients : ~Index!Busy(s) /\ IndexRunOK(runHandler[s], objects)
  BY IndexDefaults DEF Index!Busy, IndexRunOK
<1>3. IndexPromise
  BY DEF IndexPromise
<1>4. QED
  BY <1>1, <1>2, <1>3 DEF IndexInv

\* A run moves on: its handler becomes x, and the runs beside it are not alone.
LEMMA IndexMove ==
    ASSUME IndexInv, NEW s \in Clients, Index!Busy(s), NEW x \in Index!Handler,
           runHandler' = [runHandler EXCEPT ![s] = x], UNCHANGED runs,
           document' \in [kind : {"resume", "job"}, exists : BOOLEAN],
           objects' \subseteq Index!Object, holds' \in {"nothing", "text", "anything"},
           x.pc # "idle" /\ x.alone => runHandler[s].alone,
           IndexRunOK(x, objects'),
           /\ IndexEarly(x)
           /\ \A t \in Clients : t # s => IndexEarly(runHandler[t])
           => IndexPromise'
    PROVE  IndexInv'
<1>1. Index!TypeOK'
  BY DEF IndexInv, Index!TypeOK
<1>2. \A t \in Clients : runHandler'[t] = IF t = s THEN x ELSE runHandler[t]
  BY DEF IndexInv, Index!TypeOK
<1>3. \A t \in Clients : Index!Busy(t)' <=> runHandler'[t].pc # "idle"
  BY DEF Index!Busy
<1>4. \A t \in Clients : t # s /\ Index!Busy(t) => ~runHandler[t].alone
  BY DEF IndexInv
<1>5. \A t \in Clients : t # s /\ Index!Busy(t) => ~runHandler[s].alone
  BY DEF IndexInv
<1>6. \A t, u \in Clients : Index!Busy(t)' /\ Index!Busy(u)' /\ t # u => ~runHandler'[t].alone
  BY <1>2, <1>3, <1>4, <1>5 DEF Index!Busy
<1>7. ASSUME NEW t \in Clients, t # s PROVE IndexRunOK(runHandler[t], objects')
  <2>1. IndexRunOK(runHandler[t], objects)
    BY DEF IndexInv
  <2>2. QED
    BY <1>4, <1>7, <2>1 DEF IndexRunOK, Index!Busy
<1>8. \A t \in Clients : IndexRunOK(runHandler[t], objects)'
  BY <1>2, <1>7
<1>9. (\A t \in Clients : IndexEarly(runHandler[t])') => IndexPromise'
  BY <1>2
<1>10. QED
  BY <1>1, <1>6, <1>8, <1>9 DEF IndexInv

\* A run ends without having done what it is for.
LEMMA IndexGivesUp ==
    ASSUME IndexInv, NEW s \in Clients, Index!Busy(s),
           runHandler' = [runHandler EXCEPT ![s] = Index!NoRun], holds' = Index!Spoiled(s),
           document' \in [kind : {"resume", "job"}, exists : BOOLEAN],
           UNCHANGED <<objects, runs>>
    PROVE  IndexInv'
<1>1. IndexRunOK(Index!NoRun, objects')
  BY IndexDefaults DEF IndexRunOK
<1>2. objects' \subseteq Index!Object /\ holds' \in {"nothing", "text", "anything"}
  BY DEF IndexInv, Index!TypeOK, Index!Spoiled
<1>3. ASSUME \A t \in Clients : t # s => IndexEarly(runHandler[t]) PROVE IndexPromise'
  <2>1. CASE runHandler[s].pc \in {"read", "search"}
    <3>1. IndexPromise /\ UNCHANGED <<objects, holds>>
      BY <1>3, <2>1 DEF IndexInv, IndexEarly, Index!Spoiled
    <3>2. QED
      BY <3>1 DEF IndexPromise
  <2>2. CASE runHandler[s].pc \notin {"read", "search"}
    BY <2>2 DEF Index!Spoiled, IndexPromise
  <2>3. QED
    BY <2>1, <2>2
<1>4. QED
  BY <1>1, <1>2, <1>3, IndexDefaults, IndexMove

\* The handler of a slot, and what follows for its fields.
LEMMA IndexHandler ==
    ASSUME IndexInv, NEW s \in Clients
    PROVE  /\ runHandler[s] \in Index!Handler
           /\ runHandler[s].found \subseteq Index!Object /\ runHandler[s].left \subseteq Chunks
           /\ runHandler[s].alone \in BOOLEAN
           /\ IndexRunOK(runHandler[s], objects)
BY DEF IndexInv, Index!TypeOK, Index!Handler

LEMMA IndexStartPreserves ==
    ASSUME IndexInv, NEW s \in Clients, NEW mode \in {"index", "remove"}, Index!Start(s, mode)
    PROVE  IndexInv'
<1> DEFINE pc == IF mode = "index" THEN "read" ELSE "search"
<1> DEFINE overlap == \E t \in Clients : Index!Busy(t)
<1>1. PICK x : x = [Index!NoRun EXCEPT !.pc = pc, !.mode = mode, !.run = runs + 1, !.alone = ~overlap]
  OBVIOUS
<1>2. runs < MaxRuns /\ runs' = runs + 1 /\ UNCHANGED <<document, objects, holds>>
  BY DEF Index!Start
<1>3. ~Index!Busy(s)
  BY DEF Index!Start
<1>4. runHandler' = [t \in Clients |-> IF t = s THEN x
                       ELSE [runHandler[t] EXCEPT !.alone = @ /\ ~Index!Busy(t)]]
  BY <1>1 DEF Index!Start
<1>5. runs + 1 \in 1..MaxRuns
  BY <1>2, IndexDefaults DEF IndexInv, Index!TypeOK
<1>6. x \in Index!Handler /\ x.pc = pc /\ x.mode = mode /\ x.run = runs + 1 /\ x.alone = ~overlap
  <2>1. PICK a \in BOOLEAN : a = ~overlap
    OBVIOUS
  <2>2. PICK n \in 0..MaxRuns : n = runs + 1
    BY <1>5
  <2>3. PICK q \in {"read", "search"} : q = pc
    OBVIOUS
  <2>4. x = [Index!NoRun EXCEPT !.pc = q, !.mode = mode, !.run = n, !.alone = a]
    BY <1>1, <2>1, <2>2, <2>3
  <2>5. x \in Index!Handler /\ x.pc = q /\ x.mode = mode /\ x.run = n /\ x.alone = a
    BY <2>4, IndexDefaults DEF Index!Handler
  <2>6. QED
    BY <2>1, <2>2, <2>3, <2>5
<1>7. ASSUME NEW t \in Clients, t # s
      PROVE  /\ runHandler'[t] \in Index!Handler /\ runHandler'[t].pc = runHandler[t].pc
             /\ Index!Busy(t) => ~runHandler'[t].alone
             /\ IndexRunOK(runHandler'[t], objects)
  <2>1. PICK h \in Index!Handler : h = runHandler[t]
    BY IndexHandler
  <2>2. runHandler'[t] = [h EXCEPT !.alone = @ /\ ~Index!Busy(t)]
    BY <1>4, <1>7, <2>1
  <2>3. Index!Busy(t) <=> h.pc # "idle"
    BY <2>1 DEF Index!Busy
  <2>4. PICK a \in BOOLEAN : a = (h.alone /\ ~Index!Busy(t))
    BY <2>1 DEF Index!Handler
  <2>5. runHandler'[t] = [h EXCEPT !.alone = a]
    BY <2>1, <2>2, <2>4 DEF Index!Handler
  <2>6. IndexRunOK(h, objects)
    BY <2>1, IndexHandler
  <2>7. QED
    BY <2>1, <2>3, <2>4, <2>5, <2>6 DEF Index!Handler, IndexRunOK
<1>8. runHandler'[s] = x
  BY <1>4
<1>9. Index!TypeOK'
  <2>1. runs' \in 0..MaxRuns
    BY <1>2, <1>5
  <2>2. \A t \in Clients : runHandler'[t] \in Index!Handler
    BY <1>6, <1>7, <1>8
  <2>3. runHandler' \in [Clients -> Index!Handler]
    BY <1>4, <2>2
  <2>4. QED
    BY <1>2, <2>1, <2>3 DEF IndexInv, Index!TypeOK
<1>10. ASSUME NEW t \in Clients, NEW u \in Clients, Index!Busy(t)', Index!Busy(u)', t # u
       PROVE  ~runHandler'[t].alone
  <2>1. CASE t = s
    <3>1. Index!Busy(u)
      BY <1>7, <1>10, <2>1 DEF Index!Busy
    <3>2. QED
      BY <1>6, <1>8, <2>1, <3>1
  <2>2. CASE t # s
    BY <1>7, <1>10, <2>2 DEF Index!Busy
  <2>3. QED
    BY <2>1, <2>2
<1>11. IndexRunOK(x, objects)
  BY <1>5, <1>6 DEF IndexRunOK
<1>12. \A t \in Clients : IndexRunOK(runHandler[t], objects)'
  BY <1>2, <1>7, <1>8, <1>11
<1>13. ASSUME \A t \in Clients : IndexEarly(runHandler[t])' PROVE IndexPromise'
  <2>1. \A t \in Clients : t # s => IndexEarly(runHandler[t])
    BY <1>7, <1>13 DEF IndexEarly
  <2>2. IndexEarly(runHandler[s])
    BY <1>3 DEF Index!Busy, IndexEarly
  <2>3. IndexPromise
    BY <2>1, <2>2 DEF IndexInv
  <2>4. QED
    BY <1>2, <2>3 DEF IndexPromise
<1>14. QED
  BY <1>9, <1>10, <1>12, <1>13 DEF IndexInv

LEMMA IndexReadPreserves == ASSUME IndexInv, NEW s \in Clients, Index!Read(s) PROVE IndexInv'
<1>1. runHandler[s].pc = "read" /\ Index!Busy(s)
  BY DEF Index!Read, Index!Busy
<1>2. CASE document.exists
  <2>1. PICK h \in Index!Handler : h = runHandler[s] /\ IndexRunOK(h, objects)
    BY IndexHandler
  <2>2. PICK x : x = [h EXCEPT !.pc = "search"]
    OBVIOUS
  <2>3. runHandler' = [runHandler EXCEPT ![s] = x] /\ UNCHANGED <<document, objects, runs, holds>>
    BY <1>2, <2>1, <2>2 DEF Index!Read, Index!Go, IndexInv, Index!TypeOK
  <2>4. x \in Index!Handler /\ x.pc = "search" /\ x.alone = h.alone /\ x.run = h.run
    BY <2>2 DEF Index!Handler
  <2>5. IndexRunOK(x, objects')
    BY <1>1, <2>1, <2>3, <2>4 DEF IndexRunOK
  <2>6. ASSUME \A t \in Clients : t # s => IndexEarly(runHandler[t]) PROVE IndexPromise'
    <3>1. IndexPromise
      BY <1>1, <2>6 DEF IndexInv, IndexEarly
    <3>2. QED
      BY <2>3, <3>1 DEF IndexPromise
  <2>7. document \in [kind : {"resume", "job"}, exists : BOOLEAN] /\ objects \subseteq Index!Object
        /\ holds \in {"nothing", "text", "anything"}
    BY DEF IndexInv, Index!TypeOK
  <2>8. QED
    BY <1>1, <2>1, <2>3, <2>4, <2>5, <2>6, <2>7, IndexMove
<1>3. CASE ~document.exists
  <2>1. Index!Fail(s)
    BY <1>3 DEF Index!Read
  <2>2. document' \in [kind : {"resume", "job"}, exists : BOOLEAN]
    BY <2>1 DEF Index!Fail, IndexInv, Index!TypeOK
  <2>3. QED
    BY <1>1, <2>1, <2>2, IndexGivesUp DEF Index!Fail
<1>4. QED
  BY <1>2, <1>3

\* A run that goes on after its search: the promise of the last run is not
\* called for.
LEMMA IndexWorks ==
    ASSUME IndexInv, NEW s \in Clients, Index!Busy(s), NEW x \in Index!Handler,
           runHandler' = [runHandler EXCEPT ![s] = x], UNCHANGED <<runs, document, holds>>,
           objects' \subseteq Index!Object, x.alone => runHandler[s].alone,
           IndexRunOK(x, objects'), ~IndexEarly(x)
    PROVE  IndexInv'
BY IndexMove DEF IndexInv, Index!TypeOK

\* A search that finds all there is leaves no object unseen.
LEMMA IndexSearchPreserves == ASSUME IndexInv, NEW s \in Clients, Index!Search(s) PROVE IndexInv'
<1>1. PICK found \in Index!Found :
         runHandler' = [runHandler EXCEPT ![s].pc = "delete", ![s].found = found,
                          ![s].alone = @ /\ (found = {} => objects = {})
                                         /\ Index!Cardinality(objects) <= MaxResults]
  BY DEF Index!Search
<1>2. UNCHANGED <<document, objects, runs, holds>> /\ runHandler[s].pc = "search" /\ Index!Busy(s)
  BY DEF Index!Search, Index!Busy
<1>3. PICK h \in Index!Handler : h = runHandler[s] /\ IndexRunOK(h, objects)
  BY IndexHandler
<1>4. PICK a \in BOOLEAN : a = (h.alone /\ (found = {} => objects = {}) /\ Cardinality(objects) <= MaxResults)
  OBVIOUS
<1>5. PICK x : x = [h EXCEPT !.pc = "delete", !.found = found, !.alone = a]
  OBVIOUS
<1>6. runHandler' = [runHandler EXCEPT ![s] = x]
  BY <1>1, <1>3, <1>4, <1>5, IndexDefaults DEF IndexInv, Index!TypeOK, Index!Handler
<1>7. found \subseteq objects /\ objects \subseteq Index!Object
  BY <1>1 DEF Index!Found, IndexInv, Index!TypeOK
<1>8. x \in Index!Handler /\ x.pc = "delete" /\ x.found = found /\ x.alone = a /\ x.run = h.run
  BY <1>5, <1>7 DEF Index!Handler
<1>9. ASSUME a PROVE objects = found
  <2>1. IsFiniteSet(objects)
    BY <1>7, IndexObjectsFinite, FS_Subset
  <2>2. CASE found = {}
    BY <1>4, <1>9, <2>2
  <2>3. CASE found # {}
    <3>1. Cardinality(found) = IF Cardinality(objects) < MaxResults THEN Cardinality(objects) ELSE MaxResults
      BY <1>1, <2>3, IndexDefaults DEF Index!Found
    <3>2. Cardinality(objects) <= MaxResults /\ Cardinality(objects) \in Nat
      BY <1>4, <1>9, <2>1, FS_CardinalityType
    <3>3. Cardinality(found) = Cardinality(objects)
      BY <3>1, <3>2, IndexDefaults
    <3>4. QED
      BY <1>7, <2>1, <3>3, FS_Subset
  <2>4. QED
    BY <2>2, <2>3
<1>10. IndexRunOK(x, objects')
  BY <1>2, <1>3, <1>8, <1>9 DEF IndexRunOK
<1>11. (x.alone => runHandler[s].alone) /\ ~IndexEarly(x)
  BY <1>3, <1>4, <1>8 DEF IndexEarly
<1>12. QED
  BY <1>2, <1>6, <1>7, <1>8, <1>10, <1>11, IndexWorks

LEMMA IndexDeletePreserves == ASSUME IndexInv, NEW s \in Clients, Index!Delete(s) PROVE IndexInv'
<1>1. PICK o \in runHandler[s].found :
        /\ objects' = objects \ {o}
        /\ runHandler' = [runHandler EXCEPT ![s].found = @ \ {o}]
  BY DEF Index!Delete
<1>2. runHandler[s].pc = "delete" /\ Index!Busy(s) /\ UNCHANGED <<document, runs, holds>>
  BY DEF Index!Delete, Index!Busy
<1>3. PICK h \in Index!Handler : h = runHandler[s] /\ IndexRunOK(h, objects)
  BY IndexHandler
<1>4. PICK x : x = [h EXCEPT !.found = @ \ {o}]
  OBVIOUS
<1>5. runHandler' = [runHandler EXCEPT ![s] = x]
  BY <1>1, <1>3, <1>4 DEF IndexInv, Index!TypeOK
<1>6. x \in Index!Handler /\ x.pc = "delete" /\ x.found = h.found \ {o} /\ x.alone = h.alone /\ x.run = h.run
  BY <1>2, <1>3, <1>4 DEF Index!Handler
<1>7. IndexRunOK(x, objects')
  BY <1>1, <1>2, <1>3, <1>6 DEF IndexRunOK
<1>8. objects' \subseteq Index!Object /\ ~IndexEarly(x)
  BY <1>1, <1>6 DEF IndexInv, Index!TypeOK, IndexEarly
<1>9. QED
  BY <1>2, <1>3, <1>5, <1>6, <1>7, <1>8, IndexWorks

\* A run succeeds: what it promises holds if it was alone.
LEMMA IndexSucceeds ==
    ASSUME IndexInv, NEW s \in Clients, Index!Busy(s), Index!Succeed(s), UNCHANGED runs,
           document' \in [kind : {"resume", "job"}, exists : BOOLEAN],
           objects' \subseteq Index!Object,
           runHandler[s].alone /\ runHandler[s].mode # "index" => objects' = {},
           runHandler[s].alone /\ runHandler[s].mode = "index" =>
             \E r \in 1..MaxRuns : objects' = {[run |-> r, chunk |-> k] : k \in Chunks}
    PROVE  IndexInv'
<1>1. IndexPromise' /\ holds' \in {"nothing", "text", "anything"}
  BY DEF Index!Succeed, IndexPromise
<1>2. IndexRunOK(Index!NoRun, objects')
  BY IndexDefaults DEF IndexRunOK
<1>3. QED
  BY <1>1, <1>2, IndexDefaults, IndexMove DEF Index!Succeed

LEMMA IndexDeletedPreserves == ASSUME IndexInv, NEW s \in Clients, Index!Deleted(s) PROVE IndexInv'
<1>1. /\ runHandler[s].pc = "delete" /\ Index!Busy(s) /\ runHandler[s].found = {}
      /\ UNCHANGED <<objects, runs>>
  BY DEF Index!Deleted, Index!Busy
<1>2. PICK h \in Index!Handler : h = runHandler[s] /\ IndexRunOK(h, objects)
  BY IndexHandler
<1>3. h.alone => objects = {}
  BY <1>1, <1>2 DEF IndexRunOK
<1>4. objects' \subseteq Index!Object
  BY <1>1 DEF IndexInv, Index!TypeOK
<1>5. CASE h.mode = "index"
  <2>1. PICK x : x = [h EXCEPT !.pc = "tenant"]
    OBVIOUS
  <2>2. runHandler' = [runHandler EXCEPT ![s] = x] /\ UNCHANGED <<document, holds>>
    BY <1>2, <1>5, <2>1 DEF Index!Deleted, Index!Go, IndexInv, Index!TypeOK
  <2>3. x \in Index!Handler /\ x.pc = "tenant" /\ x.mode = "index" /\ x.alone = h.alone /\ x.run = h.run
    BY <1>5, <2>1 DEF Index!Handler
  <2>4. IndexRunOK(x, objects') /\ ~IndexEarly(x)
    BY <1>1, <1>2, <1>3, <2>3 DEF IndexRunOK, IndexEarly
  <2>5. QED
    BY <1>1, <1>2, <1>4, <2>2, <2>3, <2>4, IndexWorks
<1>6. CASE h.mode # "index"
  <2>1. Index!Succeed(s) /\ document' = [document EXCEPT !.exists = FALSE]
    BY <1>2, <1>6 DEF Index!Deleted
  <2>2. document' \in [kind : {"resume", "job"}, exists : BOOLEAN]
    BY <2>1 DEF IndexInv, Index!TypeOK
  <2>3. QED
    BY <1>1, <1>2, <1>3, <1>4, <1>6, <2>1, <2>2, IndexSucceeds
<1>7. QED
  BY <1>5, <1>6

LEMMA IndexEnsureTenantPreserves ==
    ASSUME IndexInv, NEW s \in Clients, Index!EnsureTenant(s) PROVE IndexInv'
<1>1. /\ runHandler[s].pc = "tenant" /\ Index!Busy(s) /\ UNCHANGED <<document, objects, runs, holds>>
  BY DEF Index!EnsureTenant, Index!Busy
<1>2. PICK h \in Index!Handler : h = runHandler[s] /\ IndexRunOK(h, objects)
  BY IndexHandler
<1>3. PICK x : x = [h EXCEPT !.pc = "embed"]
  OBVIOUS
<1>4. runHandler' = [runHandler EXCEPT ![s] = x]
  BY <1>2, <1>3 DEF Index!EnsureTenant, Index!Go, IndexInv, Index!TypeOK
<1>5. x \in Index!Handler /\ x.pc = "embed" /\ x.mode = h.mode /\ x.alone = h.alone /\ x.run = h.run
  BY <1>3 DEF Index!Handler
<1>6. IndexRunOK(x, objects') /\ ~IndexEarly(x)
  BY <1>1, <1>2, <1>5 DEF IndexRunOK, IndexEarly
<1>7. objects' \subseteq Index!Object
  BY <1>1 DEF IndexInv, Index!TypeOK
<1>8. QED
  BY <1>1, <1>2, <1>4, <1>5, <1>6, <1>7, IndexWorks

LEMMA IndexEmbedPreserves == ASSUME IndexInv, NEW s \in Clients, Index!Embed(s) PROVE IndexInv'
<1>1. /\ runHandler[s].pc = "embed" /\ Index!Busy(s) /\ UNCHANGED <<document, objects, runs, holds>>
  BY DEF Index!Embed, Index!Busy
<1>2. PICK h \in Index!Handler : h = runHandler[s] /\ IndexRunOK(h, objects)
  BY IndexHandler
<1>3. PICK x : x = [h EXCEPT !.pc = "insert", !.left = Chunks]
  OBVIOUS
<1>4. runHandler' = [runHandler EXCEPT ![s] = x]
  BY <1>2, <1>3 DEF Index!Embed, IndexInv, Index!TypeOK
<1>5. /\ x \in Index!Handler /\ x.pc = "insert" /\ x.left = Chunks
      /\ x.mode = h.mode /\ x.alone = h.alone /\ x.run = h.run
  BY <1>3 DEF Index!Handler
<1>6. IndexRunOK(x, objects') /\ ~IndexEarly(x)
  BY <1>1, <1>2, <1>5 DEF IndexRunOK, IndexEarly
<1>7. objects' \subseteq Index!Object
  BY <1>1 DEF IndexInv, Index!TypeOK
<1>8. QED
  BY <1>1, <1>2, <1>4, <1>5, <1>6, <1>7, IndexWorks

LEMMA IndexInsertPreserves == ASSUME IndexInv, NEW s \in Clients, Index!Insert(s) PROVE IndexInv'
<1>1. PICK k \in runHandler[s].left :
        /\ objects' = objects \cup {[run |-> runHandler[s].run, chunk |-> k]}
        /\ IF runHandler[s].left = {k}
           THEN Index!Succeed(s)
           ELSE /\ runHandler' = [runHandler EXCEPT ![s].left = @ \ {k}]
                /\ UNCHANGED holds
  BY DEF Index!Insert
<1>2. runHandler[s].pc = "insert" /\ Index!Busy(s) /\ UNCHANGED <<document, runs>>
  BY DEF Index!Insert, Index!Busy
<1>3. PICK h \in Index!Handler : h = runHandler[s] /\ IndexRunOK(h, objects)
  BY IndexHandler
<1>4. h.run \in 1..MaxRuns /\ h.mode = "index" /\ k \in Chunks /\ h.left \subseteq Chunks
  BY <1>1, <1>2, <1>3, IndexHandler DEF IndexRunOK
<1>5. objects' \subseteq Index!Object
  BY <1>1, <1>3, <1>4 DEF IndexInv, Index!TypeOK, Index!Object
<1>6. ASSUME h.alone
      PROVE  objects' = {[run |-> h.run, chunk |-> c] : c \in Chunks \ (h.left \ {k})}
  <2>1. objects = {[run |-> h.run, chunk |-> c] : c \in Chunks \ h.left}
    BY <1>2, <1>3, <1>6 DEF IndexRunOK
  <2>2. QED
    BY <1>1, <1>3, <1>4, <2>1
<1>7. CASE h.left = {k}
  <2>1. h.alone => objects' = {[run |-> h.run, chunk |-> c] : c \in Chunks}
    BY <1>6, <1>7
  <2>2. document' \in [kind : {"resume", "job"}, exists : BOOLEAN]
    BY <1>2 DEF IndexInv, Index!TypeOK
  <2>3. Index!Succeed(s)
    BY <1>1, <1>3, <1>7
  <2>4. QED
    BY <1>2, <1>3, <1>4, <1>5, <2>1, <2>2, <2>3, IndexSucceeds
<1>8. CASE h.left # {k}
  <2>1. PICK x : x = [h EXCEPT !.left = @ \ {k}]
    OBVIOUS
  <2>2. runHandler' = [runHandler EXCEPT ![s] = x] /\ UNCHANGED holds
    BY <1>1, <1>3, <1>8, <2>1 DEF IndexInv, Index!TypeOK
  <2>3. /\ x \in Index!Handler /\ x.pc = "insert" /\ x.left = h.left \ {k}
        /\ x.mode = h.mode /\ x.alone = h.alone /\ x.run = h.run
    BY <1>2, <1>3, <2>1 DEF Index!Handler
  <2>4. IndexRunOK(x, objects') /\ ~IndexEarly(x)
    BY <1>4, <1>6, <2>3 DEF IndexRunOK, IndexEarly
  <2>5. QED
    BY <1>2, <1>3, <1>5, <2>2, <2>3, <2>4, IndexWorks
<1>9. QED
  BY <1>7, <1>8

LEMMA IndexRaisesPreserves == ASSUME IndexInv, NEW s \in Clients, Index!Raises(s) PROVE IndexInv'
<1>1. Index!Busy(s)
  BY DEF Index!Raises, Index!Busy
<1>2. /\ runHandler' = [runHandler EXCEPT ![s] = Index!NoRun] /\ holds' = Index!Spoiled(s)
      /\ UNCHANGED <<objects, runs>>
  BY DEF Index!Raises, Index!Fail
<1>3. document' \in [kind : {"resume", "job"}, exists : BOOLEAN]
  BY DEF Index!Raises, Index!Fail, IndexInv, Index!TypeOK
<1>4. QED
  BY <1>1, <1>2, <1>3, IndexGivesUp

LEMMA IndexDeleteResumePreserves == ASSUME IndexInv, Index!DeleteResume PROVE IndexInv'
<1>1. UNCHANGED <<objects, runs, runHandler, holds>>
  BY DEF Index!DeleteResume
<1>2. Index!TypeOK'
  BY <1>1 DEF Index!DeleteResume, IndexInv, Index!TypeOK
<1>3. QED
  BY <1>1, <1>2 DEF IndexInv, IndexPromise, Index!Busy

\* After a restart no run is under way, and none had touched an object if the
\* last promise is kept.
LEMMA IndexRestartPreserves == ASSUME IndexInv, Index!Restart PROVE IndexInv'
<1>1. runHandler' = [s \in Clients |-> Index!NoRun] /\ UNCHANGED <<document, objects, runs>>
  BY DEF Index!Restart
<1>2. Index!TypeOK'
  BY <1>1, IndexDefaults DEF Index!Restart, IndexInv, Index!TypeOK
<1>3. \A s \in Clients : ~Index!Busy(s)' /\ IndexRunOK(runHandler[s], objects)'
  BY <1>1, IndexDefaults DEF Index!Busy, IndexRunOK
<1>4. IndexPromise'
  <2>1. CASE holds' = "anything"
    BY <2>1 DEF IndexPromise
  <2>2. CASE holds' # "anything"
    <3>1. holds' = holds /\ \A s \in Clients : Index!Busy(s) => Index!Spoiled(s) = holds
      BY <2>2 DEF Index!Restart
    <3>2. \A s \in Clients : IndexEarly(runHandler[s])
      BY <2>2, <3>1 DEF Index!Spoiled, IndexEarly, Index!Busy
    <3>3. QED
      BY <1>1, <3>1, <3>2 DEF IndexInv, IndexPromise
  <2>3. QED
    BY <2>1, <2>2
<1>5. QED
  BY <1>2, <1>3, <1>4 DEF IndexInv

LEMMA IndexStutterPreserves == ASSUME IndexInv, UNCHANGED indexVars PROVE IndexInv'
BY DEF indexVars, IndexInv, Index!TypeOK, Index!Busy, IndexPromise

\* The invariant of the index is inductive.
LEMMA IndexStep == IndexInv /\ [Index!Next]_indexVars => IndexInv'
<1> SUFFICES ASSUME IndexInv, [Index!Next]_indexVars PROVE IndexInv'
  OBVIOUS
<1>1. ASSUME NEW s \in Clients, Index!Index(s) \/ Index!Remove(s) PROVE IndexInv'
  BY <1>1, IndexStartPreserves DEF Index!Index, Index!Remove
<1>2. ASSUME NEW s \in Clients,
             \/ Index!Read(s) \/ Index!Search(s) \/ Index!Delete(s) \/ Index!Deleted(s)
             \/ Index!EnsureTenant(s) \/ Index!Embed(s) \/ Index!Insert(s) \/ Index!Raises(s)
      PROVE  IndexInv'
  BY <1>2, IndexReadPreserves, IndexSearchPreserves, IndexDeletePreserves, IndexDeletedPreserves,
     IndexEnsureTenantPreserves, IndexEmbedPreserves, IndexInsertPreserves, IndexRaisesPreserves
<1>3. CASE UNCHANGED indexVars
  BY <1>3, IndexStutterPreserves
<1>4. QED
  BY <1>1, <1>2, <1>3, IndexDeleteResumePreserves, IndexRestartPreserves DEF Index!Next

\* While no run is under way, the promise of the last one is kept.
LEMMA IndexTells == IndexInv => Index!IndexTellsText
BY DEF IndexInv, Index!IndexTellsText, Index!Busy, IndexEarly, IndexPromise

-----------------------------------------------------------------------------
\* What became of an application: create_or_update_tracker of
\* outcome_service.py.

\* How far a status is; a rejection and a silence are no place on the way.
OutcomeRank(s) ==
    CASE s = "applied" -> 1
      [] s = "viewed" -> 2
      [] s = "responded" -> 3
      [] s = "interview_scheduled" -> 4
      [] s = "offer_received" -> 5
      [] OTHER -> 0

OutcomeTracked == [status : Outcome!OutcomeStatus \cup {Outcome!NoStatus},
                   transitions : Seq(Outcome!Transition)]

\* The transitions of tracker t lead to its status.
OutcomeLeads(t) ==
    /\ Len(t.transitions) = 0 <=> t = Outcome!NoTracker
    /\ \A i \in 1..Len(t.transitions) :
         /\ t.transitions[i].previous =
              IF i = 1 THEN Outcome!NoStatus ELSE t.transitions[i - 1].new
         /\ Outcome!Valid(t.transitions[i].previous, t.transitions[i].new)
    /\ Len(t.transitions) > 0 => t.status = t.transitions[Len(t.transitions)].new

\* An application under way was never farther than it is.
OutcomeClimbs(t) ==
    t.status \notin Outcome!Given =>
      \A i \in 1..Len(t.transitions) :
        /\ t.transitions[i].new \notin Outcome!Given
        /\ OutcomeRank(t.transitions[i].new) <= OutcomeRank(t.status)

\* What a request has validated.
OutcomeRequestOK(h) ==
    h.pc # "idle" =>
      /\ h.application \in Applications
      /\ h.new \in Outcome!OutcomeStatus
      /\ h.pc = "update" => h.expected # Outcome!NoStatus /\ Outcome!Valid(h.expected, h.new)
      /\ h.pc = "create" => h.new = "applied"

OutcomeInv ==
    /\ Outcome!TypeOK
    /\ \A a \in Applications : OutcomeLeads(tracker[a]) /\ OutcomeClimbs(tracker[a])
    /\ \A r \in Clients : OutcomeRequestOK(outcomeRequest[r])

\* A transition leads on, or ends in a rejection or a silence.
LEMMA OutcomeValidClimbs ==
    ASSUME NEW c \in Outcome!OutcomeStatus, NEW n \in Outcome!OutcomeStatus, Outcome!Valid(c, n)
    PROVE  /\ c \notin Outcome!Given
           /\ n \notin Outcome!Given => OutcomeRank(c) < OutcomeRank(n)
<1>1. c # Outcome!NoStatus
  BY DEF Outcome!OutcomeStatus, Outcome!NoStatus
<1>2. n \in Outcome!ValidTransitions[c]
  BY <1>1 DEF Outcome!Valid
<1>3. DOMAIN Outcome!Later = {"applied", "viewed", "responded", "interview_scheduled"}
  BY DEF Outcome!Later
<1>4. c \in DOMAIN Outcome!Later /\ n \in Outcome!Later[c] \cup Outcome!Given
  BY <1>2 DEF Outcome!ValidTransitions
<1>5. c \notin Outcome!Given
  BY <1>3, <1>4 DEF Outcome!Given
<1>6. /\ Outcome!Later["applied"] = {"viewed", "responded", "interview_scheduled"}
      /\ Outcome!Later["viewed"] = {"responded", "interview_scheduled"}
      /\ Outcome!Later["responded"] = {"interview_scheduled"}
      /\ Outcome!Later["interview_scheduled"] = {"offer_received"}
  BY DEF Outcome!Later
<1>7. n \notin Outcome!Given => OutcomeRank(c) < OutcomeRank(n)
  <2> SUFFICES ASSUME n \in Outcome!Later[c] PROVE OutcomeRank(c) < OutcomeRank(n)
    BY <1>4
  <2>1. CASE c = "applied"
    BY <1>6, <2>1 DEF OutcomeRank
  <2>2. CASE c = "viewed"
    BY <1>6, <2>2 DEF OutcomeRank
  <2>3. CASE c = "responded"
    BY <1>6, <2>3 DEF OutcomeRank
  <2>4. CASE c = "interview_scheduled"
    BY <1>6, <2>4 DEF OutcomeRank
  <2>5. QED
    BY <1>3, <1>4, <2>1, <2>2, <2>3, <2>4
<1>8. QED
  BY <1>5, <1>7

LEMMA OutcomeRankType == \A s : OutcomeRank(s) \in 0..5
BY DEF OutcomeRank

\* A valid transition from the status keeps both.
LEMMA OutcomePush ==
    ASSUME NEW t \in OutcomeTracked, NEW n \in Outcome!OutcomeStatus,
           OutcomeLeads(t), OutcomeClimbs(t), Outcome!Valid(t.status, n)
    PROVE  /\ Outcome!Pushed(t, t.status, n) \in OutcomeTracked
           /\ OutcomeLeads(Outcome!Pushed(t, t.status, n))
           /\ OutcomeClimbs(Outcome!Pushed(t, t.status, n))
<1> DEFINE e == [previous |-> t.status, new |-> n]
<1> DEFINE u == Outcome!Pushed(t, t.status, n)
<1>1. t.transitions \in Seq(Outcome!Transition) /\ t.status \in Outcome!OutcomeStatus \cup {Outcome!NoStatus}
  BY DEF OutcomeTracked
<1>2. e \in Outcome!Transition
  BY <1>1 DEF Outcome!Transition
<1>3. PICK k \in Nat : k = Len(t.transitions)
  BY <1>1
<1>4. u.status = n /\ u.transitions = Append(t.transitions, e)
  BY DEF Outcome!Pushed
<1>5. /\ u.transitions \in Seq(Outcome!Transition) /\ Len(u.transitions) = k + 1
      /\ u.transitions[k + 1] = e
      /\ \A i \in 1..k : u.transitions[i] = t.transitions[i]
  BY <1>1, <1>2, <1>3, <1>4
<1>6. u \in OutcomeTracked
  BY <1>4, <1>5 DEF OutcomeTracked, Outcome!Pushed
<1>7. k > 0 => t.status = t.transitions[k].new /\ t.status \in Outcome!OutcomeStatus
  <2> SUFFICES ASSUME k > 0 PROVE t.status = t.transitions[k].new /\ t.status \in Outcome!OutcomeStatus
    OBVIOUS
  <2>1. t.status = t.transitions[k].new
    BY <1>3 DEF OutcomeLeads
  <2>2. t.transitions[k] \in Outcome!Transition
    BY <1>1, <1>3
  <2>3. t.transitions[k].new \in Outcome!OutcomeStatus
    BY <2>2 DEF Outcome!Transition
  <2>4. QED
    BY <2>1, <2>3
<1>8. k = 0 => t.status = Outcome!NoStatus
  BY <1>3 DEF OutcomeLeads, Outcome!NoTracker
<1>9. u # Outcome!NoTracker
  BY <1>4 DEF Outcome!NoTracker, Outcome!OutcomeStatus, Outcome!NoStatus
<1>10. ASSUME NEW i \in 1..(k + 1)
       PROVE  /\ u.transitions[i].previous =
                   IF i = 1 THEN Outcome!NoStatus ELSE u.transitions[i - 1].new
              /\ Outcome!Valid(u.transitions[i].previous, u.transitions[i].new)
  <2>1. CASE i = k + 1
    <3>1. u.transitions[i] = e
      BY <1>5, <2>1
    <3>2. k # 0 => u.transitions[i - 1] = t.transitions[k]
      BY <1>5, <2>1
    <3>3. QED
      BY <1>7, <1>8, <2>1, <3>1, <3>2
  <2>2. CASE i # k + 1
    <3>1. i \in 1..k /\ (i # 1 => i - 1 \in 1..k)
      BY <2>2
    <3>2. u.transitions[i] = t.transitions[i] /\ (i # 1 => u.transitions[i - 1] = t.transitions[i - 1])
      BY <1>5, <3>1
    <3>3. QED
      BY <1>3, <3>1, <3>2 DEF OutcomeLeads
  <2>3. QED
    BY <2>1, <2>2
<1>11. OutcomeLeads(u)
  BY <1>4, <1>5, <1>9, <1>10 DEF OutcomeLeads
<1>12. ASSUME n \notin Outcome!Given, NEW i \in 1..(k + 1)
       PROVE  /\ u.transitions[i].new \notin Outcome!Given
              /\ OutcomeRank(u.transitions[i].new) <= OutcomeRank(n)
  <2>1. CASE i = k + 1
    BY <1>5, <1>12, <2>1, OutcomeRankType
  <2>2. CASE i # k + 1
    <3>1. i \in 1..k /\ k > 0 /\ u.transitions[i] = t.transitions[i]
      BY <1>5, <2>2
    <3>2. t.status \notin Outcome!Given /\ OutcomeRank(t.status) < OutcomeRank(n)
      BY <1>7, <1>12, <3>1, OutcomeValidClimbs
    <3>3. /\ t.transitions[i].new \notin Outcome!Given
          /\ OutcomeRank(t.transitions[i].new) <= OutcomeRank(t.status)
      BY <1>3, <3>1, <3>2 DEF OutcomeClimbs
    <3>4. OutcomeRank(t.transitions[i].new) \in Int /\ OutcomeRank(t.status) \in Int /\ OutcomeRank(n) \in Int
      BY OutcomeRankType
    <3>5. QED
      BY <3>1, <3>2, <3>3, <3>4
  <2>3. QED
    BY <2>1, <2>2
<1>13. OutcomeClimbs(u)
  BY <1>4, <1>5, <1>12 DEF OutcomeClimbs
<1>14. QED
  BY <1>6, <1>11, <1>13

\* The tracker of an application that has none.
LEMMA OutcomeNoTracker ==
    /\ Outcome!NoTracker \in OutcomeTracked
    /\ OutcomeLeads(Outcome!NoTracker) /\ OutcomeClimbs(Outcome!NoTracker)
    /\ Outcome!NoTracker.status = Outcome!NoStatus
<1>1. /\ Outcome!NoTracker.status = Outcome!NoStatus /\ Outcome!NoTracker.transitions = <<>>
      /\ Len(Outcome!NoTracker.transitions) = 0
  BY DEF Outcome!NoTracker
<1>2. Outcome!NoTracker \in OutcomeTracked
  BY DEF Outcome!NoTracker, OutcomeTracked
<1>3. QED
  BY <1>1, <1>2 DEF OutcomeLeads, OutcomeClimbs

LEMMA OutcomeNoHandler == Outcome!NoHandler \in Outcome!Handler /\ Outcome!NoHandler.pc = "idle"
BY DEF Outcome!NoHandler, Outcome!Handler

LEMMA OutcomeInit == Outcome!Init => OutcomeInv
<1> SUFFICES ASSUME Outcome!Init PROVE OutcomeInv
  OBVIOUS
<1> USE DEF Outcome!Init
<1>1. Outcome!TypeOK
  BY OutcomeNoTracker, OutcomeNoHandler DEF Outcome!TypeOK, OutcomeTracked
<1>2. QED
  BY <1>1, OutcomeNoTracker, OutcomeNoHandler DEF OutcomeInv, OutcomeRequestOK

\* A request moves on and leaves the trackers alone.
LEMMA OutcomeMove ==
    ASSUME OutcomeInv, NEW r \in Clients, NEW x \in Outcome!Handler, OutcomeRequestOK(x),
           outcomeRequest' = [outcomeRequest EXCEPT ![r] = x], UNCHANGED <<present, tracker>>
    PROVE  OutcomeInv'
<1>1. Outcome!TypeOK'
  BY DEF OutcomeInv, Outcome!TypeOK
<1>2. \A q \in Clients : OutcomeRequestOK(outcomeRequest[q])'
  <2>1. \A q \in Clients : outcomeRequest'[q] = IF q = r THEN x ELSE outcomeRequest[q]
    BY DEF OutcomeInv, Outcome!TypeOK
  <2>2. QED
    BY <2>1 DEF OutcomeInv
<1>3. QED
  BY <1>1, <1>2 DEF OutcomeInv

LEMMA OutcomeRecordPreserves ==
    ASSUME OutcomeInv, NEW r \in Clients, NEW a \in Applications, NEW new \in Outcome!OutcomeStatus,
           Outcome!Record(r, a, new)
    PROVE  OutcomeInv'
<1>1. PICK x : x = [pc |-> "find", application |-> a, new |-> new, expected |-> Outcome!NoStatus]
  OBVIOUS
<1>2. outcomeRequest' = [outcomeRequest EXCEPT ![r] = x] /\ UNCHANGED <<present, tracker>>
  BY <1>1 DEF Outcome!Record
<1>3. x \in Outcome!Handler /\ OutcomeRequestOK(x)
  BY <1>1 DEF Outcome!Handler, OutcomeRequestOK
<1>4. QED
  BY <1>2, <1>3, OutcomeMove

LEMMA OutcomeFindPreserves == ASSUME OutcomeInv, NEW r \in Clients, Outcome!Find(r) PROVE OutcomeInv'
<1>1. PICK h \in Outcome!Handler : h = outcomeRequest[r] /\ OutcomeRequestOK(h) /\ h.pc = "find"
  BY DEF Outcome!Find, OutcomeInv, Outcome!TypeOK
<1>2. PICK c \in Outcome!OutcomeStatus \cup {Outcome!NoStatus} : c = tracker[h.application].status
  BY <1>1 DEF OutcomeInv, Outcome!TypeOK, OutcomeRequestOK
<1>3. UNCHANGED <<present, tracker>>
  BY DEF Outcome!Find
<1>4. CASE Outcome!Valid(c, h.new)
  <2>1. PICK pc \in {"create", "update"} : pc = IF c = Outcome!NoStatus THEN "create" ELSE "update"
    OBVIOUS
  <2>2. PICK x : x = [h EXCEPT !.pc = pc, !.expected = c]
    OBVIOUS
  <2>3. outcomeRequest' = [outcomeRequest EXCEPT ![r] = x]
    BY <1>1, <1>2, <1>4, <2>1, <2>2 DEF Outcome!Find, OutcomeInv, Outcome!TypeOK, Outcome!Handler
  <2>4. /\ x \in Outcome!Handler /\ x.pc = pc /\ x.expected = c /\ x.new = h.new
        /\ x.application = h.application
    BY <2>2 DEF Outcome!Handler
  <2>5. OutcomeRequestOK(x)
    BY <1>1, <1>4, <2>1, <2>4 DEF OutcomeRequestOK, Outcome!Valid
  <2>6. QED
    BY <1>3, <2>3, <2>4, <2>5, OutcomeMove
<1>5. CASE ~Outcome!Valid(c, h.new)
  <2>1. outcomeRequest' = [outcomeRequest EXCEPT ![r] = Outcome!NoHandler]
    BY <1>1, <1>2, <1>5 DEF Outcome!Find, Outcome!Finish
  <2>2. OutcomeRequestOK(Outcome!NoHandler)
    BY OutcomeNoHandler DEF OutcomeRequestOK
  <2>3. QED
    BY <1>3, <2>1, <2>2, OutcomeNoHandler, OutcomeMove
<1>6. QED
  BY <1>4, <1>5

\* A request ends, and one tracker may have got a transition.
LEMMA OutcomeWrites ==
    ASSUME OutcomeInv, NEW r \in Clients, NEW a \in Applications, NEW t \in OutcomeTracked,
           OutcomeLeads(t), OutcomeClimbs(t), tracker' = [tracker EXCEPT ![a] = t],
           UNCHANGED present, outcomeRequest' = [outcomeRequest EXCEPT ![r] = Outcome!NoHandler]
    PROVE  OutcomeInv'
<1>1. Outcome!TypeOK'
  BY OutcomeNoHandler DEF OutcomeInv, Outcome!TypeOK, OutcomeTracked
<1>2. \A b \in Applications : tracker'[b] = IF b = a THEN t ELSE tracker[b]
  BY DEF OutcomeInv, Outcome!TypeOK
<1>3. \A q \in Clients : outcomeRequest'[q] = IF q = r THEN Outcome!NoHandler ELSE outcomeRequest[q]
  BY DEF OutcomeInv, Outcome!TypeOK
<1>4. OutcomeRequestOK(Outcome!NoHandler)
  BY OutcomeNoHandler DEF OutcomeRequestOK
<1>5. QED
  BY <1>1, <1>2, <1>3, <1>4 DEF OutcomeInv

\* The update finds the status that was validated, or writes nothing.
LEMMA OutcomeUpdatePreserves == ASSUME OutcomeInv, NEW r \in Clients, Outcome!Update(r) PROVE OutcomeInv'
<1>1. PICK h \in Outcome!Handler : h = outcomeRequest[r] /\ OutcomeRequestOK(h) /\ h.pc = "update"
  BY DEF Outcome!Update, OutcomeInv, Outcome!TypeOK
<1>2. PICK a \in Applications : a = h.application
  BY <1>1 DEF OutcomeRequestOK
<1>3. PICK t \in OutcomeTracked : t = tracker[a] /\ OutcomeLeads(t) /\ OutcomeClimbs(t)
  BY DEF OutcomeInv, Outcome!TypeOK, OutcomeTracked
<1>4. UNCHANGED present /\ outcomeRequest' = [outcomeRequest EXCEPT ![r] = Outcome!NoHandler]
  BY DEF Outcome!Update, Outcome!Finish
<1>5. CASE t.status = h.expected
  <2>1. tracker' = [tracker EXCEPT ![a] = Outcome!Pushed(t, t.status, h.new)]
    BY <1>1, <1>2, <1>3, <1>5 DEF Outcome!Update
  <2>2. h.new \in Outcome!OutcomeStatus /\ Outcome!Valid(t.status, h.new)
    BY <1>1, <1>5 DEF OutcomeRequestOK
  <2>3. PICK u \in OutcomeTracked : u = Outcome!Pushed(t, t.status, h.new) /\ OutcomeLeads(u) /\ OutcomeClimbs(u)
    BY <1>3, <2>2, OutcomePush
  <2>4. QED
    BY <1>4, <2>1, <2>3, OutcomeWrites
<1>6. CASE t.status # h.expected
  <2>1. UNCHANGED tracker
    BY <1>1, <1>2, <1>3, <1>6 DEF Outcome!Update
  <2>2. OutcomeRequestOK(Outcome!NoHandler)
    BY OutcomeNoHandler DEF OutcomeRequestOK
  <2>3. QED
    BY <1>4, <2>1, <2>2, OutcomeNoHandler, OutcomeMove
<1>7. QED
  BY <1>5, <1>6

LEMMA OutcomeCreatePreserves == ASSUME OutcomeInv, NEW r \in Clients, Outcome!Create(r) PROVE OutcomeInv'
<1>1. PICK h \in Outcome!Handler : h = outcomeRequest[r] /\ OutcomeRequestOK(h) /\ h.pc = "create"
  BY DEF Outcome!Create, OutcomeInv, Outcome!TypeOK
<1>2. PICK a \in Applications : a = h.application
  BY <1>1 DEF OutcomeRequestOK
<1>3. UNCHANGED present /\ outcomeRequest' = [outcomeRequest EXCEPT ![r] = Outcome!NoHandler]
  BY DEF Outcome!Create, Outcome!Finish
<1>4. CASE tracker[a] = Outcome!NoTracker
  <2>1. tracker' = [tracker EXCEPT ![a] = Outcome!Pushed(Outcome!NoTracker, Outcome!NoStatus, "applied")]
    BY <1>1, <1>2, <1>4 DEF Outcome!Create, OutcomeRequestOK
  <2>2. "applied" \in Outcome!OutcomeStatus /\ Outcome!Valid(Outcome!NoStatus, "applied")
    BY DEF Outcome!OutcomeStatus, Outcome!Valid
  <2>3. PICK u \in OutcomeTracked : /\ u = Outcome!Pushed(Outcome!NoTracker, Outcome!NoStatus, "applied")
                                    /\ OutcomeLeads(u) /\ OutcomeClimbs(u)
    BY <2>2, OutcomeNoTracker, OutcomePush
  <2>4. QED
    BY <1>3, <2>1, <2>3, OutcomeWrites
<1>5. CASE tracker[a] # Outcome!NoTracker
  <2>1. UNCHANGED tracker
    BY <1>1, <1>2, <1>5 DEF Outcome!Create
  <2>2. OutcomeRequestOK(Outcome!NoHandler)
    BY OutcomeNoHandler DEF OutcomeRequestOK
  <2>3. QED
    BY <1>3, <2>1, <2>2, OutcomeNoHandler, OutcomeMove
<1>6. QED
  BY <1>4, <1>5

LEMMA OutcomeOthersPreserve ==
    ASSUME OutcomeInv,
           \/ \E a \in Applications : Outcome!Delete(a)
           \/ Outcome!Restart
           \/ UNCHANGED outcomeVars
    PROVE  OutcomeInv'
<1>1. ASSUME NEW a \in Applications, Outcome!Delete(a) PROVE OutcomeInv'
  BY <1>1 DEF Outcome!Delete, OutcomeInv, Outcome!TypeOK
<1>2. CASE Outcome!Restart
  BY <1>2, OutcomeNoHandler DEF Outcome!Restart, OutcomeInv, Outcome!TypeOK, OutcomeRequestOK
<1>3. CASE UNCHANGED outcomeVars
  BY <1>3 DEF outcomeVars, OutcomeInv, Outcome!TypeOK
<1>4. QED
  BY <1>1, <1>2, <1>3

\* The invariant of the trackers is inductive.
LEMMA OutcomeStep == OutcomeInv /\ [Outcome!Next]_outcomeVars => OutcomeInv'
<1> SUFFICES ASSUME OutcomeInv, [Outcome!Next]_outcomeVars PROVE OutcomeInv'
  OBVIOUS
<1>1. ASSUME NEW r \in Clients, Outcome!Find(r) \/ Outcome!Update(r) \/ Outcome!Create(r)
      PROVE  OutcomeInv'
  BY <1>1, OutcomeFindPreserves, OutcomeUpdatePreserves, OutcomeCreatePreserves
<1>2. QED
  BY <1>1, OutcomeRecordPreserves, OutcomeOthersPreserve DEF Outcome!Next

\* A milestone counts where it was reached and no rejection followed.
LEMMA OutcomeRates == ASSUME OutcomeInv, NEW a \in Applications, NEW m \in DOMAIN Outcome!Milestones
                      PROVE  Outcome!Counts(a, m) <=> Outcome!Reached(a, m) /\ tracker[a].status \notin Outcome!Given
<1>1. PICK t \in OutcomeTracked : t = tracker[a] /\ OutcomeLeads(t) /\ OutcomeClimbs(t)
  BY DEF OutcomeInv, Outcome!TypeOK, OutcomeTracked
<1>2. PICK n \in Nat : n = Len(t.transitions) /\ DOMAIN t.transitions = 1..n
  BY <1>1 DEF OutcomeTracked
<1>3. m \in {"viewed", "responded", "interview_scheduled"}
  BY DEF Outcome!Milestones
<1>4. PICK w \in 2..4 : w = OutcomeRank(m)
  BY <1>3 DEF OutcomeRank
<1>5. \A s \in Outcome!OutcomeStatus \cup {Outcome!NoStatus} : s \in Outcome!Milestones[m] <=> w <= OutcomeRank(s)
  BY <1>3, <1>4 DEF Outcome!Milestones, Outcome!OutcomeStatus, Outcome!NoStatus, OutcomeRank
<1>6. Outcome!Counts(a, m) <=> w <= OutcomeRank(t.status)
  BY <1>1, <1>5 DEF Outcome!Counts, OutcomeTracked
<1>7. /\ DOMAIN Outcome!Ladder = 1..5
      /\ \A i \in 1..5 : OutcomeRank(Outcome!Ladder[i]) = i /\ (Outcome!Ladder[i] = m <=> i = w)
  BY <1>3, <1>4 DEF Outcome!Ladder, OutcomeRank
<1>8. Outcome!Reached(a, m) <=> \E j \in 1..n : w <= OutcomeRank(t.transitions[j].new)
  <2>1. ASSUME Outcome!Reached(a, m) PROVE \E j \in 1..n : w <= OutcomeRank(t.transitions[j].new)
    <3>1. PICK j \in 1..n, i \in 1..5 : /\ t.transitions[j].new = Outcome!Ladder[i]
                                        /\ \E k \in 1..i : Outcome!Ladder[k] = m
      BY <1>1, <1>2, <1>7, <2>1 DEF Outcome!Reached
    <3>2. PICK k \in 1..i : Outcome!Ladder[k] = m
      BY <3>1
    <3>3. k = w
      BY <1>7, <3>2
    <3>4. QED
      BY <1>7, <3>1, <3>2, <3>3
  <2>2. ASSUME NEW j \in 1..n, w <= OutcomeRank(t.transitions[j].new) PROVE Outcome!Reached(a, m)
    <3>1. PICK s \in Outcome!OutcomeStatus : s = t.transitions[j].new
      <4>1. t.transitions \in Seq(Outcome!Transition) /\ j \in 1..Len(t.transitions)
        BY <1>2 DEF OutcomeTracked
      <4>2. t.transitions[j] \in Outcome!Transition
        BY <4>1
      <4>3. QED
        BY <4>2 DEF Outcome!Transition
    <3>2. PICK i \in 1..5 : i = OutcomeRank(s) /\ w <= i
      BY <2>2, <3>1, OutcomeRankType
    <3>3. Outcome!Ladder[i] = s
      BY <3>1, <3>2 DEF Outcome!Ladder, OutcomeRank, Outcome!OutcomeStatus
    <3>4. w \in 1..i /\ Outcome!Ladder[w] = m
      BY <1>7, <3>2
    <3>5. QED
      BY <1>1, <1>2, <1>7, <3>1, <3>3, <3>4 DEF Outcome!Reached
  <2>3. QED
    BY <2>1, <2>2
<1>9. CASE t.status \in Outcome!Given
  BY <1>1, <1>4, <1>6, <1>9 DEF Outcome!Given, OutcomeRank
<1>10. CASE t.status \notin Outcome!Given
  <2>1. ASSUME w <= OutcomeRank(t.status) PROVE \E j \in 1..n : w <= OutcomeRank(t.transitions[j].new)
    <3>1. t.status # Outcome!NoStatus
      BY <1>4, <2>1 DEF OutcomeRank, Outcome!NoStatus
    <3>2. n # 0
      BY <1>1, <1>2, <3>1 DEF OutcomeLeads, Outcome!NoTracker
    <3>3. n \in 1..n /\ t.status = t.transitions[n].new
      BY <1>1, <1>2, <3>2 DEF OutcomeLeads
    <3>4. QED
      BY <2>1, <3>3
  <2>2. ASSUME NEW j \in 1..n, w <= OutcomeRank(t.transitions[j].new) PROVE w <= OutcomeRank(t.status)
    <3>1. OutcomeRank(t.transitions[j].new) <= OutcomeRank(t.status)
      BY <1>1, <1>2, <1>10 DEF OutcomeClimbs
    <3>2. OutcomeRank(t.transitions[j].new) \in Int /\ OutcomeRank(t.status) \in Int
      BY OutcomeRankType
    <3>3. QED
      BY <2>2, <3>1, <3>2
  <2>3. QED
    BY <1>1, <1>6, <1>8, <1>10, <2>1, <2>2
<1>11. QED
  BY <1>9, <1>10

LEMMA OutcomeTells == OutcomeInv => Outcome!TransitionsLeadToStatus /\ Outcome!RatesTellHistory
BY OutcomeRates DEF OutcomeInv, Outcome!TransitionsLeadToStatus, OutcomeLeads, Outcome!RatesTellHistory

-----------------------------------------------------------------------------
\* Outcomes of negotiations: record_outcome and get_anonymized_benchmarks of
\* offer_repository.py.

\* A request that is to save h, a whole document, over the offers of.
DealsRequestOK(h, of) ==
    h.pc = "save" =>
      /\ h.offer \in Offers
      /\ h.document.recorded
      /\ h.offer \notin overlapped /\ of[h.offer].family # Deals!NotGiven =>
           h.document.family # Deals!NotGiven

DealsInv ==
    /\ Deals!TypeOK
    /\ \A r \in Clients : DealsRequestOK(offerHandler[r], offer)
    /\ \A r, q \in Clients :
         /\ offerHandler[r].pc = "save" /\ offerHandler[q].pc = "save"
         /\ offerHandler[r].offer = offerHandler[q].offer /\ r # q
         => offerHandler[r].offer \in overlapped
    /\ Deals!FamilyKept

LEMMA DealsDefaults ==
    /\ Deals!NoOffer \in Deals!Offer
    /\ Deals!NoHandler \in Deals!Handler /\ Deals!NoHandler.pc = "idle"
BY DEF Deals!NoOffer, Deals!Offer, Deals!NoHandler, Deals!Handler

LEMMA DealsInit == Deals!Init => DealsInv
<1> SUFFICES ASSUME Deals!Init PROVE DealsInv
  OBVIOUS
<1>1. Deals!TypeOK
  BY DealsDefaults DEF Deals!Init, Deals!TypeOK
<1>2. QED
  BY <1>1, DealsDefaults DEF Deals!Init, DealsInv, DealsRequestOK, Deals!FamilyKept

\* A request takes the offer up, with what it has or was given.
LEMMA DealsReadPreserves ==
    ASSUME DealsInv, NEW r \in Clients, NEW o \in Offers,
           NEW f \in Families \cup {Deals!NotGiven}, NEW g \in Stages \cup {Deals!NotGiven},
           Deals!Read(r, o, f, g)
    PROVE  DealsInv'
<1>1. PICK d : d = [recorded |-> TRUE, family |-> Deals!Filled(f, offer[o].family),
                    stage |-> Deals!Filled(g, offer[o].stage)]
  OBVIOUS
<1>2. PICK x : x = [pc |-> "save", offer |-> o, document |-> d]
  OBVIOUS
<1>3. offerHandler' = [offerHandler EXCEPT ![r] = x] /\ UNCHANGED <<offer, named>>
  BY <1>1, <1>2 DEF Deals!Read
<1>4. offer[o] \in Deals!Offer
  BY DEF DealsInv, Deals!TypeOK
<1>5. /\ d \in Deals!Offer /\ d.recorded
      /\ offer[o].family # Deals!NotGiven => d.family # Deals!NotGiven
  BY <1>1, <1>4 DEF Deals!Offer, Deals!Filled
<1>6. x \in Deals!Handler /\ x.pc = "save" /\ x.offer = o /\ x.document = d
  BY <1>2, <1>5 DEF Deals!Handler
<1>7. overlapped \subseteq overlapped' /\ overlapped' \subseteq overlapped \cup {o}
  BY DEF Deals!Read
<1>8. \A q \in Clients : offerHandler[q].offer = o => o \in overlapped'
  BY DEF Deals!Read
<1>9. \A q \in Clients : offerHandler'[q] = IF q = r THEN x ELSE offerHandler[q]
  BY <1>3 DEF DealsInv, Deals!TypeOK
<1>10. Deals!TypeOK'
  BY <1>3, <1>6, <1>7 DEF DealsInv, Deals!TypeOK
<1>11. \A q \in Clients : DealsRequestOK(offerHandler[q], offer)'
  BY <1>3, <1>5, <1>6, <1>7, <1>9 DEF DealsInv, DealsRequestOK
<1>12. ASSUME NEW p \in Clients, NEW q \in Clients,
              offerHandler'[p].pc = "save", offerHandler'[q].pc = "save",
              offerHandler'[p].offer = offerHandler'[q].offer, p # q
       PROVE  offerHandler'[p].offer \in overlapped'
  <2>1. CASE p # r /\ q # r
    BY <1>7, <1>9, <1>12, <2>1 DEF DealsInv
  <2>2. CASE p = r \/ q = r
    BY <1>6, <1>8, <1>9, <1>12, <2>2
  <2>3. QED
    BY <2>1, <2>2
<1>13. Deals!FamilyKept'
  BY <1>3, <1>7 DEF DealsInv, Deals!FamilyKept
<1>14. QED
  BY <1>10, <1>11, <1>12, <1>13 DEF DealsInv

\* The document that is saved keeps the family of an offer no other request took
\* up.
LEMMA DealsSavePreserves == ASSUME DealsInv, NEW r \in Clients, Deals!Save(r) PROVE DealsInv'
<1>1. PICK h \in Deals!Handler : h = offerHandler[r] /\ DealsRequestOK(h, offer) /\ h.pc = "save"
  BY DEF Deals!Save, DealsInv, Deals!TypeOK
<1>2. PICK o \in Offers : o = h.offer
  BY <1>1 DEF DealsRequestOK
<1>3. PICK d \in Deals!Offer : d = h.document
  BY <1>1 DEF Deals!Handler
<1>4. /\ offer' = [offer EXCEPT ![o] = d]
      /\ offerHandler' = [offerHandler EXCEPT ![r] = Deals!NoHandler]
      /\ UNCHANGED overlapped
      /\ named' = IF d.family = Deals!NotGiven THEN named ELSE named \cup {o}
  BY <1>1, <1>2, <1>3 DEF Deals!Save
<1>5. \A p \in Offers : offer'[p] = IF p = o THEN d ELSE offer[p]
  BY <1>4 DEF DealsInv, Deals!TypeOK
<1>6. \A q \in Clients : offerHandler'[q] = IF q = r THEN Deals!NoHandler ELSE offerHandler[q]
  BY <1>4 DEF DealsInv, Deals!TypeOK
<1>7. Deals!TypeOK'
  BY <1>4, DealsDefaults DEF DealsInv, Deals!TypeOK
<1>8. ASSUME NEW q \in Clients PROVE DealsRequestOK(offerHandler[q], offer)'
  <2>1. CASE q = r
    BY <1>6, <2>1, DealsDefaults DEF DealsRequestOK
  <2>2. CASE q # r
    <3>1. offerHandler'[q] = offerHandler[q] /\ DealsRequestOK(offerHandler[q], offer)
      BY <1>6, <2>2 DEF DealsInv
    <3>2. offerHandler[q].pc = "save" /\ offerHandler[q].offer = o => o \in overlapped
      BY <1>1, <1>2, <2>2 DEF DealsInv
    <3>3. QED
      BY <1>4, <1>5, <3>1, <3>2 DEF DealsRequestOK
  <2>3. QED
    BY <2>1, <2>2
<1>9. \A p, q \in Clients :
        /\ offerHandler'[p].pc = "save" /\ offerHandler'[q].pc = "save"
        /\ offerHandler'[p].offer = offerHandler'[q].offer /\ p # q
        => offerHandler'[p].offer \in overlapped'
  BY <1>4, <1>6, DealsDefaults DEF DealsInv
<1>10. ASSUME NEW p \in named' PROVE offer'[p].recorded /\ (offer'[p].family = Deals!NotGiven => p \in overlapped')
  <2>1. p \in Offers
    BY <1>7 DEF Deals!TypeOK
  <2>2. CASE p # o
    BY <1>4, <1>5, <2>1, <2>2 DEF DealsInv, Deals!FamilyKept
  <2>3. CASE p = o
    <3>1. offer'[p] = d /\ d.recorded
      BY <1>1, <1>3, <1>5, <2>1, <2>3 DEF DealsRequestOK
    <3>2. ASSUME d.family = Deals!NotGiven, o \notin overlapped PROVE FALSE
      <4>1. o \in named
        BY <1>4, <1>10, <2>3, <3>2
      <4>2. offer[o].family # Deals!NotGiven
        BY <3>2, <4>1 DEF DealsInv, Deals!FamilyKept
      <4>3. QED
        BY <1>1, <1>2, <1>3, <3>2, <4>2 DEF DealsRequestOK
    <3>3. QED
      BY <1>4, <2>3, <3>1, <3>2
  <2>4. QED
    BY <2>2, <2>3
<1>11. Deals!FamilyKept'
  BY <1>10 DEF Deals!FamilyKept
<1>12. QED
  BY <1>7, <1>8, <1>9, <1>11 DEF DealsInv

LEMMA DealsOthersPreserve == ASSUME DealsInv, Deals!Restart \/ UNCHANGED offerVars PROVE DealsInv'
<1>1. CASE Deals!Restart
  BY <1>1, DealsDefaults DEF Deals!Restart, DealsInv, Deals!TypeOK, DealsRequestOK, Deals!FamilyKept
<1>2. CASE UNCHANGED offerVars
  BY <1>2 DEF offerVars, DealsInv, Deals!TypeOK, DealsRequestOK, Deals!FamilyKept
<1>3. QED
  BY <1>1, <1>2

\* The invariant of the outcomes of negotiations is inductive.
LEMMA DealsStep == DealsInv /\ [Deals!Next]_offerVars => DealsInv'
<1> SUFFICES ASSUME DealsInv, [Deals!Next]_offerVars PROVE DealsInv'
  OBVIOUS
<1>1. QED
  BY DealsReadPreserves, DealsSavePreserves, DealsOthersPreserve DEF Deals!Next

\* A group of outcomes is served where it has enough users, and a group with a
\* stage that was asked for is all that fits.
LEMMA DealsShared == Deals!BenchmarkIsShared
<1> SUFFICES ASSUME NEW family \in Families, NEW stage \in Stages \cup {Deals!NotGiven},
                    NEW b \in Deals!Benchmarks(family, stage)
             PROVE  LET fitting == {o \in Offers : Deals!Fits(o, family, stage)}
                    IN  /\ b.available =>
                             /\ b.group \subseteq fitting
                             /\ Deals!Cardinality(Deals!Users(b.group)) >= MinCohort
                             /\ \A o, p \in b.group : offer[o].stage = offer[p].stage
                        /\ stage # Deals!NotGiven /\ Deals!Cardinality(Deals!Users(fitting)) >= MinCohort =>
                             b.available
  BY DEF Deals!BenchmarkIsShared
<1> DEFINE fitting == {o \in Offers : Deals!Fits(o, family, stage)}
<1>1. fitting = Deals!Matching(family, stage)
  BY DEF Deals!Fits, Deals!Matching
<1>2. PICK group : /\ group \in IF Deals!Groups(family, stage) = {} THEN {{}} ELSE Deals!Groups(family, stage)
                   /\ b = [group |-> group,
                           available |-> Deals!Cardinality(Deals!Cohort(group)) >= MinCohort]
  BY DEF Deals!Benchmarks
<1>3. b.group = group /\ (b.available <=> Deals!Cardinality(Deals!Users(group)) >= MinCohort)
  BY <1>2 DEF Deals!Cohort, Deals!Users
<1>4. group \subseteq fitting /\ \A o, p \in group : offer[o].stage = offer[p].stage
  BY <1>1, <1>2 DEF Deals!Groups
<1>5. ASSUME stage # Deals!NotGiven PROVE group = fitting
  <2>1. \A o \in fitting : offer[o].stage = stage
    BY <1>1, <1>5 DEF Deals!Matching
  <2>2. CASE fitting = {}
    BY <1>4, <2>2
  <2>3. CASE fitting # {}
    <3>1. PICK p \in fitting : group = {o \in fitting : offer[o].stage = offer[p].stage}
      <4>1. \A p \in fitting : {o \in fitting : offer[o].stage = offer[p].stage} \in Deals!Groups(family, stage)
        BY <1>1 DEF Deals!Groups
      <4>2. group \in Deals!Groups(family, stage)
        BY <1>2, <2>3, <4>1
      <4>3. QED
        BY <1>1, <4>2 DEF Deals!Groups
    <3>2. QED
      BY <2>1, <3>1
  <2>4. QED
    BY <2>2, <2>3
<1>6. QED
  BY <1>3, <1>4, <1>5

LEMMA DealsTells == DealsInv => Deals!BenchmarkIsShared /\ Deals!FamilyKept
BY DealsShared DEF DealsInv

-----------------------------------------------------------------------------
\* Job sources and shortlists: record_check of data_source_health_repository.py
\* and _generate_all_shortlists of discovery_tasks.py.

\* The workers that found no shortlist of day d and have yet to make one.
SourcesMakers(d) == {w \in Makers : making[w].pc \in {"query", "create"} /\ making[w].date = d}

\* Workers that make shortlists for one day overlap, and there was a profile.
SourcesMakingOK ==
    /\ \A w \in Makers : making[w].pc # "idle" => making[w].preferences # 0
    /\ \A v, w \in Makers :
         /\ making[v].pc # "idle" /\ making[w].pc # "idle" /\ v # w
         /\ making[v].date = making[w].date
         => making[v].date \in overlappedDays

SourcesMost(d) == IF d \in overlappedDays THEN Cardinality(Makers) ELSE 1

SourcesInv ==
    /\ Sources!TypeOK
    /\ failed \in [Sources!Sources -> Nat]
    /\ Sources!StatusTellsChecks
    /\ SourcesMakingOK
    /\ \A d \in Sources!Days :
         Len(shortlists[d]) + Cardinality(SourcesMakers(d)) <= SourcesMost(d)

LEMMA SourcesDefaults ==
    /\ SourceDays \in Nat \ {0} /\ MaxEdits \in Nat /\ MaxFailures \in Nat
    /\ Len(Registry) \in Nat \ {0} /\ DOMAIN Registry = 1..Len(Registry)
    /\ 1 \in DOMAIN Registry /\ 1 \in Sources!Days
    /\ Sources!NoHealth \in Sources!Health /\ Sources!NoCheck \in Sources!Check
    /\ Sources!NoMaking \in Sources!Making /\ Sources!NoMaking.pc = "idle"
    /\ \A S : Sources!Cardinality(S) = Cardinality(S)
<1>1. /\ SourceDays \in Nat \ {0} /\ MaxEdits \in Nat /\ MaxFailures \in Nat
      /\ Len(Registry) \in Nat \ {0} /\ DOMAIN Registry = 1..Len(Registry)
  BY SourceDaysAssumption, EditsAssumption, FailuresAssumption, RegistryAssumption
<1>2. 1 \in DOMAIN Registry /\ 1 \in Sources!Days /\ 0 \in 0..MaxFailures /\ 0 \in 0..MaxEdits
  BY <1>1 DEF Sources!Days
<1>3. Sources!NoHealth \in Sources!Health
  BY <1>2 DEF Sources!NoHealth, Sources!Health
<1>4. Sources!NoCheck \in Sources!Check
  BY <1>2, <1>3 DEF Sources!NoCheck, Sources!Check
<1>5. Sources!NoMaking \in Sources!Making /\ Sources!NoMaking.pc = "idle"
  BY <1>2 DEF Sources!NoMaking, Sources!Making
<1>6. \A S : Sources!Cardinality(S) = Cardinality(S)
  BY DEF Sources!Cardinality, Cardinality
<1>7. QED
  BY <1>1, <1>2, <1>3, <1>4, <1>5, <1>6

\* As many workers as there are at most are to make a shortlist.
LEMMA SourcesMakersFinite ==
    \A d : /\ IsFiniteSet(SourcesMakers(d))
           /\ Cardinality(SourcesMakers(d)) \in Nat
           /\ Cardinality(SourcesMakers(d)) <= Cardinality(Makers)
           /\ Cardinality(Makers) \in Nat
<1> SUFFICES ASSUME NEW d
             PROVE  /\ IsFiniteSet(SourcesMakers(d))
                    /\ Cardinality(SourcesMakers(d)) \in Nat
                    /\ Cardinality(SourcesMakers(d)) <= Cardinality(Makers)
                    /\ Cardinality(Makers) \in Nat
  OBVIOUS
<1>1. SourcesMakers(d) \subseteq Makers
  BY DEF SourcesMakers
<1>2. QED
  BY <1>1, MakersAssumption, FS_Subset, FS_CardinalityType

LEMMA SourcesInit == Sources!Init => SourcesInv
<1> SUFFICES ASSUME Sources!Init PROVE SourcesInv
  OBVIOUS
<1> USE DEF Sources!Init
<1>1. Sources!TypeOK
  <2>1. health \in [Sources!Sources -> Sources!Health] /\ check \in [Checkers -> Sources!Check]
        /\ making \in [Makers -> Sources!Making]
    BY SourcesDefaults
  <2>2. shortlists \in [Sources!Days -> Seq(Sources!Shortlist)]
    OBVIOUS
  <2>3. shortlistDay \in Sources!Days /\ preferences \in 0..MaxEdits
    BY SourcesDefaults
  <2>4. QED
    BY <2>1, <2>2, <2>3 DEF Sources!TypeOK
<1>2. failed \in [Sources!Sources -> Nat]
  OBVIOUS
<1>3. Sources!StatusTellsChecks
  BY DEF Sources!StatusTellsChecks, Sources!NoHealth
<1>4. SourcesMakingOK
  BY SourcesDefaults DEF SourcesMakingOK
<1>5. ASSUME NEW d \in Sources!Days
      PROVE  Len(shortlists[d]) + Cardinality(SourcesMakers(d)) <= SourcesMost(d)
  <2>1. SourcesMakers(d) = {}
    BY SourcesDefaults DEF SourcesMakers
  <2>2. Cardinality(SourcesMakers(d)) = 0 /\ Len(shortlists[d]) = 0
    BY <2>1, FS_EmptySet
  <2>3. QED
    BY <2>2 DEF SourcesMost
<1>6. QED
  BY <1>1, <1>2, <1>3, <1>4, <1>5 DEF SourcesInv

\* A step of a check: the shortlists and those who make them stay as they are.
LEMMA SourcesCheckMove ==
    ASSUME SourcesInv, NEW w \in Checkers, NEW x \in Sources!Check,
           check' = [check EXCEPT ![w] = x], Sources!OnlyCheck,
           health' \in [Sources!Sources -> Sources!Health], failed' \in [Sources!Sources -> Nat],
           tangled' \subseteq Sources!Sources, Sources!StatusTellsChecks'
    PROVE  SourcesInv'
<1>1. UNCHANGED <<shortlistDay, preferences, shortlists, making, overlappedDays>>
  BY DEF Sources!OnlyCheck
<1>2. Sources!TypeOK'
  BY <1>1 DEF SourcesInv, Sources!TypeOK
<1>3. \A d : SourcesMakers(d)' = SourcesMakers(d) /\ SourcesMost(d)' = SourcesMost(d)
  BY <1>1 DEF SourcesMakers, SourcesMost
<1>4. \A d \in Sources!Days :
        (Len(shortlists[d]) + Cardinality(SourcesMakers(d)) <= SourcesMost(d))'
  BY <1>1, <1>3 DEF SourcesInv
<1>5. QED
  BY <1>1, <1>2, <1>4 DEF SourcesInv, SourcesMakingOK

\* A check goes on without recording anything.
LEMMA SourcesCheckGoes ==
    ASSUME SourcesInv, NEW w \in Checkers, NEW x \in Sources!Check,
           check' = [check EXCEPT ![w] = x], Sources!OnlyCheck, UNCHANGED <<health, failed, tangled>>
    PROVE  SourcesInv'
BY SourcesCheckMove DEF SourcesInv, Sources!TypeOK, Sources!StatusTellsChecks

LEMMA SourcesBeginCheckPreserves ==
    ASSUME SourcesInv, NEW w \in Checkers, Sources!BeginCheck(w) PROVE SourcesInv'
<1>1. PICK x : x = [Sources!NoCheck EXCEPT !.pc = "read"]
  OBVIOUS
<1>2. x \in Sources!Check
  BY <1>1, SourcesDefaults DEF Sources!Check
<1>3. QED
  BY <1>1, <1>2, SourcesCheckGoes DEF Sources!BeginCheck

\* The source of a check is one of the registry.
LEMMA SourcesSource ==
    ASSUME SourcesInv, NEW w \in Checkers
    PROVE  check[w] \in Sources!Check /\ Sources!Source(w) \in Sources!Sources
BY DEF SourcesInv, Sources!TypeOK, Sources!Check, Sources!Source, Sources!Sources

LEMMA SourcesReadPreserves ==
    ASSUME SourcesInv, NEW w \in Checkers, NEW success \in BOOLEAN, Sources!Read(w, success)
    PROVE  SourcesInv'
<1>1. PICK c \in Sources!Check : c = check[w]
  BY SourcesSource
<1>2. PICK h \in Sources!Health : h = health[Sources!Source(w)]
  BY SourcesSource DEF SourcesInv, Sources!TypeOK
<1>3. PICK x : x = [c EXCEPT !.pc = "write", !.success = success, !.read = h]
  OBVIOUS
<1>4. check' = [check EXCEPT ![w] = x]
  BY <1>1, <1>2, <1>3 DEF Sources!Read, SourcesInv, Sources!TypeOK, Sources!Check
<1>5. x \in Sources!Check
  BY <1>3 DEF Sources!Check
<1>6. QED
  BY <1>4, <1>5, SourcesCheckGoes DEF Sources!Read

\* The next source of a check, or its end.
LEMMA SourcesAdvanced == ASSUME NEW c \in Sources!Check PROVE Sources!Advanced(c) \in Sources!Check
<1>1. PICK n \in 1..Len(Registry) : n = c.next
  BY SourcesDefaults DEF Sources!Check
<1>2. CASE n = Len(Registry)
  BY <1>1, <1>2, SourcesDefaults DEF Sources!Advanced
<1>3. CASE n # Len(Registry)
  <2>1. n + 1 \in DOMAIN Registry
    BY <1>1, <1>3, SourcesDefaults
  <2>2. Sources!Advanced(c) = [Sources!NoCheck EXCEPT !.pc = "read", !.next = n + 1]
    BY <1>1, <1>3 DEF Sources!Advanced
  <2>3. QED
    BY <2>1, <2>2, SourcesDefaults DEF Sources!Check
<1>4. QED
  BY <1>2, <1>3

\* What a check records: a success ends the count, a failure adds to what was
\* read.
LEMMA SourcesRecorded ==
    ASSUME NEW now \in Sources!Health, NEW read \in Sources!Health, NEW success \in BOOLEAN,
           ~success => read.failures < MaxFailures
    PROVE  /\ Sources!Recorded(now, read, success) \in Sources!Health
           /\ Sources!Recorded(now, read, success).failures = IF success THEN 0 ELSE read.failures + 1
           /\ Sources!Recorded(now, read, success).status =
                IF success THEN (IF read.status # "healthy" THEN "healthy" ELSE now.status)
                ELSE IF read.failures + 1 >= 3 THEN "down" ELSE "degraded"
<1>1. CASE success
  <2>1. PICK s \in {"healthy", "degraded", "down"} :
           s = IF read.status # "healthy" THEN "healthy" ELSE now.status
    BY DEF Sources!Health
  <2>2. Sources!Recorded(now, read, success) = [now EXCEPT !.stored = TRUE, !.failures = 0, !.status = s]
    BY <1>1, <2>1 DEF Sources!Recorded, Sources!Health
  <2>3. 0 \in 0..MaxFailures
    BY SourcesDefaults
  <2>4. QED
    BY <1>1, <2>1, <2>2, <2>3 DEF Sources!Health
<1>2. CASE ~success
  <2>1. PICK n \in 0..MaxFailures : n = read.failures + 1
    BY <1>2, SourcesDefaults DEF Sources!Health
  <2>2. PICK s \in {"degraded", "down"} : s = IF n >= 3 THEN "down" ELSE "degraded"
    OBVIOUS
  <2>3. Sources!Recorded(now, read, success) = [now EXCEPT !.stored = TRUE, !.failures = n, !.status = s]
    BY <1>2, <2>1, <2>2 DEF Sources!Recorded
  <2>4. QED
    BY <1>2, <2>1, <2>2, <2>3 DEF Sources!Health
<1>3. QED
  BY <1>1, <1>2

\* A check that read what the document still says counts right.
LEMMA SourcesWritePreserves ==
    ASSUME SourcesInv, NEW w \in Checkers, Sources!Write(w) PROVE SourcesInv'
<1>1. PICK c \in Sources!Check : c = check[w]
  BY SourcesSource
<1>2. PICK s \in Sources!Sources : s = Sources!Source(w)
  BY SourcesSource
<1>3. PICK now \in Sources!Health : now = health[s]
  BY DEF SourcesInv, Sources!TypeOK
<1>4. PICK read \in Sources!Health : read = c.read
  BY DEF Sources!Check
<1>5. PICK success \in BOOLEAN : success = c.success
  BY DEF Sources!Check
<1>6. PICK current \in BOOLEAN :
         current = ([now EXCEPT !.disabled = FALSE] = [read EXCEPT !.disabled = FALSE])
  OBVIOUS
<1>7. PICK r : r = Sources!Recorded(now, read, success)
  OBVIOUS
<1>8. /\ ~success => read.failures < MaxFailures
      /\ health' = [health EXCEPT ![s] = r]
      /\ failed' = [failed EXCEPT ![s] = IF success THEN 0 ELSE @ + 1]
      /\ tangled' = IF ~current THEN tangled \cup {s}
                    ELSE IF success THEN tangled \ {s} ELSE tangled
      /\ check' = [check EXCEPT ![w] = Sources!Advanced(c)]
      /\ Sources!OnlyCheck
  BY <1>1, <1>2, <1>3, <1>4, <1>5, <1>6, <1>7 DEF Sources!Write
<1>9. /\ r \in Sources!Health
      /\ r.failures = IF success THEN 0 ELSE read.failures + 1
      /\ r.status = IF success THEN (IF read.status # "healthy" THEN "healthy" ELSE now.status)
                    ELSE IF read.failures + 1 >= 3 THEN "down" ELSE "degraded"
  <2>1. ~success => read.failures < MaxFailures
    BY <1>8
  <2>2. /\ Sources!Recorded(now, read, success) \in Sources!Health
        /\ Sources!Recorded(now, read, success).failures = IF success THEN 0 ELSE read.failures + 1
        /\ Sources!Recorded(now, read, success).status =
             IF success THEN (IF read.status # "healthy" THEN "healthy" ELSE now.status)
             ELSE IF read.failures + 1 >= 3 THEN "down" ELSE "degraded"
    BY <2>1, SourcesRecorded
  <2>3. QED
    BY <1>7, <2>2
<1>10. health \in [Sources!Sources -> Sources!Health] /\ failed \in [Sources!Sources -> Nat]
       /\ tangled \subseteq Sources!Sources
  BY DEF SourcesInv, Sources!TypeOK
<1>11. health' \in [Sources!Sources -> Sources!Health] /\ failed' \in [Sources!Sources -> Nat]
       /\ tangled' \subseteq Sources!Sources
  BY <1>8, <1>9, <1>10
<1>12. current => now.status = read.status /\ now.failures = read.failures
  <2>1. [now EXCEPT !.disabled = FALSE].status = now.status /\ [now EXCEPT !.disabled = FALSE].failures = now.failures
    BY DEF Sources!Health
  <2>2. [read EXCEPT !.disabled = FALSE].status = read.status /\ [read EXCEPT !.disabled = FALSE].failures = read.failures
    BY DEF Sources!Health
  <2>3. QED
    BY <1>6, <2>1, <2>2
<1>13. ASSUME NEW q \in Sources!Sources \ tangled'
       PROVE  /\ health'[q].failures = failed'[q]
              /\ health'[q].status = CASE health'[q].failures = 0 -> "healthy"
                                       [] health'[q].failures \in 1..2 -> "degraded"
                                       [] health'[q].failures > 2 -> "down"
  <2>1. CASE q # s
    <3>1. q \in Sources!Sources \ tangled /\ health'[q] = health[q] /\ failed'[q] = failed[q]
      BY <1>8, <1>10, <1>13, <2>1
    <3>2. QED
      BY <3>1 DEF SourcesInv, Sources!StatusTellsChecks
  <2>2. CASE q = s
    <3>1. current /\ (~success => s \notin tangled)
      BY <1>8, <1>13, <2>2
    <3>2. health'[q] = r /\ failed'[q] = IF success THEN 0 ELSE failed[s] + 1
      BY <1>8, <1>10, <2>2
    <3>3. CASE success
      BY <1>9, <1>12, <3>1, <3>2, <3>3
    <3>4. CASE ~success
      <4>1. now.failures = failed[s] /\ failed[s] \in Nat
        BY <1>3, <1>10, <3>1, <3>4 DEF SourcesInv, Sources!StatusTellsChecks
      <4>2. PICK n \in Nat : n = read.failures /\ n = failed[s]
        BY <1>12, <3>1, <4>1
      <4>3. r.failures = n + 1 /\ r.status = IF n + 1 >= 3 THEN "down" ELSE "degraded"
        BY <1>9, <3>4, <4>2
      <4>4. QED
        BY <3>2, <3>4, <4>2, <4>3
    <3>5. QED
      BY <3>3, <3>4
  <2>3. QED
    BY <2>1, <2>2
<1>14. Sources!StatusTellsChecks'
  BY <1>13 DEF Sources!StatusTellsChecks
<1>15. QED
  BY <1>8, <1>11, <1>14, SourcesAdvanced, SourcesCheckMove

LEMMA SourcesRecordRaisesPreserves ==
    ASSUME SourcesInv, NEW w \in Checkers, Sources!RecordRaises(w) PROVE SourcesInv'
<1>1. PICK c \in Sources!Check : c = check[w]
  BY SourcesSource
<1>2. PICK x : x = IF c.again THEN Sources!NoCheck
                   ELSE [Sources!NoCheck EXCEPT !.pc = "read", !.next = c.next, !.again = TRUE]
  OBVIOUS
<1>3. check' = [check EXCEPT ![w] = x]
  BY <1>1, <1>2 DEF Sources!RecordRaises
<1>4. x \in Sources!Check
  BY <1>2, SourcesDefaults DEF Sources!Check
<1>5. QED
  BY <1>3, <1>4, SourcesCheckGoes DEF Sources!RecordRaises

\* Nothing of the shortlists changes.
LEMMA SourcesListsStay ==
    ASSUME SourcesInv, UNCHANGED <<shortlists, making, overlappedDays>>
    PROVE  /\ SourcesMakingOK'
           /\ \A d \in Sources!Days :
                (Len(shortlists[d]) + Cardinality(SourcesMakers(d)) <= SourcesMost(d))'
<1>1. \A d : SourcesMakers(d)' = SourcesMakers(d) /\ SourcesMost(d)' = SourcesMost(d)
  BY DEF SourcesMakers, SourcesMost
<1>2. QED
  BY <1>1 DEF SourcesInv, SourcesMakingOK

LEMMA SourcesTogglePreserves ==
    ASSUME SourcesInv, NEW s \in Sources!Sources, NEW disabled \in BOOLEAN, Sources!Toggle(s, disabled)
    PROVE  SourcesInv'
<1>1. /\ health' = [health EXCEPT ![s].disabled = disabled]
      /\ UNCHANGED <<shortlistDay, preferences, shortlists, check, making, failed, tangled, overlappedDays>>
  BY DEF Sources!Toggle
<1>2. PICK h \in Sources!Health : h = health[s]
  BY DEF SourcesInv, Sources!TypeOK
<1>3. PICK x : x = [h EXCEPT !.disabled = disabled]
  OBVIOUS
<1>4. x \in Sources!Health /\ x.status = h.status /\ x.failures = h.failures
  BY <1>3 DEF Sources!Health
<1>5. health' = [health EXCEPT ![s] = x]
  BY <1>1, <1>2, <1>3 DEF SourcesInv, Sources!TypeOK
<1>6. health' \in [Sources!Sources -> Sources!Health]
  BY <1>4, <1>5 DEF SourcesInv, Sources!TypeOK
<1>7. Sources!TypeOK'
  BY <1>1, <1>6 DEF SourcesInv, Sources!TypeOK
<1>8. \A q \in Sources!Sources : health'[q].status = health[q].status /\ health'[q].failures = health[q].failures
  BY <1>2, <1>4, <1>5 DEF SourcesInv, Sources!TypeOK
<1>9. Sources!StatusTellsChecks'
  BY <1>1, <1>8 DEF SourcesInv, Sources!StatusTellsChecks
<1>10. QED
  BY <1>1, <1>7, <1>9, SourcesListsStay DEF SourcesInv

\* Whoever is to make a shortlist after a step of worker w.
LEMMA SourcesMakingMove ==
    ASSUME SourcesInv, NEW w \in Makers, NEW x \in Sources!Making, Sources!OnlyMaking,
           making' = [making EXCEPT ![w] = x], overlappedDays' \subseteq Sources!Days,
           overlappedDays \subseteq overlappedDays',
           shortlists' \in [Sources!Days -> Seq(Sources!Shortlist)],
           x.pc # "idle" => x.preferences # 0,
           \A v \in Makers \ {w} :
             making[v].pc # "idle" /\ x.pc # "idle" /\ making[v].date = x.date => x.date \in overlappedDays',
           \A d \in Sources!Days :
             (Len(shortlists[d]) + Cardinality(SourcesMakers(d)) <= SourcesMost(d))'
    PROVE  SourcesInv'
<1>1. UNCHANGED <<shortlistDay, health, preferences, check, failed, tangled>>
  BY DEF Sources!OnlyMaking
<1>2. Sources!TypeOK'
  BY <1>1 DEF SourcesInv, Sources!TypeOK
<1>3. \A v \in Makers : making'[v] = IF v = w THEN x ELSE making[v]
  BY DEF SourcesInv, Sources!TypeOK
<1>4. SourcesMakingOK'
  BY <1>3 DEF SourcesInv, SourcesMakingOK
<1>5. Sources!StatusTellsChecks'
  BY <1>1 DEF SourcesInv, Sources!StatusTellsChecks
<1>6. QED
  BY <1>1, <1>2, <1>4, <1>5 DEF SourcesInv

\* The makers of a day after a step of w: w is one of them or not.
LEMMA SourcesMakersMove ==
    ASSUME SourcesInv, NEW w \in Makers, NEW x, making' = [making EXCEPT ![w] = x], NEW d
    PROVE  SourcesMakers(d)' = IF x.pc \in {"query", "create"} /\ x.date = d
                               THEN SourcesMakers(d) \cup {w} ELSE SourcesMakers(d) \ {w}
<1>1. \A v \in Makers : making'[v] = IF v = w THEN x ELSE making[v]
  BY DEF SourcesInv, Sources!TypeOK
<1>2. QED
  BY <1>1 DEF SourcesMakers

\* A step after which no more are to make a shortlist, and none was made.
LEMMA SourcesMakersKeep ==
    ASSUME SourcesInv, NEW d \in Sources!Days, UNCHANGED shortlists,
           overlappedDays \subseteq overlappedDays', SourcesMakers(d)' \subseteq SourcesMakers(d),
           Makers # {}
    PROVE  (Len(shortlists[d]) + Cardinality(SourcesMakers(d)) <= SourcesMost(d))'
<1>1. PICK S : S = SourcesMakers(d)'
  OBVIOUS
<1>2. IsFiniteSet(SourcesMakers(d)) /\ S \subseteq SourcesMakers(d)
  BY <1>1, SourcesMakersFinite
<1>3. Cardinality(S) <= Cardinality(SourcesMakers(d)) /\ Cardinality(S) \in Nat
  BY <1>2, FS_Subset, FS_CardinalityType
<1>4. Len(shortlists[d]) + Cardinality(SourcesMakers(d)) <= SourcesMost(d)
  BY DEF SourcesInv
<1>5. Cardinality(SourcesMakers(d)) \in Nat /\ Cardinality(Makers) \in Nat /\ Cardinality(Makers) # 0
  BY SourcesMakersFinite, MakersAssumption, FS_EmptySet
<1>6. Len(shortlists[d]) \in Nat
  BY DEF SourcesInv, Sources!TypeOK
<1>7. SourcesMost(d) <= SourcesMost(d)' /\ SourcesMost(d) \in Int /\ SourcesMost(d)' \in Int
  BY <1>5 DEF SourcesMost
<1>8. Len(shortlists[d]) + Cardinality(S) <= SourcesMost(d)'
  BY <1>3, <1>4, <1>5, <1>6, <1>7
<1>9. QED
  BY <1>1, <1>8

LEMMA SourcesMaker ==
    ASSUME SourcesInv, NEW w \in Makers
    PROVE  /\ making[w] \in Sources!Making
           /\ overlappedDays \subseteq Sources!Days
           /\ shortlists \in [Sources!Days -> Seq(Sources!Shortlist)]
           /\ shortlistDay \in Sources!Days /\ preferences \in 0..MaxEdits
           /\ Makers # {}
BY DEF SourcesInv, Sources!TypeOK

LEMMA SourcesBeginMakingPreserves ==
    ASSUME SourcesInv, NEW w \in Makers, Sources!BeginMaking(w) PROVE SourcesInv'
<1>1. PICK x : x = [pc |-> "exists", date |-> shortlistDay, preferences |-> preferences,
                    sources |-> Sources!Usable]
  OBVIOUS
<1>2. /\ making' = [making EXCEPT ![w] = x] /\ Sources!OnlyMaking /\ UNCHANGED shortlists
      /\ preferences # 0 /\ making[w].pc = "idle"
  BY <1>1 DEF Sources!BeginMaking
<1>3. x \in Sources!Making
  BY <1>1, SourcesMaker DEF Sources!Making, Sources!Usable
<1>4. /\ overlappedDays \subseteq overlappedDays' /\ overlappedDays' \subseteq Sources!Days
      /\ \A v \in Makers \ {w} : making[v].pc # "idle" /\ making[v].date = x.date => x.date \in overlappedDays'
  BY <1>1, SourcesMaker DEF Sources!BeginMaking
<1>5. ASSUME NEW d \in Sources!Days PROVE SourcesMakers(d)' \subseteq SourcesMakers(d)
  <2>1. x.pc \notin {"query", "create"}
    BY <1>1
  <2>2. SourcesMakers(d)' = SourcesMakers(d) \ {w}
    BY <1>2, <2>1, SourcesMakersMove
  <2>3. QED
    BY <2>2
<1>6. \A d \in Sources!Days :
        (Len(shortlists[d]) + Cardinality(SourcesMakers(d)) <= SourcesMost(d))'
  BY <1>2, <1>4, <1>5, SourcesMaker, SourcesMakersKeep
<1>7. QED
  BY <1>1, <1>2, <1>3, <1>4, <1>6, SourcesMaker, SourcesMakingMove

\* A worker that stays busy with its day, or goes idle: who overlaps stays so.
LEMMA SourcesBusy ==
    ASSUME SourcesInv, NEW w \in Makers, NEW x, making[w].pc # "idle",
           x.pc # "idle" => x.date = making[w].date, UNCHANGED overlappedDays
    PROVE  \A v \in Makers \ {w} :
             making[v].pc # "idle" /\ x.pc # "idle" /\ making[v].date = x.date => x.date \in overlappedDays'
BY DEF SourcesInv, SourcesMakingOK

\* A worker that finds no shortlist is the only one of its day, or overlaps.
LEMMA SourcesExistsPreserves ==
    ASSUME SourcesInv, NEW w \in Makers, Sources!Exists(w) PROVE SourcesInv'
<1>1. PICK m \in Sources!Making : m = making[w] /\ m.pc = "exists" /\ m.preferences # 0
  BY SourcesMaker DEF Sources!Exists, SourcesInv, SourcesMakingOK
<1>2. PICK x : x = IF shortlists[m.date] # <<>> THEN Sources!NoMaking ELSE [m EXCEPT !.pc = "query"]
  OBVIOUS
<1>3. making' = [making EXCEPT ![w] = x] /\ Sources!OnlyMaking /\ UNCHANGED <<shortlists, overlappedDays>>
  BY <1>1, <1>2 DEF Sources!Exists
<1>4. /\ x \in Sources!Making
      /\ x.pc # "idle" => x.pc = "query" /\ x.date = m.date /\ x.preferences # 0 /\ shortlists[m.date] = <<>>
  BY <1>1, <1>2, SourcesDefaults DEF Sources!Making
<1>5. ASSUME NEW d \in Sources!Days
      PROVE  (Len(shortlists[d]) + Cardinality(SourcesMakers(d)) <= SourcesMost(d))'
  <2>1. CASE x.pc # "idle" /\ d = m.date
    <3>1. Len(shortlists[d]) = 0
      BY <1>4, <2>1
    <3>2. SourcesMakers(d)' = SourcesMakers(d) \cup {w}
      BY <1>3, <1>4, <2>1, SourcesMakersMove
    <3>3. PICK S : S = SourcesMakers(d) \cup {w}
      OBVIOUS
    <3>4. S \subseteq Makers
      BY <3>3 DEF SourcesMakers
    <3>5. Cardinality(S) <= Cardinality(Makers) /\ Cardinality(S) \in Nat /\ Cardinality(Makers) \in Nat
      BY <3>4, MakersAssumption, FS_Subset, FS_CardinalityType
    <3>6. ASSUME d \notin overlappedDays PROVE Cardinality(S) = 1
      <4>1. SourcesMakers(d) \subseteq {w}
        BY <1>1, <2>1, <3>6 DEF SourcesInv, SourcesMakingOK, SourcesMakers
      <4>2. S = {w}
        BY <3>3, <4>1
      <4>3. QED
        BY <4>2, FS_Singleton
    <3>7. 0 + Cardinality(S) <= SourcesMost(d)
      BY <3>5, <3>6 DEF SourcesMost
    <3>8. QED
      BY <1>3, <3>1, <3>2, <3>3, <3>7 DEF SourcesMost
  <2>2. CASE x.pc = "idle" \/ d # m.date
    <3>1. ~(x.pc \in {"query", "create"} /\ x.date = d)
      BY <1>4, <2>2
    <3>2. SourcesMakers(d)' = SourcesMakers(d) \ {w}
      BY <1>3, <3>1, SourcesMakersMove
    <3>3. SourcesMakers(d)' \subseteq SourcesMakers(d)
      BY <3>2
    <3>4. QED
      BY <1>3, <3>3, SourcesMaker, SourcesMakersKeep
  <2>3. QED
    BY <2>1, <2>2
<1>6. \A v \in Makers \ {w} :
         making[v].pc # "idle" /\ x.pc # "idle" /\ making[v].date = x.date => x.date \in overlappedDays'
  BY <1>1, <1>3, <1>4, SourcesBusy
<1>7. QED
  BY <1>3, <1>4, <1>5, <1>6, SourcesMaker, SourcesMakingMove

LEMMA SourcesQueryPreserves ==
    ASSUME SourcesInv, NEW w \in Makers, NEW answering \in SUBSET Sources!Sources,
           Sources!Query(w, answering)
    PROVE  SourcesInv'
<1>1. PICK m \in Sources!Making : m = making[w] /\ m.pc = "query" /\ m.preferences # 0
  BY SourcesMaker DEF Sources!Query, SourcesInv, SourcesMakingOK
<1>2. PICK x : x = [m EXCEPT !.pc = "create", !.sources = answering]
  OBVIOUS
<1>3. making' = [making EXCEPT ![w] = x] /\ Sources!OnlyMaking /\ UNCHANGED <<shortlists, overlappedDays>>
  BY <1>1, <1>2 DEF Sources!Query, SourcesInv, Sources!TypeOK, Sources!Making
<1>4. x \in Sources!Making /\ x.pc = "create" /\ x.date = m.date /\ x.preferences # 0
  BY <1>1, <1>2 DEF Sources!Making
<1>5. ASSUME NEW d \in Sources!Days PROVE SourcesMakers(d)' \subseteq SourcesMakers(d)
  <2>1. m.date = d => w \in SourcesMakers(d)
    BY <1>1 DEF SourcesMakers
  <2>2. SourcesMakers(d)' = IF x.pc \in {"query", "create"} /\ x.date = d
                            THEN SourcesMakers(d) \cup {w} ELSE SourcesMakers(d) \ {w}
    BY <1>3, SourcesMakersMove
  <2>3. QED
    BY <1>4, <2>1, <2>2
<1>6. \A d \in Sources!Days :
        (Len(shortlists[d]) + Cardinality(SourcesMakers(d)) <= SourcesMost(d))'
  BY <1>3, <1>5, SourcesMaker, SourcesMakersKeep
<1>7. \A v \in Makers \ {w} :
         making[v].pc # "idle" /\ x.pc # "idle" /\ making[v].date = x.date => x.date \in overlappedDays'
  BY <1>1, <1>3, <1>4, SourcesBusy
<1>8. QED
  BY <1>3, <1>4, <1>6, <1>7, SourcesMaker, SourcesMakingMove

\* One shortlist more, and one worker less that is to make one.
LEMMA SourcesCreatePreserves ==
    ASSUME SourcesInv, NEW w \in Makers, Sources!Create(w) PROVE SourcesInv'
<1>1. PICK m \in Sources!Making : m = making[w] /\ m.pc = "create" /\ m.preferences # 0
  BY SourcesMaker DEF Sources!Create, SourcesInv, SourcesMakingOK
<1>2. PICK e : e = [preferences |-> m.preferences, sources |-> m.sources]
  OBVIOUS
<1>3. /\ shortlists' = [shortlists EXCEPT ![m.date] = Append(@, e)]
      /\ making' = [making EXCEPT ![w] = Sources!NoMaking]
      /\ Sources!OnlyMaking /\ UNCHANGED overlappedDays
  BY <1>1, <1>2 DEF Sources!Create
<1>4. m.date \in Sources!Days /\ e \in Sources!Shortlist
  <2>1. m.preferences \in 1..MaxEdits
    BY <1>1, SourcesDefaults DEF Sources!Making
  <2>2. QED
    BY <1>2, <2>1 DEF Sources!Making, Sources!Shortlist
<1>5. shortlists' \in [Sources!Days -> Seq(Sources!Shortlist)]
  BY <1>3, <1>4, SourcesMaker
<1>6. ASSUME NEW d \in Sources!Days
      PROVE  (Len(shortlists[d]) + Cardinality(SourcesMakers(d)) <= SourcesMost(d))'
  <2>1. SourcesMakers(d)' = SourcesMakers(d) \ {w}
    BY <1>3, SourcesDefaults, SourcesMakersMove
  <2>2. PICK n \in Nat, S \in SUBSET Makers : n = Len(shortlists[d]) /\ S = SourcesMakers(d)
    <3>1. Len(shortlists[d]) \in Nat
      BY SourcesMaker
    <3>2. SourcesMakers(d) \in SUBSET Makers
      BY DEF SourcesMakers
    <3>3. QED
      BY <3>1, <3>2
  <2>3. IsFiniteSet(S) /\ Cardinality(S) \in Nat /\ IsFiniteSet(S \ {w}) /\ Cardinality(S \ {w}) \in Nat
        /\ Cardinality(S \ {w}) <= Cardinality(S) /\ Cardinality(Makers) \in Nat
    BY <2>2, SourcesMakersFinite, FS_Subset, FS_CardinalityType
  <2>4. n + Cardinality(S) <= SourcesMost(d) /\ SourcesMost(d) \in Int /\ SourcesMost(d)' = SourcesMost(d)
    BY <1>3, <2>2, <2>3 DEF SourcesInv, SourcesMost
  <2>5. CASE d = m.date
    <3>1. Len(shortlists'[d]) = n + 1
      BY <1>3, <1>4, <2>2, <2>5, SourcesMaker
    <3>2. w \in S
      BY <1>1, <2>2, <2>5 DEF SourcesMakers
    <3>3. Cardinality(S \ {w}) = Cardinality(S) - 1
      BY <2>3, <3>2, FS_RemoveElement
    <3>4. QED
      BY <2>1, <2>2, <2>3, <2>4, <3>1, <3>3
  <2>6. CASE d # m.date
    <3>1. shortlists'[d] = shortlists[d]
      BY <1>3, <2>6, SourcesMaker
    <3>2. QED
      BY <2>1, <2>2, <2>3, <2>4, <3>1
  <2>7. QED
    BY <2>5, <2>6
<1>7. QED
  BY <1>3, <1>5, <1>6, SourcesMaker, SourcesDefaults, SourcesMakingMove

LEMMA SourcesMakingFailsPreserves ==
    ASSUME SourcesInv, NEW w \in Makers, Sources!MakingFails(w) PROVE SourcesInv'
<1>1. /\ making' = [making EXCEPT ![w] = Sources!NoMaking]
      /\ Sources!OnlyMaking /\ UNCHANGED <<shortlists, overlappedDays>>
  BY DEF Sources!MakingFails
<1>2. ASSUME NEW d \in Sources!Days PROVE SourcesMakers(d)' \subseteq SourcesMakers(d)
  <2>1. SourcesMakers(d)' = SourcesMakers(d) \ {w}
    BY <1>1, SourcesDefaults, SourcesMakersMove
  <2>2. QED
    BY <2>1
<1>3. \A d \in Sources!Days :
        (Len(shortlists[d]) + Cardinality(SourcesMakers(d)) <= SourcesMost(d))'
  BY <1>1, <1>2, SourcesMaker, SourcesMakersKeep
<1>4. QED
  BY <1>1, <1>3, SourcesMaker, SourcesDefaults, SourcesMakingMove

LEMMA SourcesOthersPreserve ==
    ASSUME SourcesInv, Sources!UpdatePreferences \/ Sources!NextDay \/ UNCHANGED sourceVars
    PROVE  SourcesInv'
<1>1. UNCHANGED <<health, shortlists, check, making, failed, tangled, overlappedDays>>
  BY DEF Sources!UpdatePreferences, Sources!NextDay, sourceVars
<1>2. shortlistDay' \in Sources!Days /\ preferences' \in 0..MaxEdits
  BY SourcesDefaults DEF Sources!UpdatePreferences, Sources!NextDay, sourceVars, SourcesInv,
     Sources!TypeOK, Sources!Days
<1>3. Sources!TypeOK'
  BY <1>1, <1>2 DEF SourcesInv, Sources!TypeOK
<1>4. Sources!StatusTellsChecks'
  BY <1>1 DEF SourcesInv, Sources!StatusTellsChecks
<1>5. QED
  BY <1>1, <1>3, <1>4, SourcesListsStay DEF SourcesInv

\* The invariant of the sources is inductive.
LEMMA SourcesStep == SourcesInv /\ [Sources!Next]_sourceVars => SourcesInv'
<1> SUFFICES ASSUME SourcesInv, [Sources!Next]_sourceVars PROVE SourcesInv'
  OBVIOUS
<1>1. ASSUME NEW w \in Checkers,
             \/ Sources!BeginCheck(w) \/ Sources!Write(w) \/ Sources!RecordRaises(w)
             \/ \E success \in BOOLEAN : Sources!Read(w, success)
      PROVE  SourcesInv'
  BY <1>1, SourcesBeginCheckPreserves, SourcesWritePreserves, SourcesRecordRaisesPreserves,
     SourcesReadPreserves
<1>2. ASSUME NEW w \in Makers,
             \/ Sources!BeginMaking(w) \/ Sources!Exists(w) \/ Sources!Create(w)
             \/ Sources!MakingFails(w)
             \/ \E answering \in SUBSET Sources!Sources : Sources!Query(w, answering)
      PROVE  SourcesInv'
  BY <1>2, SourcesBeginMakingPreserves, SourcesExistsPreserves, SourcesCreatePreserves,
     SourcesMakingFailsPreserves, SourcesQueryPreserves
<1>3. QED
  BY <1>1, <1>2, SourcesTogglePreserves, SourcesOthersPreserve DEF Sources!Next

\* A day has no more shortlists than the most there may be.
LEMMA SourcesTells == SourcesInv => Sources!StatusTellsChecks /\ Sources!OneShortlistADay
<1> SUFFICES ASSUME SourcesInv, NEW d \in Sources!Days PROVE Len(shortlists[d]) <= SourcesMost(d)
  BY SourcesDefaults DEF SourcesInv, Sources!OneShortlistADay, SourcesMost
<1>1. Len(shortlists[d]) + Cardinality(SourcesMakers(d)) <= SourcesMost(d)
  BY DEF SourcesInv
<1>2. Len(shortlists[d]) \in Nat /\ Cardinality(SourcesMakers(d)) \in Nat /\ SourcesMost(d) \in Int
  BY SourcesMakersFinite DEF SourcesInv, Sources!TypeOK, SourcesMost
<1>3. QED
  BY <1>1, <1>2

-----------------------------------------------------------------------------
\* Usage and its rollups: cost_tracker.py, usage_service.py and cost_tasks.py.

\* A request waits to be added to a day only after a call.
UsageRequestOK(h) == h.pc # "count" => h.cost = 0

UsageCallInv ==
    /\ today \in Usage!Days /\ daily \in [Usage!Days -> Nat] /\ recorded \in Nat /\ missed \in Nat
    /\ usageRequest \in [Clients -> Usage!Request]
    /\ \A c \in Clients : UsageRequestOK(usageRequest[c])
    /\ Total(daily, Usage!Days) + missed + Total(Usage!OnTheWay, Clients) = recorded

\* The numbers that the ledger is bounded by.
LEMMA UsageDefaults ==
    /\ LedgerDays \in Nat \ {0} /\ MaxCalls \in Nat /\ Costs \subseteq Nat
    /\ Usage!Days = 1..LedgerDays /\ IsFiniteSet(Usage!Days) /\ IsFiniteSet(Clients)
<1>1. LedgerDays \in Nat \ {0} /\ MaxCalls \in Nat /\ Costs \subseteq Nat
  BY LedgerDaysAssumption, CallsAssumption, CostsAssumption
<1>2. Usage!Days = 1..LedgerDays
  BY DEF Usage!Days
<1>3. IsFiniteSet(Usage!Days) /\ IsFiniteSet(Clients)
  BY <1>1, <1>2, FS_Interval, ClientsAssumption
<1>4. QED
  BY <1>1, <1>2, <1>3

\* What a request waits to add is a number.
LEMMA UsageCostType == \A h \in Usage!Request : h.cost \in Nat
<1> SUFFICES ASSUME NEW h \in Usage!Request PROVE h.cost \in Nat
  OBVIOUS
<1>1. h.cost \in Costs \cup {0}
  BY DEF Usage!Request
<1>2. \A k \in Costs : k \in Nat
  BY UsageDefaults
<1>3. QED
  BY <1>1, <1>2

LEMMA UsageNoRequest ==
    /\ Usage!NoRequest \in Usage!Request /\ UsageRequestOK(Usage!NoRequest)
    /\ Usage!NoRequest.cost = 0
<1>1. Usage!NoRequest.cost = 0 /\ 0 \in 0..MaxCalls
  BY UsageDefaults DEF Usage!NoRequest
<1>2. Usage!NoRequest \in Usage!Request
  BY <1>1 DEF Usage!NoRequest, Usage!Request
<1>3. QED
  BY <1>1, <1>2 DEF UsageRequestOK

\* Nothing was recorded or added.
LEMMA UsageCallInit == Usage!Init => UsageCallInv
<1> SUFFICES ASSUME Usage!Init PROVE UsageCallInv
  OBVIOUS
<1>1. /\ today = 1 /\ daily = [d \in Usage!Days |-> 0] /\ recorded = 0 /\ missed = 0
      /\ usageRequest = [c \in Clients |-> Usage!NoRequest]
  BY DEF Usage!Init
<1>2. today \in Usage!Days /\ daily \in [Usage!Days -> Nat]
  BY <1>1, UsageDefaults
<1>3. \A c \in Clients : Usage!OnTheWay[c] = 0
  BY <1>1, UsageNoRequest DEF Usage!OnTheWay
<1>4. \A d \in Usage!Days : daily[d] = 0
  BY <1>1
<1>5. Total(daily, Usage!Days) = Cardinality(Usage!Days) * 0
  BY <1>4, UsageDefaults, TotalEqual
<1>6. Total(Usage!OnTheWay, Clients) = Cardinality(Clients) * 0
  BY <1>3, UsageDefaults, TotalEqual
<1>7. Cardinality(Usage!Days) \in Nat /\ Cardinality(Clients) \in Nat
  BY UsageDefaults, FS_CardinalityType
<1>8. Total(daily, Usage!Days) = 0 /\ Total(Usage!OnTheWay, Clients) = 0
  BY <1>5, <1>6, <1>7
<1>9. QED
  BY <1>1, <1>2, <1>8, UsageNoRequest DEF UsageCallInv

\* A request becomes x, and adds "more" to today's entry, "late" to what was
\* recorded and "lost" to what was missed.
LEMMA UsageCallMove ==
    ASSUME UsageCallInv, NEW c \in Clients, NEW x \in Usage!Request, NEW more \in Nat,
           NEW late \in Nat, NEW lost \in Nat, UsageRequestOK(x), UNCHANGED today,
           usageRequest' = [usageRequest EXCEPT ![c] = x],
           daily' = [daily EXCEPT ![today] = @ + more],
           recorded' = recorded + late, missed' = missed + lost,
           more + lost + x.cost = usageRequest[c].cost + late
    PROVE  UsageCallInv'
<1>1. PICK h \in Usage!Request : h = usageRequest[c] /\ UsageRequestOK(h)
  BY DEF UsageCallInv
<1>2. today \in Usage!Days /\ daily \in [Usage!Days -> Nat] /\ recorded \in Nat /\ missed \in Nat
      /\ usageRequest \in [Clients -> Usage!Request]
  BY DEF UsageCallInv
<1>3. usageRequest' \in [Clients -> Usage!Request] /\ daily' \in [Usage!Days -> Nat]
      /\ recorded' \in Nat /\ missed' \in Nat /\ today' \in Usage!Days
  BY <1>2
<1>4. \A e \in Clients : usageRequest'[e] = IF e = c THEN x ELSE usageRequest[e]
  BY <1>2
<1>5. \A d \in Usage!Days : daily'[d] = IF d = today THEN daily[d] + more ELSE daily[d]
  BY <1>2
<1>6. PICK way, ways : way = Usage!OnTheWay /\ ways = Usage!OnTheWay'
  OBVIOUS
<1>7. \A e \in Clients : way[e] \in Nat /\ ways[e] = IF e = c THEN x.cost ELSE way[e]
  BY <1>2, <1>4, <1>6, UsageCostType DEF Usage!OnTheWay
<1>8. way[c] = h.cost /\ x.cost \in Nat /\ h.cost \in Nat
  BY <1>1, <1>6, UsageCostType DEF Usage!OnTheWay
<1>9. Total(ways, Clients) = Total(way, Clients) - h.cost + x.cost
  <2>1. \A e \in Clients : way[e] \in Nat /\ ways[e] \in Nat
    BY <1>7, <1>8
  <2>2. \A e \in Clients \ {c} : ways[e] = way[e]
    BY <1>7
  <2>3. Total(ways, Clients) = Total(way, Clients) - way[c] + ways[c]
    BY <2>1, <2>2, UsageDefaults, TotalUpdate
  <2>4. ways[c] = x.cost
    BY <1>7
  <2>5. QED
    BY <1>8, <2>3, <2>4
<1>10. PICK days : days = daily'
  OBVIOUS
<1>11. \A d \in Usage!Days : daily[d] \in Nat /\ days[d] \in Nat /\ (d # today => days[d] = daily[d])
  BY <1>2, <1>3, <1>5, <1>10
<1>12. days[today] = daily[today] + more
  BY <1>2, <1>5, <1>10
<1>13. Total(days, Usage!Days) = Total(daily, Usage!Days) + more
  <2>1. Total(days, Usage!Days) = Total(daily, Usage!Days) - daily[today] + days[today]
    <3>1. \A d \in Usage!Days : daily[d] \in Nat /\ days[d] \in Nat
      BY <1>11
    <3>2. \A d \in Usage!Days \ {today} : days[d] = daily[d]
      BY <1>11
    <3>3. IsFiniteSet(Usage!Days) /\ today \in Usage!Days
      BY <1>2, UsageDefaults
    <3>4. QED
      BY <3>1, <3>2, <3>3, TotalUpdate
  <2>2. Total(daily, Usage!Days) \in Nat /\ daily[today] \in Nat
    BY <1>2, <1>11, UsageDefaults, TotalType
  <2>3. QED
    BY <1>12, <2>1, <2>2
<1>14. Total(days, Usage!Days) + missed' + Total(ways, Clients) = recorded'
  <2>1. Total(daily, Usage!Days) + missed + Total(way, Clients) = recorded
    BY <1>6 DEF UsageCallInv
  <2>2. Total(daily, Usage!Days) \in Nat /\ Total(way, Clients) \in Nat
    BY <1>7, <1>11, UsageDefaults, TotalType
  <2>3. more + lost + x.cost = h.cost + late
    BY <1>1
  <2>4. QED
    BY <1>2, <1>8, <1>9, <1>13, <2>1, <2>2, <2>3
<1>15. \A e \in Clients : UsageRequestOK(usageRequest[e])'
  <2>1. \A e \in Clients : UsageRequestOK(usageRequest'[e])
    BY <1>4 DEF UsageCallInv
  <2>2. QED
    BY <2>1 DEF UsageRequestOK
<1>16. QED
  BY <1>3, <1>6, <1>10, <1>14, <1>15 DEF UsageCallInv

\* A request moves without adding to the entry of today.
LEMMA UsageCallQuiet ==
    ASSUME UsageCallInv, NEW c \in Clients, NEW x \in Usage!Request, UsageRequestOK(x),
           UNCHANGED <<today, daily>>, NEW late \in Nat, NEW lost \in Nat,
           usageRequest' = [usageRequest EXCEPT ![c] = x],
           recorded' = recorded + late, missed' = missed + lost,
           lost + x.cost = usageRequest[c].cost + late
    PROVE  UsageCallInv'
<1>1. today \in Usage!Days /\ daily \in [Usage!Days -> Nat]
  BY DEF UsageCallInv
<1>2. daily' = [daily EXCEPT ![today] = @ + 0]
  BY <1>1
<1>3. x.cost \in Nat
  BY UsageCostType
<1>4. 0 + lost + x.cost = usageRequest[c].cost + late
  BY <1>3
<1>5. QED
  BY <1>1, <1>2, <1>4, UsageCallMove

\* The request of a client.
LEMMA UsageHandler ==
    ASSUME UsageCallInv, NEW c \in Clients
    PROVE  /\ usageRequest[c] \in Usage!Request /\ UsageRequestOK(usageRequest[c])
           /\ usageRequest \in [Clients -> Usage!Request]
           /\ recorded \in Nat /\ missed \in Nat /\ today \in Usage!Days
           /\ recorded = recorded + 0 /\ missed = missed + 0
BY DEF UsageCallInv

LEMMA UsageAskPreserves ==
    ASSUME UsageCallInv, NEW c \in Clients, Usage!Ask(c) PROVE UsageCallInv'
<1>1. PICK h \in Usage!Request : h = usageRequest[c] /\ UsageRequestOK(h) /\ h.pc = "idle"
  BY UsageHandler DEF Usage!Ask
<1>2. PICK x : x = [h EXCEPT !.pc = "call"]
  OBVIOUS
<1>3. usageRequest' = [usageRequest EXCEPT ![c] = x] /\ UNCHANGED <<today, daily, recorded, missed>>
  BY <1>1, <1>2, UsageHandler DEF Usage!Ask
<1>4. x \in Usage!Request /\ x.pc = "call" /\ x.cost = h.cost
  BY <1>2 DEF Usage!Request
<1>5. h.cost = 0 /\ x.cost = 0
  BY <1>1, <1>4 DEF UsageRequestOK
<1>6. UsageRequestOK(x) /\ 0 + x.cost = h.cost + 0
  BY <1>5 DEF UsageRequestOK
<1>7. QED
  BY <1>1, <1>3, <1>4, <1>6, UsageHandler, UsageCallQuiet

\* A call that was recorded waits to be added.
LEMMA UsageInsertPreserves ==
    ASSUME UsageCallInv, NEW c \in Clients, NEW cost \in Costs, Usage!Insert(c, cost)
    PROVE  UsageCallInv'
<1>1. PICK h \in Usage!Request : /\ h = usageRequest[c] /\ UsageRequestOK(h)
                                 /\ h.pc = "call" /\ h.calls < MaxCalls
  BY UsageHandler DEF Usage!Insert
<1>2. PICK n \in 0..MaxCalls : n = h.calls + 1
  BY <1>1, UsageDefaults DEF Usage!Request
<1>3. PICK x : x = [h EXCEPT !.pc = "count", !.calls = n, !.cost = cost]
  OBVIOUS
<1>4. usageRequest' = [usageRequest EXCEPT ![c] = x]
  BY <1>1, <1>2, <1>3, UsageHandler DEF Usage!Insert, Usage!Request
<1>5. recorded' = recorded + cost /\ UNCHANGED <<today, daily, missed>>
  BY DEF Usage!Insert
<1>6. x \in Usage!Request /\ x.pc = "count" /\ x.cost = cost
  BY <1>3 DEF Usage!Request
<1>7. cost \in Nat /\ h.cost = 0
  BY <1>1, UsageDefaults DEF UsageRequestOK
<1>8. UsageRequestOK(x) /\ missed' = missed + 0 /\ 0 + x.cost = usageRequest[c].cost + cost
  BY <1>1, <1>5, <1>6, <1>7, UsageHandler DEF UsageRequestOK
<1>9. cost \in Nat /\ 0 \in Nat
  BY <1>7
<1>10. QED
  BY <1>4, <1>5, <1>6, <1>8, <1>9, UsageCallQuiet

\* What waited is added to the day.
LEMMA UsageCountPreserves ==
    ASSUME UsageCallInv, NEW c \in Clients, Usage!Count(c) PROVE UsageCallInv'
<1>1. PICK h \in Usage!Request : h = usageRequest[c] /\ UsageRequestOK(h) /\ h.pc = "count"
  BY UsageHandler DEF Usage!Count
<1>2. PICK x : x = [h EXCEPT !.pc = "call", !.cost = 0]
  OBVIOUS
<1>3. usageRequest' = [usageRequest EXCEPT ![c] = x]
  BY <1>1, <1>2, UsageHandler DEF Usage!Count, Usage!Request
<1>4. daily' = [daily EXCEPT ![today] = @ + h.cost] /\ UNCHANGED <<today, recorded, missed>>
  BY <1>1 DEF Usage!Count
<1>5. x \in Usage!Request /\ x.cost = 0 /\ h.cost \in Nat
  BY <1>2, UsageCostType DEF Usage!Request
<1>6. UsageRequestOK(x) /\ h.cost + 0 + x.cost = usageRequest[c].cost + 0
  BY <1>1, <1>5 DEF UsageRequestOK
<1>7. recorded' = recorded + 0 /\ missed' = missed + 0 /\ 0 \in Nat
  BY <1>4, UsageHandler
<1>8. QED
  BY <1>3, <1>4, <1>5, <1>6, <1>7, UsageCallMove

\* What was recorded and not added is missed.
LEMMA UsageMisses ==
    ASSUME UsageCallInv, NEW c \in Clients, NEW x \in Usage!Request, x.cost = 0,
           usageRequest' = [usageRequest EXCEPT ![c] = x], missed' = missed + usageRequest[c].cost,
           UNCHANGED <<today, daily, recorded>>
    PROVE  UsageCallInv'
<1>1. PICK lost \in Nat : lost = usageRequest[c].cost
  BY UsageHandler, UsageCostType
<1>2. recorded' = recorded + 0 /\ missed' = missed + lost /\ UsageRequestOK(x)
  BY <1>1, UsageHandler DEF UsageRequestOK
<1>3. lost + x.cost = usageRequest[c].cost + 0 /\ 0 \in Nat
  BY <1>1
<1>4. QED
  BY <1>2, <1>3, UsageCallQuiet

LEMMA UsageCountFailsPreserves ==
    ASSUME UsageCallInv, NEW c \in Clients, Usage!CountFails(c) PROVE UsageCallInv'
<1>1. PICK h \in Usage!Request : h = usageRequest[c]
  BY UsageHandler
<1>2. PICK x : x = [h EXCEPT !.pc = "call", !.cost = 0]
  OBVIOUS
<1>3. usageRequest' = [usageRequest EXCEPT ![c] = x]
  BY <1>1, <1>2, UsageHandler DEF Usage!CountFails, Usage!Request
<1>4. x \in Usage!Request /\ x.cost = 0
  BY <1>2 DEF Usage!Request
<1>5. QED
  BY <1>3, <1>4, UsageMisses DEF Usage!CountFails

LEMMA UsageEndPreserves ==
    ASSUME UsageCallInv, NEW c \in Clients, Usage!End(c) PROVE UsageCallInv'
BY UsageNoRequest, UsageMisses DEF Usage!End

\* The rollups and the clock do nothing to the requests.
LEMMA UsageCallStays ==
    ASSUME UsageCallInv, today' \in Usage!Days, UNCHANGED <<daily, recorded, usageRequest, missed>>
    PROVE  UsageCallInv'
<1>1. Usage!OnTheWay' = Usage!OnTheWay
  BY DEF Usage!OnTheWay
<1>2. \A c \in Clients : UsageRequestOK(usageRequest[c])'
  BY DEF UsageCallInv, UsageRequestOK
<1>3. QED
  BY <1>1, <1>2 DEF UsageCallInv

-----------------------------------------------------------------------------
\* The days of a week and of a month up to a day.
UsageWeek(w, n) == {d \in 1..n : Usage!WeekOf(d) = w}
UsageMonth(m, n) == {d \in 1..n : Usage!MonthOf(d) = m}

\* A sum that a rollup took says no more than the days f of its period, up to the
\* day on which the task began; one that will write a week has read all that the
\* entry of the week ever said, k, unless rollups of the week overlapped.
UsageRollupOK(x, n, f, k, o) ==
    LET week == Usage!WeekOf(x.now)
    IN  /\ x.now <= n
        /\ x.pc = "week" => week \in o \/ k[week] <= Total(f, UsageWeek(week, x.now))
        /\ x.pc = "saveWeek" => /\ x.sum <= Total(f, UsageWeek(week, x.now))
                                /\ week \in o \/ k[week] <= x.sum
        /\ x.pc = "saveMonth" =>
             x.sum <= Total(f, UsageMonth(Usage!MonthOf(x.now), x.now))

\* An entry of a week says what it ever said and no more than the days so far.
UsageWeeksOK(n, f, g, k, o) ==
    \A w \in Usage!Weeks : /\ g[w] <= k[w] /\ k[w] <= Total(f, UsageWeek(w, n))
                           /\ g[w] = k[w] \/ w \in o

UsageMonthsOK(f, g) ==
    \A m \in Usage!Months : g[m] <= Total(f, UsageMonth(m, LedgerDays))

\* Whether a rollup sums the week w and has not written it.
UsageSums(x, w) == x.pc \in {"week", "saveWeek"} /\ Usage!WeekOf(x.now) = w

UsageRollInv ==
    /\ weekly \in [Usage!Weeks -> Nat] /\ monthly \in [Usage!Months -> Nat]
    /\ told \in [Usage!Weeks -> Nat] /\ overlappedWeeks \subseteq Usage!Weeks
    /\ rollup \in [Workers -> Usage!Rollup]
    /\ UsageWeeksOK(today, daily, weekly, told, overlappedWeeks)
    /\ UsageMonthsOK(daily, monthly)
    /\ \A v \in Workers : UsageRollupOK(rollup[v], today, daily, told, overlappedWeeks)
    /\ \A v \in Workers : \A u \in Workers \ {v} : \A w \in Usage!Weeks :
         UsageSums(rollup[v], w) /\ UsageSums(rollup[u], w) => w \in overlappedWeeks

\* What the sum of a period is.
LEMMA UsageSpent == \A S : Usage!Spent(S) = Total(daily, S)
BY DEF Usage!Spent, Usage!MapThenSumSet, Usage!MapThenFoldSet, Total, Adding, Pick

\* More days, or more on a day, make no smaller a sum.
LEMMA UsageGrows ==
    ASSUME NEW f, NEW g, \A d \in Usage!Days : f[d] \in Nat /\ g[d] \in Nat /\ f[d] <= g[d],
           NEW n \in Usage!Days, NEW k \in Usage!Days, n <= k, NEW w
    PROVE  /\ Total(f, UsageWeek(w, n)) \in Nat /\ Total(g, UsageWeek(w, k)) \in Nat
           /\ Total(f, UsageMonth(w, n)) \in Nat /\ Total(g, UsageMonth(w, k)) \in Nat
           /\ Total(f, UsageWeek(w, n)) <= Total(g, UsageWeek(w, k))
           /\ Total(f, UsageMonth(w, n)) <= Total(g, UsageMonth(w, k))
<1>1. n \in Nat /\ k \in Nat /\ 1..n \subseteq 1..k /\ 1..k \subseteq Usage!Days
  BY UsageDefaults
<1>2. /\ UsageWeek(w, n) \in SUBSET UsageWeek(w, k) /\ UsageWeek(w, k) \subseteq Usage!Days
      /\ UsageMonth(w, n) \in SUBSET UsageMonth(w, k) /\ UsageMonth(w, k) \subseteq Usage!Days
  BY <1>1 DEF UsageWeek, UsageMonth
<1>3. /\ IsFiniteSet(UsageWeek(w, n)) /\ IsFiniteSet(UsageWeek(w, k))
      /\ IsFiniteSet(UsageMonth(w, n)) /\ IsFiniteSet(UsageMonth(w, k))
  BY <1>2, UsageDefaults, FS_Subset
<1>4. Total(f, UsageWeek(w, n)) \in Nat /\ Total(g, UsageWeek(w, k)) \in Nat
  <2>1. \A d \in UsageWeek(w, n) : f[d] \in Nat
    BY <1>2
  <2>2. \A d \in UsageWeek(w, k) : g[d] \in Nat
    BY <1>2
  <2>3. QED
    BY <1>3, <2>1, <2>2, TotalType
<1>5. Total(f, UsageMonth(w, n)) \in Nat /\ Total(g, UsageMonth(w, k)) \in Nat
  <2>1. \A d \in UsageMonth(w, n) : f[d] \in Nat
    BY <1>2
  <2>2. \A d \in UsageMonth(w, k) : g[d] \in Nat
    BY <1>2
  <2>3. QED
    BY <1>3, <2>1, <2>2, TotalType
<1>6. Total(f, UsageWeek(w, n)) <= Total(g, UsageWeek(w, k))
  <2>1. \A d \in UsageWeek(w, k) : g[d] \in Nat
    BY <1>2
  <2>2. \A d \in UsageWeek(w, n) : f[d] \in Nat /\ f[d] <= g[d]
    BY <1>2
  <2>3. QED
    BY <1>2, <1>3, <2>1, <2>2, TotalLess
<1>7. Total(f, UsageMonth(w, n)) <= Total(g, UsageMonth(w, k))
  <2>1. \A d \in UsageMonth(w, k) : g[d] \in Nat
    BY <1>2
  <2>2. \A d \in UsageMonth(w, n) : f[d] \in Nat /\ f[d] <= g[d]
    BY <1>2
  <2>3. QED
    BY <1>2, <1>3, <2>1, <2>2, TotalLess
<1>8. QED
  BY <1>4, <1>5, <1>6, <1>7

\* The entries of days and the task of a worker.
LEMMA UsageTask ==
    ASSUME UsageCallInv, UsageRollInv
    PROVE  /\ today \in Usage!Days /\ \A d \in Usage!Days : daily[d] \in Nat /\ daily[d] <= daily[d]
           /\ \A v \in Workers : /\ rollup[v] \in Usage!Rollup /\ rollup[v].now \in Usage!Days
                                 /\ rollup[v].now <= today /\ rollup[v].sum \in Nat
                                 /\ Usage!WeekOf(rollup[v].now) \in Usage!Weeks
                                 /\ Usage!MonthOf(rollup[v].now) \in Usage!Months
<1>1. today \in Usage!Days /\ \A d \in Usage!Days : daily[d] \in Nat
  BY DEF UsageCallInv
<1>2. \A d \in Usage!Days : daily[d] <= daily[d]
  BY <1>1
<1>3. \A v \in Workers : rollup[v] \in Usage!Rollup /\ rollup[v].now <= today
  BY DEF UsageRollInv, UsageRollupOK
<1>4. \A v \in Workers : rollup[v].now \in Usage!Days /\ rollup[v].sum \in Nat
  BY <1>3 DEF Usage!Rollup
<1>5. \A d \in Usage!Days : Usage!WeekOf(d) \in Usage!Weeks /\ Usage!MonthOf(d) \in Usage!Months
  BY DEF Usage!Weeks, Usage!Months
<1>6. QED
  BY <1>1, <1>2, <1>3, <1>4, <1>5

LEMMA UsageNoRollup ==
    /\ Usage!NoRollup \in Usage!Rollup /\ Usage!NoRollup.pc = "idle" /\ Usage!NoRollup.now = 1
    /\ \A n \in Usage!Days : \A f, k, o : UsageRollupOK(Usage!NoRollup, n, f, k, o)
    /\ \A w : ~UsageSums(Usage!NoRollup, w)
<1>1. Usage!NoRollup.pc = "idle" /\ Usage!NoRollup.now = 1
  BY DEF Usage!NoRollup
<1>2. 1 \in Usage!Days
  BY UsageDefaults
<1>3. Usage!NoRollup \in Usage!Rollup
  BY <1>2 DEF Usage!NoRollup, Usage!Rollup
<1>4. \A n \in Usage!Days : 1 <= n
  BY UsageDefaults
<1>5. QED
  BY <1>1, <1>3, <1>4 DEF UsageRollupOK, UsageSums

LEMMA UsageRollInit == Usage!Init => UsageRollInv
<1> SUFFICES ASSUME Usage!Init PROVE UsageRollInv
  OBVIOUS
<1>1. /\ today = 1 /\ weekly = [w \in Usage!Weeks |-> 0] /\ monthly = [m \in Usage!Months |-> 0]
      /\ told = [w \in Usage!Weeks |-> 0] /\ overlappedWeeks = {} /\ daily = [d \in Usage!Days |-> 0]
      /\ rollup = [w \in Workers |-> Usage!NoRollup]
  BY DEF Usage!Init
<1>2. today \in Usage!Days /\ LedgerDays \in Usage!Days /\ today <= today /\ LedgerDays <= LedgerDays
  BY <1>1, UsageDefaults
<1>3. \A d \in Usage!Days : daily[d] \in Nat /\ daily[d] <= daily[d]
  BY <1>1
<1>4. \A w : Total(daily, UsageWeek(w, today)) \in Nat
  BY <1>2, <1>3, UsageGrows
<1>5. \A m : Total(daily, UsageMonth(m, LedgerDays)) \in Nat
  BY <1>2, <1>3, UsageGrows
<1>6. UsageWeeksOK(today, daily, weekly, told, overlappedWeeks)
  BY <1>1, <1>4 DEF UsageWeeksOK
<1>7. UsageMonthsOK(daily, monthly)
  BY <1>1, <1>5 DEF UsageMonthsOK
<1>8. \A v \in Workers : UsageRollupOK(rollup[v], today, daily, told, overlappedWeeks)
  BY <1>1, <1>2, UsageNoRollup
<1>9. \A v \in Workers, w \in Usage!Weeks : ~UsageSums(rollup[v], w)
  BY <1>1, UsageNoRollup
<1>10. /\ weekly \in [Usage!Weeks -> Nat] /\ monthly \in [Usage!Months -> Nat]
       /\ told \in [Usage!Weeks -> Nat] /\ rollup \in [Workers -> Usage!Rollup]
  BY <1>1, UsageNoRollup
<1>11. QED
  BY <1>1, <1>6, <1>7, <1>8, <1>9, <1>10 DEF UsageRollInv

\* A rollup that was right stays so while days grow, and k of its week does not
\* or the week is among those that overlapped.
LEMMA UsageRollupStays ==
    ASSUME NEW x \in Usage!Rollup, NEW n \in Usage!Days, NEW f, NEW k, NEW o,
           UsageRollupOK(x, n, f, k, o), NEW p \in Usage!Days, n <= p,
           NEW g, \A d \in Usage!Days : f[d] \in Nat /\ g[d] \in Nat /\ f[d] <= g[d],
           NEW l, NEW q, o \subseteq q,
           k \in [Usage!Weeks -> Nat],
           UsageSums(x, Usage!WeekOf(x.now)) =>
             \/ l[Usage!WeekOf(x.now)] = k[Usage!WeekOf(x.now)] \/ Usage!WeekOf(x.now) \in q
    PROVE  UsageRollupOK(x, p, g, l, q)
<1> DEFINE week == Usage!WeekOf(x.now)
           month == Usage!MonthOf(x.now)
<1>1. x.now \in Usage!Days /\ x.sum \in Nat /\ x.now <= n
  BY DEF Usage!Rollup, UsageRollupOK
<1>10. x.now <= x.now
  BY <1>1, UsageDefaults
<1>2. /\ Total(f, UsageWeek(week, x.now)) \in Nat /\ Total(g, UsageWeek(week, x.now)) \in Nat
      /\ Total(f, UsageWeek(week, x.now)) <= Total(g, UsageWeek(week, x.now))
  BY <1>1, <1>10, UsageGrows
<1>3. /\ Total(f, UsageMonth(month, x.now)) \in Nat /\ Total(g, UsageMonth(month, x.now)) \in Nat
      /\ Total(f, UsageMonth(month, x.now)) <= Total(g, UsageMonth(month, x.now))
  BY <1>1, <1>10, UsageGrows
<1>4. k[week] \in Nat
  BY <1>1 DEF Usage!Weeks
<1>5. x.now <= p
  BY <1>1, UsageDefaults
<1>6. x.pc = "week" => week \in q \/ l[week] <= Total(g, UsageWeek(week, x.now))
  <2> SUFFICES ASSUME x.pc = "week", week \notin q PROVE l[week] <= Total(g, UsageWeek(week, x.now))
    OBVIOUS
  <2>1. l[week] = k[week]
    BY DEF UsageSums
  <2>2. k[week] <= Total(f, UsageWeek(week, x.now))
    BY DEF UsageRollupOK
  <2>3. QED
    BY <1>2, <1>4, <2>1, <2>2
<1>7. x.pc = "saveWeek" => /\ x.sum <= Total(g, UsageWeek(week, x.now))
                           /\ week \in q \/ l[week] <= x.sum
  <2> SUFFICES ASSUME x.pc = "saveWeek"
               PROVE  /\ x.sum <= Total(g, UsageWeek(week, x.now))
                      /\ week \in q \/ l[week] <= x.sum
    OBVIOUS
  <2>1. week \in q \/ l[week] = k[week]
    BY DEF UsageSums
  <2>2. x.sum <= Total(f, UsageWeek(week, x.now)) /\ (week \in o \/ k[week] <= x.sum)
    BY DEF UsageRollupOK
  <2>3. x.sum <= Total(g, UsageWeek(week, x.now))
    BY <1>1, <1>2, <2>2
  <2>4. week \in q \/ l[week] <= x.sum
    BY <2>1, <2>2
  <2>5. QED
    BY <2>3, <2>4
<1>8. x.pc = "saveMonth" => x.sum <= Total(g, UsageMonth(month, x.now))
  <2> SUFFICES ASSUME x.pc = "saveMonth" PROVE x.sum <= Total(g, UsageMonth(month, x.now))
    OBVIOUS
  <2>1. x.sum <= Total(f, UsageMonth(month, x.now))
    BY DEF UsageRollupOK
  <2>2. QED
    BY <1>1, <1>3, <2>1
<1>9. QED
  BY <1>5, <1>6, <1>7, <1>8 DEF UsageRollupOK

\* Requests and midnights only add to days.
LEMMA UsageRollStays ==
    ASSUME UsageCallInv, UsageRollInv, today' \in Usage!Days, today <= today',
           \A d \in Usage!Days : daily'[d] \in Nat /\ daily[d] <= daily'[d],
           UNCHANGED <<weekly, monthly, told, rollup, overlappedWeeks>>
    PROVE  UsageRollInv'
<1>1. PICK n, f : n = today' /\ f = daily'
  OBVIOUS
<1>2. /\ today \in Usage!Days /\ n \in Usage!Days /\ today <= n
      /\ \A d \in Usage!Days : daily[d] \in Nat /\ f[d] \in Nat /\ daily[d] <= f[d]
  BY <1>1, UsageTask
<1>3. UsageWeeksOK(n, f, weekly, told, overlappedWeeks)
  <2> SUFFICES ASSUME NEW w \in Usage!Weeks
               PROVE  /\ weekly[w] <= told[w] /\ told[w] <= Total(f, UsageWeek(w, n))
                      /\ weekly[w] = told[w] \/ w \in overlappedWeeks
    BY DEF UsageWeeksOK
  <2>1. /\ Total(daily, UsageWeek(w, today)) \in Nat /\ Total(f, UsageWeek(w, n)) \in Nat
        /\ Total(daily, UsageWeek(w, today)) <= Total(f, UsageWeek(w, n))
    BY <1>2, UsageGrows
  <2>2. /\ weekly[w] <= told[w] /\ told[w] <= Total(daily, UsageWeek(w, today))
        /\ weekly[w] = told[w] \/ w \in overlappedWeeks
    BY DEF UsageRollInv, UsageWeeksOK
  <2>3. told[w] \in Nat
    BY DEF UsageRollInv
  <2>4. QED
    BY <2>1, <2>2, <2>3
<1>4. UsageMonthsOK(f, monthly)
  <2> SUFFICES ASSUME NEW m \in Usage!Months
               PROVE  monthly[m] <= Total(f, UsageMonth(m, LedgerDays))
    BY DEF UsageMonthsOK
  <2>1. LedgerDays \in Usage!Days /\ LedgerDays <= LedgerDays
    BY UsageDefaults
  <2>2. /\ Total(daily, UsageMonth(m, LedgerDays)) \in Nat
        /\ Total(f, UsageMonth(m, LedgerDays)) \in Nat
        /\ Total(daily, UsageMonth(m, LedgerDays)) <= Total(f, UsageMonth(m, LedgerDays))
    BY <1>2, <2>1, UsageGrows
  <2>3. monthly[m] <= Total(daily, UsageMonth(m, LedgerDays)) /\ monthly[m] \in Nat
    BY DEF UsageRollInv, UsageMonthsOK
  <2>4. QED
    BY <2>2, <2>3
<1>5. \A v \in Workers : UsageRollupOK(rollup[v], n, f, told, overlappedWeeks)
  <2> SUFFICES ASSUME NEW v \in Workers PROVE UsageRollupOK(rollup[v], n, f, told, overlappedWeeks)
    OBVIOUS
  <2>1. PICK x \in Usage!Rollup : x = rollup[v] /\ UsageRollupOK(x, today, daily, told, overlappedWeeks)
    BY UsageTask DEF UsageRollInv
  <2>2. told \in [Usage!Weeks -> Nat]
    BY DEF UsageRollInv
  <2>3. UsageRollupOK(x, n, f, told, overlappedWeeks)
    BY <1>2, <2>1, <2>2, UsageRollupStays
  <2>4. QED
    BY <2>1, <2>3
<1>6. QED
  BY <1>1, <1>3, <1>4, <1>5 DEF UsageRollInv

\* The task of a worker becomes y, and writes an entry of a week that no other
\* task sums, or one that overlapped.
LEMMA UsageRollMove ==
    ASSUME UsageCallInv, UsageRollInv, NEW v \in Workers, NEW y \in Usage!Rollup,
           UNCHANGED <<today, daily>>, rollup' = [rollup EXCEPT ![v] = y],
           weekly' \in [Usage!Weeks -> Nat], monthly' \in [Usage!Months -> Nat],
           told' \in [Usage!Weeks -> Nat], overlappedWeeks' \subseteq Usage!Weeks,
           overlappedWeeks \subseteq overlappedWeeks',
           UsageWeeksOK(today, daily, weekly', told', overlappedWeeks'),
           UsageMonthsOK(daily, monthly'),
           UsageRollupOK(y, today, daily, told', overlappedWeeks'),
           \A u \in Workers \ {v}, w \in Usage!Weeks :
             UsageSums(y, w) /\ UsageSums(rollup[u], w) => w \in overlappedWeeks',
           \A u \in Workers \ {v}, w \in Usage!Weeks :
             UsageSums(rollup[u], w) => told'[w] = told[w] \/ w \in overlappedWeeks'
    PROVE  UsageRollInv'
<1>1. PICK l, q : l = told' /\ q = overlappedWeeks'
  OBVIOUS
<1>2. rollup \in [Workers -> Usage!Rollup] /\ told \in [Usage!Weeks -> Nat]
  BY DEF UsageRollInv
<1>3. \A u \in Workers : rollup'[u] = IF u = v THEN y ELSE rollup[u]
  BY <1>2
<1>4. rollup' \in [Workers -> Usage!Rollup]
  BY <1>2
<1>5. \A u \in Workers \ {v} : UsageRollupOK(rollup[u], today, daily, l, q)
  <2> SUFFICES ASSUME NEW u \in Workers \ {v} PROVE UsageRollupOK(rollup[u], today, daily, l, q)
    OBVIOUS
  <2>1. PICK x \in Usage!Rollup : x = rollup[u] /\ UsageRollupOK(x, today, daily, told, overlappedWeeks)
    BY UsageTask DEF UsageRollInv
  <2>2. Usage!WeekOf(x.now) \in Usage!Weeks
    BY <2>1, UsageTask
  <2>3. UsageSums(x, Usage!WeekOf(x.now)) =>
          l[Usage!WeekOf(x.now)] = told[Usage!WeekOf(x.now)] \/ Usage!WeekOf(x.now) \in q
    BY <1>1, <2>1, <2>2
  <2>4. today <= today
    BY UsageTask, UsageDefaults
  <2>5. UsageRollupOK(x, today, daily, l, q)
    BY <1>1, <1>2, <2>1, <2>3, <2>4, UsageTask, UsageRollupStays
  <2>6. QED
    BY <2>1, <2>5
<1>6. \A u \in Workers : UsageRollupOK(rollup'[u], today, daily, l, q)
  BY <1>1, <1>3, <1>5
<1>7. \A u \in Workers : \A e \in Workers \ {u} : \A w \in Usage!Weeks :
        UsageSums(rollup'[u], w) /\ UsageSums(rollup'[e], w) => w \in q
  <2> SUFFICES ASSUME NEW u \in Workers, NEW e \in Workers \ {u}, NEW w \in Usage!Weeks,
                      UsageSums(rollup'[u], w), UsageSums(rollup'[e], w)
               PROVE  w \in q
    OBVIOUS
  <2>1. CASE u = v
    BY <1>1, <1>3, <2>1
  <2>2. CASE e = v
    BY <1>1, <1>3, <2>2
  <2>3. CASE u # v /\ e # v
    <3>1. UsageSums(rollup[u], w) /\ UsageSums(rollup[e], w)
      BY <1>3, <2>3
    <3>2. w \in overlappedWeeks
      BY <3>1 DEF UsageRollInv
    <3>3. QED
      BY <1>1, <3>2
  <2>4. QED
    BY <2>1, <2>2, <2>3
<1>8. \A u \in Workers : \A e \in Workers \ {u} : \A w \in Usage!Weeks :
        (UsageSums(rollup[u], w) /\ UsageSums(rollup[e], w) => w \in overlappedWeeks)'
  BY <1>1, <1>7 DEF UsageSums
<1>9. \A u \in Workers : UsageRollupOK(rollup[u], today, daily, told, overlappedWeeks)'
  BY <1>1, <1>6 DEF UsageRollupOK
<1>10. UsageWeeksOK(today, daily, weekly, told, overlappedWeeks)' /\ UsageMonthsOK(daily, monthly)'
  BY DEF UsageWeeksOK, UsageMonthsOK
<1>11. QED
  BY <1>4, <1>8, <1>9, <1>10 DEF UsageRollInv

LEMMA UsageMaxTwo ==
    ASSUME NEW a \in Nat, NEW b \in Nat
    PROVE  Usage!Max({a, b}) = IF a <= b THEN b ELSE a
<1>1. Usage!Max({a, b}) \in {a, b} /\ \A x \in {a, b} : Usage!Max({a, b}) >= x
  <2>1. \E m \in {a, b} : \A x \in {a, b} : m >= x
    <3>1. CASE a <= b
      BY <3>1
    <3>2. CASE ~(a <= b)
      BY <3>2
    <3>3. QED
      BY <3>1, <3>2
  <2>2. QED
    BY <2>1 DEF Usage!Max
<1>2. QED
  BY <1>1

LEMMA UsageRollQuiet ==
    ASSUME UsageCallInv, UsageRollInv, NEW v \in Workers, NEW y \in Usage!Rollup,
           UNCHANGED <<today, daily, weekly, told, overlappedWeeks>>,
           rollup' = [rollup EXCEPT ![v] = y],
           UsageRollupOK(y, today, daily, told, overlappedWeeks),
           monthly' \in [Usage!Months -> Nat], UsageMonthsOK(daily, monthly'),
           \A w \in Usage!Weeks : UsageSums(y, w) => UsageSums(rollup[v], w)
    PROVE  UsageRollInv'
<1>1. /\ weekly' \in [Usage!Weeks -> Nat] /\ told' \in [Usage!Weeks -> Nat]
      /\ overlappedWeeks' \subseteq Usage!Weeks
  BY DEF UsageRollInv
<1>2. /\ UsageWeeksOK(today, daily, weekly', told', overlappedWeeks')
      /\ UsageRollupOK(y, today, daily, told', overlappedWeeks')
  BY DEF UsageRollInv
<1>3. \A u \in Workers \ {v}, w \in Usage!Weeks :
        UsageSums(y, w) /\ UsageSums(rollup[u], w) => w \in overlappedWeeks'
  BY DEF UsageRollInv
<1>4. QED
  BY <1>1, <1>2, <1>3, UsageRollMove

LEMMA UsageBeginPreserves ==
    ASSUME UsageCallInv, UsageRollInv, NEW v \in Workers, Usage!BeginRollup(v) PROVE UsageRollInv'
<1>1. PICK y : y = [pc |-> "week", now |-> today, sum |-> 0]
  OBVIOUS
<1>2. /\ rollup' = [rollup EXCEPT ![v] = y]
      /\ UNCHANGED <<today, daily, weekly, monthly, told>>
  BY <1>1 DEF Usage!BeginRollup, Usage!OnlyRollup
<1>3. y \in Usage!Rollup /\ y.pc = "week" /\ y.now = today
  BY <1>1, UsageTask DEF Usage!Rollup
<1>4. PICK week \in Usage!Weeks : week = Usage!WeekOf(today)
  BY UsageTask DEF Usage!Weeks
<1>5. /\ overlappedWeeks \subseteq overlappedWeeks' /\ overlappedWeeks' \subseteq Usage!Weeks
      /\ \A u \in Workers : UsageSums(rollup[u], week) => week \in overlappedWeeks'
  <2>1. overlappedWeeks \subseteq Usage!Weeks
    BY DEF UsageRollInv
  <2>2. CASE \E u \in Workers : UsageSums(rollup[u], week)
    BY <1>4, <2>1, <2>2 DEF Usage!BeginRollup, UsageSums
  <2>3. CASE ~ \E u \in Workers : UsageSums(rollup[u], week)
    BY <1>4, <2>1, <2>3 DEF Usage!BeginRollup, UsageSums
  <2>4. QED
    BY <2>2, <2>3
<1>6. PICK o : o = overlappedWeeks'
  OBVIOUS
<1>7. UsageWeeksOK(today, daily, weekly, told, o)
  BY <1>5, <1>6 DEF UsageRollInv, UsageWeeksOK
<1>8. UsageWeeksOK(today, daily, weekly', told', overlappedWeeks')
  BY <1>2, <1>6, <1>7
<1>9. told[week] <= Total(daily, UsageWeek(week, today)) /\ today <= today
  BY UsageTask, UsageDefaults DEF UsageRollInv, UsageWeeksOK
<1>10. UsageRollupOK(y, today, daily, told, o)
  BY <1>3, <1>4, <1>9 DEF UsageRollupOK
<1>11. UsageRollupOK(y, today, daily, told', overlappedWeeks')
  BY <1>2, <1>6, <1>10
<1>12. \A w : UsageSums(y, w) => w = week
  BY <1>3, <1>4 DEF UsageSums
<1>13. \A u \in Workers \ {v}, w \in Usage!Weeks :
         UsageSums(y, w) /\ UsageSums(rollup[u], w) => w \in overlappedWeeks'
  BY <1>5, <1>12
<1>14. /\ weekly' \in [Usage!Weeks -> Nat] /\ told' \in [Usage!Weeks -> Nat]
       /\ monthly' \in [Usage!Months -> Nat] /\ UsageMonthsOK(daily, monthly')
  BY <1>2 DEF UsageRollInv
<1>15. \A w : told'[w] = told[w]
  BY <1>2
<1>16. QED
  BY <1>2, <1>3, <1>5, <1>8, <1>11, <1>13, <1>14, <1>15, UsageRollMove

LEMMA UsageSumWeekPreserves ==
    ASSUME UsageCallInv, UsageRollInv, NEW v \in Workers, Usage!SumWeek(v) PROVE UsageRollInv'
<1>1. PICK x \in Usage!Rollup : /\ x = rollup[v] /\ x.pc = "week" /\ x.now \in Usage!Days
                                /\ UsageRollupOK(x, today, daily, told, overlappedWeeks)
  BY UsageTask DEF Usage!SumWeek, UsageRollInv
<1>2. PICK week : week = Usage!WeekOf(x.now)
  OBVIOUS
<1>3. Usage!DaysOfWeek(x.now) = UsageWeek(week, x.now)
  BY <1>2 DEF Usage!DaysOfWeek, UsageWeek
<1>4. PICK sum : sum = Total(daily, UsageWeek(week, x.now))
  OBVIOUS
<1>5. x.now <= x.now
  BY <1>1, UsageDefaults
<1>6. sum \in Nat
  BY <1>1, <1>4, <1>5, UsageTask, UsageGrows
<1>7. Usage!Spent(Usage!DaysOfWeek(x.now)) = sum
  BY <1>3, <1>4, UsageSpent
<1>8. /\ UNCHANGED <<today, daily, weekly, monthly, told, overlappedWeeks>>
      /\ monthly' \in [Usage!Months -> Nat] /\ UsageMonthsOK(daily, monthly')
  BY DEF Usage!SumWeek, Usage!OnlyRollup, UsageRollInv
<1>9. CASE sum = 0
  <2>1. rollup' = [rollup EXCEPT ![v] = Usage!NoRollup]
    BY <1>1, <1>7, <1>9 DEF Usage!SumWeek
  <2>2. UsageRollupOK(Usage!NoRollup, today, daily, told, overlappedWeeks)
    BY UsageNoRollup, UsageTask
  <2>3. QED
    BY <1>8, <2>1, <2>2, UsageNoRollup, UsageRollQuiet
<1>10. CASE sum # 0
  <2>1. PICK y : y = [x EXCEPT !.pc = "saveWeek", !.sum = sum]
    OBVIOUS
  <2>2. rollup' = [rollup EXCEPT ![v] = y]
    BY <1>1, <1>7, <1>10, <2>1 DEF Usage!SumWeek
  <2>3. y \in Usage!Rollup /\ y.pc = "saveWeek" /\ y.now = x.now /\ y.sum = sum
    BY <1>6, <2>1 DEF Usage!Rollup
  <2>4. UsageRollupOK(y, today, daily, told, overlappedWeeks)
    <3>1. x.now <= today /\ (week \in overlappedWeeks \/ told[week] <= sum)
      BY <1>1, <1>2, <1>4 DEF UsageRollupOK
    <3>2. sum <= Total(daily, UsageWeek(week, x.now))
      BY <1>4, <1>6
    <3>3. QED
      BY <1>2, <2>3, <3>1, <3>2 DEF UsageRollupOK
  <2>5. \A w : UsageSums(y, w) => UsageSums(rollup[v], w)
    BY <1>1, <2>3 DEF UsageSums
  <2>6. QED
    BY <1>8, <2>2, <2>3, <2>4, <2>5, UsageRollQuiet
<1>11. QED
  BY <1>9, <1>10

LEMMA UsageSaveWeekPreserves ==
    ASSUME UsageCallInv, UsageRollInv, NEW v \in Workers, Usage!SaveWeek(v) PROVE UsageRollInv'
<1>1. PICK x \in Usage!Rollup :
        /\ x = rollup[v] /\ x.pc = "saveWeek" /\ x.now \in Usage!Days /\ x.sum \in Nat
        /\ x.now <= today /\ Usage!WeekOf(x.now) \in Usage!Weeks
        /\ UsageRollupOK(x, today, daily, told, overlappedWeeks)
  BY UsageTask DEF Usage!SaveWeek, UsageRollInv
<1>2. PICK week \in Usage!Weeks : week = Usage!WeekOf(x.now)
  BY <1>1
<1>3. PICK y : y = [x EXCEPT !.pc = "month", !.sum = 0]
  OBVIOUS
<1>4. y \in Usage!Rollup /\ y.pc = "month" /\ y.now = x.now
  BY <1>3 DEF Usage!Rollup
<1>5. rollup \in [Workers -> Usage!Rollup] /\ weekly \in [Usage!Weeks -> Nat] /\ told \in [Usage!Weeks -> Nat]
  BY DEF UsageRollInv
<1>6. /\ rollup' = [rollup EXCEPT ![v] = y]
      /\ UNCHANGED <<today, daily, monthly, overlappedWeeks>>
  BY <1>1, <1>3, <1>5 DEF Usage!SaveWeek, Usage!OnlyRollup, Usage!Rollup
<1>7. PICK most \in Nat : most = Usage!Max({told[week], x.sum})
                          /\ most = IF told[week] <= x.sum THEN x.sum ELSE told[week]
  BY <1>1, <1>2, <1>5, UsageMaxTwo
<1>8. weekly' = [weekly EXCEPT ![week] = x.sum] /\ told' = [told EXCEPT ![week] = most]
  BY <1>1, <1>2, <1>7 DEF Usage!SaveWeek
<1>9. PICK g, k : g = weekly' /\ k = told'
  OBVIOUS
<1>10. /\ g \in [Usage!Weeks -> Nat] /\ k \in [Usage!Weeks -> Nat]
       /\ \A w \in Usage!Weeks : /\ g[w] = IF w = week THEN x.sum ELSE weekly[w]
                                 /\ k[w] = IF w = week THEN most ELSE told[w]
  BY <1>1, <1>5, <1>7, <1>8, <1>9
<1>11. x.sum <= Total(daily, UsageWeek(week, x.now)) /\ (week \in overlappedWeeks \/ told[week] <= x.sum)
  BY <1>1, <1>2 DEF UsageRollupOK
<1>12. x.sum <= Total(daily, UsageWeek(week, today)) /\ Total(daily, UsageWeek(week, today)) \in Nat
  <2>1. /\ Total(daily, UsageWeek(week, x.now)) \in Nat /\ Total(daily, UsageWeek(week, today)) \in Nat
        /\ Total(daily, UsageWeek(week, x.now)) <= Total(daily, UsageWeek(week, today))
    BY <1>1, UsageTask, UsageGrows
  <2>2. QED
    BY <1>1, <1>11, <2>1
<1>13. UsageWeeksOK(today, daily, g, k, overlappedWeeks)
  <2> SUFFICES ASSUME NEW w \in Usage!Weeks
               PROVE  /\ g[w] <= k[w] /\ k[w] <= Total(daily, UsageWeek(w, today))
                      /\ g[w] = k[w] \/ w \in overlappedWeeks
    BY DEF UsageWeeksOK
  <2>1. /\ told[w] <= Total(daily, UsageWeek(w, today)) /\ weekly[w] <= told[w]
        /\ weekly[w] = told[w] \/ w \in overlappedWeeks
    BY DEF UsageRollInv, UsageWeeksOK
  <2>2. told[w] \in Nat /\ weekly[w] \in Nat
    BY <1>5
  <2>3. CASE w # week
    BY <1>10, <2>1, <2>3
  <2>4. CASE w = week
    <3>1. g[w] = x.sum /\ k[w] = most
      BY <1>10, <2>4
    <3>2. x.sum <= most /\ most <= Total(daily, UsageWeek(w, today))
      BY <1>1, <1>7, <1>12, <2>1, <2>2, <2>4
    <3>3. x.sum = most \/ w \in overlappedWeeks
      BY <1>7, <1>11, <2>4
    <3>4. QED
      BY <3>1, <3>2, <3>3
  <2>5. QED
    BY <2>3, <2>4
<1>14. UsageRollupOK(y, today, daily, k, overlappedWeeks)
  BY <1>1, <1>4 DEF UsageRollupOK
<1>15. \A u \in Workers \ {v}, w \in Usage!Weeks :
         UsageSums(rollup[u], w) => k[w] = told[w] \/ w \in overlappedWeeks
  <2> SUFFICES ASSUME NEW u \in Workers \ {v}, NEW w \in Usage!Weeks, UsageSums(rollup[u], w)
               PROVE  k[w] = told[w] \/ w \in overlappedWeeks
    OBVIOUS
  <2>1. CASE w # week
    BY <1>10, <2>1
  <2>2. CASE w = week
    <3>1. UsageSums(rollup[v], w)
      BY <1>1, <1>2, <2>2 DEF UsageSums
    <3>2. QED
      BY <3>1 DEF UsageRollInv
  <2>3. QED
    BY <2>1, <2>2
<1>16. \A w : ~UsageSums(y, w)
  BY <1>4 DEF UsageSums
<1>17. /\ overlappedWeeks' = overlappedWeeks /\ overlappedWeeks' \subseteq Usage!Weeks
       /\ monthly' \in [Usage!Months -> Nat] /\ UsageMonthsOK(daily, monthly')
  BY <1>6 DEF UsageRollInv
<1>18. /\ UsageWeeksOK(today, daily, weekly', told', overlappedWeeks')
       /\ UsageRollupOK(y, today, daily, told', overlappedWeeks')
  BY <1>9, <1>13, <1>14, <1>17
<1>19. \A u \in Workers \ {v}, w \in Usage!Weeks :
         UsageSums(rollup[u], w) => told'[w] = told[w] \/ w \in overlappedWeeks'
  BY <1>9, <1>15, <1>17
<1>20. weekly' \in [Usage!Weeks -> Nat] /\ told' \in [Usage!Weeks -> Nat]
  BY <1>9, <1>10
<1>21. QED
  BY <1>4, <1>6, <1>16, <1>17, <1>18, <1>19, <1>20, UsageRollMove

LEMMA UsageSumMonthPreserves ==
    ASSUME UsageCallInv, UsageRollInv, NEW v \in Workers, Usage!SumMonth(v) PROVE UsageRollInv'
<1>1. PICK x \in Usage!Rollup : /\ x = rollup[v] /\ x.pc = "month" /\ x.now \in Usage!Days
                                /\ x.now <= today
  BY UsageTask DEF Usage!SumMonth
<1>2. PICK month : month = Usage!MonthOf(x.now)
  OBVIOUS
<1>3. PICK sum : sum = Total(daily, UsageMonth(month, x.now))
  OBVIOUS
<1>4. x.now <= x.now
  BY <1>1, UsageDefaults
<1>5. sum \in Nat
  BY <1>1, <1>3, <1>4, UsageTask, UsageGrows
<1>6. Usage!DaysOfMonth(x.now) = UsageMonth(month, x.now)
  BY <1>2 DEF Usage!DaysOfMonth, UsageMonth
<1>7. Usage!Spent(Usage!DaysOfMonth(x.now)) = sum
  BY <1>3, <1>6, UsageSpent
<1>8. PICK y : y = [x EXCEPT !.pc = "saveMonth", !.sum = sum]
  OBVIOUS
<1>9. rollup \in [Workers -> Usage!Rollup]
  BY DEF UsageRollInv
<1>10. rollup' = [rollup EXCEPT ![v] = y]
  BY <1>1, <1>7, <1>8, <1>9 DEF Usage!SumMonth, Usage!Rollup
<1>11. y \in Usage!Rollup /\ y.pc = "saveMonth" /\ y.now = x.now /\ y.sum = sum
  BY <1>5, <1>8 DEF Usage!Rollup
<1>12. sum <= Total(daily, UsageMonth(month, x.now))
  BY <1>3, <1>5
<1>13. UsageRollupOK(y, today, daily, told, overlappedWeeks) /\ \A w : ~UsageSums(y, w)
  BY <1>1, <1>2, <1>11, <1>12 DEF UsageRollupOK, UsageSums
<1>14. /\ UNCHANGED <<today, daily, weekly, monthly, told, overlappedWeeks>>
       /\ monthly' \in [Usage!Months -> Nat] /\ UsageMonthsOK(daily, monthly')
  BY DEF Usage!SumMonth, Usage!OnlyRollup, UsageRollInv
<1>15. QED
  BY <1>10, <1>11, <1>13, <1>14, UsageRollQuiet

LEMMA UsageSaveMonthPreserves ==
    ASSUME UsageCallInv, UsageRollInv, NEW v \in Workers, Usage!SaveMonth(v) PROVE UsageRollInv'
<1>1. PICK x \in Usage!Rollup :
        /\ x = rollup[v] /\ x.pc = "saveMonth" /\ x.now \in Usage!Days /\ x.sum \in Nat
        /\ Usage!MonthOf(x.now) \in Usage!Months
        /\ UsageRollupOK(x, today, daily, told, overlappedWeeks)
  BY UsageTask DEF Usage!SaveMonth, UsageRollInv
<1>2. PICK month \in Usage!Months : month = Usage!MonthOf(x.now)
  BY <1>1
<1>3. /\ UNCHANGED <<today, daily, weekly, told, overlappedWeeks>>
      /\ rollup' = [rollup EXCEPT ![v] = Usage!NoRollup]
      /\ monthly' = [monthly EXCEPT ![month] = x.sum]
  BY <1>1, <1>2 DEF Usage!SaveMonth, Usage!OnlyRollup
<1>4. monthly \in [Usage!Months -> Nat]
  BY DEF UsageRollInv
<1>5. PICK g : g = monthly'
  OBVIOUS
<1>6. /\ g \in [Usage!Months -> Nat]
      /\ \A m \in Usage!Months : g[m] = IF m = month THEN x.sum ELSE monthly[m]
  BY <1>1, <1>3, <1>4, <1>5
<1>7. x.sum <= Total(daily, UsageMonth(month, LedgerDays))
  <2>1. x.sum <= Total(daily, UsageMonth(month, x.now))
    BY <1>1, <1>2 DEF UsageRollupOK
  <2>2. LedgerDays \in Usage!Days /\ x.now <= LedgerDays
    BY <1>1, UsageDefaults
  <2>3. /\ Total(daily, UsageMonth(month, x.now)) \in Nat /\ Total(daily, UsageMonth(month, LedgerDays)) \in Nat
        /\ Total(daily, UsageMonth(month, x.now)) <= Total(daily, UsageMonth(month, LedgerDays))
    BY <1>1, <2>2, UsageTask, UsageGrows
  <2>4. QED
    BY <1>1, <2>1, <2>3
<1>8. UsageMonthsOK(daily, g)
  BY <1>6, <1>7 DEF UsageMonthsOK, UsageRollInv
<1>9. UsageRollupOK(Usage!NoRollup, today, daily, told, overlappedWeeks)
  BY UsageNoRollup, UsageTask
<1>10. monthly' \in [Usage!Months -> Nat] /\ UsageMonthsOK(daily, monthly')
  BY <1>5, <1>6, <1>8
<1>11. QED
  BY <1>3, <1>9, <1>10, UsageNoRollup, UsageRollQuiet

LEMMA UsageRollupFailsPreserves ==
    ASSUME UsageCallInv, UsageRollInv, NEW v \in Workers, Usage!RollupFails(v) PROVE UsageRollInv'
<1>1. /\ UNCHANGED <<today, daily, weekly, monthly, told, overlappedWeeks>>
      /\ rollup' = [rollup EXCEPT ![v] = Usage!NoRollup]
  BY DEF Usage!RollupFails, Usage!OnlyRollup
<1>2. UsageRollupOK(Usage!NoRollup, today, daily, told, overlappedWeeks)
  BY UsageNoRollup, UsageTask
<1>3. monthly' \in [Usage!Months -> Nat] /\ UsageMonthsOK(daily, monthly')
  BY <1>1 DEF UsageRollInv
<1>4. QED
  BY <1>1, <1>2, <1>3, UsageNoRollup, UsageRollQuiet

-----------------------------------------------------------------------------
UsageInv == UsageCallInv /\ UsageRollInv

LEMMA UsageInit == Usage!Init => UsageInv
BY UsageCallInit, UsageRollInit DEF UsageInv

\* Days only grow, and time goes on.
LEMMA UsageDaysGrow ==
    ASSUME UsageCallInv, NEW c \in Clients, Usage!Count(c)
    PROVE  \A d \in Usage!Days : daily'[d] \in Nat /\ daily[d] <= daily'[d]
<1>1. PICK more \in Nat : more = usageRequest[c].cost
  BY UsageHandler, UsageCostType
<1>2. daily' = [daily EXCEPT ![today] = @ + more]
  BY <1>1 DEF Usage!Count
<1>3. daily \in [Usage!Days -> Nat]
  BY DEF UsageCallInv
<1>4. QED
  BY <1>2, <1>3

\* Every step keeps it, and so does one of another part.
LEMMA UsageStep == UsageInv /\ [Usage!Next]_usageVars => UsageInv'
<1> SUFFICES ASSUME UsageInv, [Usage!Next]_usageVars PROVE UsageInv'
  OBVIOUS
<1>1. UsageCallInv /\ UsageRollInv
  BY DEF UsageInv
<1>2. today \in Usage!Days /\ today <= today /\ \A d \in Usage!Days : daily[d] \in Nat /\ daily[d] <= daily[d]
  BY <1>1, UsageTask, UsageDefaults
<1>3. CASE UNCHANGED usageVars
  <2>1. /\ UNCHANGED <<today, daily, recorded, usageRequest, missed>>
        /\ UNCHANGED <<weekly, monthly, told, rollup, overlappedWeeks>>
    BY <1>3 DEF usageVars
  <2>2. UsageCallInv'
    BY <1>1, <1>2, <2>1, UsageCallStays
  <2>3. UsageRollInv'
    BY <1>1, <1>2, <2>1, UsageRollStays
  <2>4. QED
    BY <2>2, <2>3 DEF UsageInv
<1>4. ASSUME NEW c \in Clients,
             \/ Usage!Ask(c) \/ Usage!CountFails(c) \/ Usage!End(c) \/ \E cost \in Costs : Usage!Insert(c, cost)
      PROVE  UsageInv'
  <2>1. UsageCallInv'
    BY <1>1, <1>4, UsageAskPreserves, UsageCountFailsPreserves, UsageEndPreserves, UsageInsertPreserves
  <2>2. UNCHANGED <<today, daily>> /\ UNCHANGED <<weekly, monthly, told, rollup, overlappedWeeks>>
    BY <1>4 DEF Usage!Ask, Usage!CountFails, Usage!End, Usage!Insert
  <2>3. UsageRollInv'
    BY <1>1, <1>2, <2>2, UsageRollStays
  <2>4. QED
    BY <2>1, <2>3 DEF UsageInv
<1>5. ASSUME NEW c \in Clients, Usage!Count(c) PROVE UsageInv'
  <2>1. UsageCallInv'
    BY <1>1, <1>5, UsageCountPreserves
  <2>2. UNCHANGED today /\ UNCHANGED <<weekly, monthly, told, rollup, overlappedWeeks>>
    BY <1>5 DEF Usage!Count
  <2>3. \A d \in Usage!Days : daily'[d] \in Nat /\ daily[d] <= daily'[d]
    BY <1>1, <1>5, UsageDaysGrow
  <2>4. UsageRollInv'
    BY <1>1, <1>2, <2>2, <2>3, UsageRollStays
  <2>5. QED
    BY <2>1, <2>4 DEF UsageInv
<1>6. ASSUME NEW v \in Workers,
             \/ Usage!BeginRollup(v) \/ Usage!SumWeek(v) \/ Usage!SaveWeek(v) \/ Usage!SumMonth(v)
             \/ Usage!SaveMonth(v) \/ Usage!RollupFails(v)
      PROVE  UsageInv'
  <2>1. UsageRollInv'
    BY <1>1, <1>6, UsageBeginPreserves, UsageSumWeekPreserves, UsageSaveWeekPreserves,
       UsageSumMonthPreserves, UsageSaveMonthPreserves, UsageRollupFailsPreserves
  <2>2. UNCHANGED <<today, daily, recorded, usageRequest, missed>>
    BY <1>6 DEF Usage!BeginRollup, Usage!SumWeek, Usage!SaveWeek, Usage!SumMonth,
                Usage!SaveMonth, Usage!RollupFails, Usage!OnlyRollup
  <2>3. UsageCallInv'
    BY <1>1, <1>2, <2>2, UsageCallStays
  <2>4. QED
    BY <2>1, <2>3 DEF UsageInv
<1>7. CASE Usage!NextDay
  <2>1. today' \in Usage!Days /\ today <= today'
    BY <1>2, <1>7, UsageDefaults DEF Usage!NextDay
  <2>2. UNCHANGED daily /\ UNCHANGED <<weekly, monthly, told, rollup, overlappedWeeks>>
    BY <1>7 DEF Usage!NextDay
  <2>3. UsageCallInv'
    BY <1>1, <1>7, <2>1, UsageCallStays DEF Usage!NextDay
  <2>4. UsageRollInv'
    BY <1>1, <1>2, <2>1, <2>2, UsageRollStays
  <2>5. QED
    BY <2>3, <2>4 DEF UsageInv
<1>8. QED
  BY <1>3, <1>4, <1>5, <1>6, <1>7 DEF Usage!Next

LEMMA UsageTells ==
    ASSUME UsageInv PROVE Usage!TypeOK /\ Usage!LedgerTellsCalls
<1>1. UsageCallInv /\ UsageRollInv
  BY DEF UsageInv
<1>2. Usage!TypeOK
  BY <1>1 DEF UsageCallInv, UsageRollInv, Usage!TypeOK
<1>3. Usage!Spent(Usage!Days) + missed + Usage!MapThenSumSet(LAMBDA c : Usage!OnTheWay[c], Clients)
        = recorded
  <2>1. Usage!MapThenSumSet(LAMBDA c : Usage!OnTheWay[c], Clients) = Total(Usage!OnTheWay, Clients)
    BY DEF Usage!MapThenSumSet, Usage!MapThenFoldSet, Total, Adding, Pick
  <2>2. QED
    BY <1>1, <2>1, UsageSpent DEF UsageCallInv
<1>4. ASSUME NEW w \in Usage!Weeks
      PROVE  /\ weekly[w] <= Usage!Spent({d \in Usage!Days : Usage!WeekOf(d) = w})
             /\ weekly[w] = told[w] \/ w \in overlappedWeeks
  <2>1. {d \in Usage!Days : Usage!WeekOf(d) = w} = UsageWeek(w, LedgerDays)
    BY UsageDefaults DEF UsageWeek
  <2>2. LedgerDays \in Usage!Days /\ today <= LedgerDays
    BY <1>1, UsageTask, UsageDefaults
  <2>3. /\ Total(daily, UsageWeek(w, today)) \in Nat /\ Total(daily, UsageWeek(w, LedgerDays)) \in Nat
        /\ Total(daily, UsageWeek(w, today)) <= Total(daily, UsageWeek(w, LedgerDays))
    BY <1>1, <2>2, UsageTask, UsageGrows
  <2>4. /\ weekly[w] <= told[w] /\ told[w] <= Total(daily, UsageWeek(w, today))
        /\ weekly[w] = told[w] \/ w \in overlappedWeeks
    BY <1>1 DEF UsageRollInv, UsageWeeksOK
  <2>5. weekly[w] \in Nat /\ told[w] \in Nat
    BY <1>1 DEF UsageRollInv
  <2>6. weekly[w] <= Total(daily, UsageWeek(w, LedgerDays))
    BY <2>3, <2>4, <2>5
  <2>7. QED
    BY <2>1, <2>4, <2>6, UsageSpent
<1>5. ASSUME NEW m \in Usage!Months
      PROVE  monthly[m] <= Usage!Spent({d \in Usage!Days : Usage!MonthOf(d) = m})
  <2>1. {d \in Usage!Days : Usage!MonthOf(d) = m} = UsageMonth(m, LedgerDays)
    BY UsageDefaults DEF UsageMonth
  <2>2. monthly[m] <= Total(daily, UsageMonth(m, LedgerDays))
    BY <1>1 DEF UsageRollInv, UsageMonthsOK
  <2>3. QED
    BY <2>1, <2>2, UsageSpent
<1>6. Usage!LedgerTellsCalls
  BY <1>3, <1>4, <1>5 DEF Usage!LedgerTellsCalls
<1>7. QED
  BY <1>2, <1>6

-----------------------------------------------------------------------------
\* What is in hand: decode_ctc of locale_service.py.

\* What of an amount x lies between two bounds.
Within(x, low, high) == IF x <= low THEN 0 ELSE IF x <= high THEN x - low ELSE high - low

\* More of x lies within no less, and by no more than x grows; and what lies within
\* two intervals in a row lies within both.
LEMMA WithinGrows ==
    ASSUME NEW x \in Nat, NEW y \in Nat, x <= y, NEW low \in Nat, NEW high \in Nat, low <= high
    PROVE  /\ Within(x, low, high) \in Nat /\ Within(y, low, high) \in Nat
           /\ Within(x, low, high) <= Within(y, low, high)
           /\ Within(y, low, high) - Within(x, low, high) <= y - x
BY DEF Within

LEMMA WithinBoth ==
    ASSUME NEW x \in Nat, NEW low \in Nat, NEW mid \in Nat, NEW high \in Nat, low <= mid, mid <= high
    PROVE  Within(x, low, mid) + Within(x, mid, high) = Within(x, low, high)
BY DEF Within

LEMMA PayMax == ASSUME NEW x \in Int PROVE Pay!Max({0, x}) = IF x <= 0 THEN 0 ELSE x
<1>1. Pay!Max({0, x}) \in {0, x} /\ \A y \in {0, x} : Pay!Max({0, x}) >= y
  <2>1. \E m \in {0, x} : \A y \in {0, x} : m >= y
    <3>1. CASE x <= 0
      BY <3>1
    <3>2. CASE ~(x <= 0)
      BY <3>2
    <3>3. QED
      BY <3>1, <3>2
  <2>2. QED
    BY <2>1 DEF Pay!Max
<1>2. QED
  BY <1>1

LEMMA PayMin ==
    ASSUME NEW x \in Int, NEW y \in Int PROVE Pay!Min({x, y}) = IF x <= y THEN x ELSE y
<1>1. Pay!Min({x, y}) \in {x, y} /\ \A z \in {x, y} : z >= Pay!Min({x, y})
  <2>1. \E m \in {x, y} : \A z \in {x, y} : z >= m
    <3>1. CASE x <= y
      BY <3>1
    <3>2. CASE ~(x <= y)
      BY <3>2
    <3>3. QED
      BY <3>1, <3>2
  <2>2. QED
    BY <2>1 DEF Pay!Min
<1>2. QED
  BY <1>1

\* Where a slab ends for incomes up to top.
PayHigh(slab, top) == IF slab.high = Pay!Infinity THEN top ELSE slab.high

LEMMA PayTaxedIn ==
    ASSUME NEW x \in Nat, NEW top \in Nat, x <= top, NEW slab, slab.low \in Nat,
           PayHigh(slab, top) \in Nat
    PROVE  Pay!TaxedIn(x, slab) = Within(x, slab.low, PayHigh(slab, top))
<1>1. CASE slab.high = Pay!Infinity
  BY <1>1 DEF Pay!TaxedIn, Within, PayHigh
<1>2. CASE slab.high # Pay!Infinity
  BY <1>2, PayMin DEF Pay!TaxedIn, Within, PayHigh
<1>3. QED
  BY <1>1, <1>2

\* The sums over four and six numbers.
LEMMA TotalOfFour ==
    ASSUME NEW f, \A i \in 1..4 : f[i] \in Nat
    PROVE  Total(f, 1..4) = f[1] + f[2] + f[3] + f[4]
<1>1. /\ IsFiniteSet(1..4) /\ IsFiniteSet({1, 2, 3}) /\ IsFiniteSet({1, 2}) /\ IsFiniteSet({1})
      /\ 1..4 = {1, 2, 3, 4}
  <2>1. 1..4 = {1, 2, 3, 4}
    OBVIOUS
  <2>2. IsFiniteSet(1..4)
    <3>1. PICK n \in Int : n = 4
      OBVIOUS
    <3>2. IsFiniteSet(1..n)
      BY FS_Interval
    <3>3. 1..n = {1, 2, 3, 4}
      BY <3>1
    <3>4. QED
      BY <2>1, <3>2, <3>3
  <2>3. {1, 2, 3} \in SUBSET (1..4) /\ {1, 2} \in SUBSET (1..4) /\ {1} \in SUBSET (1..4)
    OBVIOUS
  <2>4. QED
    BY <2>1, <2>2, <2>3, FS_Subset
<1>2. Total(f, 1..4) = f[4] + Total(f, {1, 2, 3})
  <2>1. (1..4) \ {4} = {1, 2, 3} /\ 4 \in 1..4
    OBVIOUS
  <2>2. Total(f, 1..4) = f[4] + Total(f, (1..4) \ {4})
    BY <1>1, <2>1, TotalOne
  <2>3. QED
    BY <2>1, <2>2
<1>3. Total(f, {1, 2, 3}) = f[3] + Total(f, {1, 2})
  <2>1. {1, 2, 3} \ {3} = {1, 2} /\ \A i \in {1, 2, 3} : f[i] \in Nat
    OBVIOUS
  <2>2. Total(f, {1, 2, 3}) = f[3] + Total(f, {1, 2, 3} \ {3})
    BY <1>1, <2>1, TotalOne
  <2>3. QED
    BY <2>1, <2>2
<1>4. Total(f, {1, 2}) = f[2] + Total(f, {1})
  <2>1. {1, 2} \ {2} = {1} /\ \A i \in {1, 2} : f[i] \in Nat
    OBVIOUS
  <2>2. Total(f, {1, 2}) = f[2] + Total(f, {1, 2} \ {2})
    BY <1>1, <2>1, TotalOne
  <2>3. QED
    BY <2>1, <2>2
<1>5. Total(f, {1}) = f[1] + 0
  <2>1. {1} \ {1} = {} /\ \A i \in {1} : f[i] \in Nat
    OBVIOUS
  <2>2. Total(f, {1}) = f[1] + Total(f, {1} \ {1})
    BY <1>1, <2>1, TotalOne
  <2>3. QED
    BY <2>1, <2>2, TotalEmpty
<1>6. QED
  BY <1>2, <1>3, <1>4, <1>5

LEMMA TotalOfSix ==
    ASSUME NEW f, \A i \in 1..6 : f[i] \in Nat
    PROVE  Total(f, 1..6) = f[1] + f[2] + f[3] + f[4] + f[5] + f[6]
<1>1. IsFiniteSet(1..6) /\ IsFiniteSet(1..5)
  <2>1. PICK m \in Int, n \in Int : m = 6 /\ n = 5
    OBVIOUS
  <2>2. IsFiniteSet(1..m)
    BY FS_Interval
  <2>6. IsFiniteSet(1..n)
    BY FS_Interval
  <2>5. 1..m = {1, 2, 3, 4, 5, 6} /\ 1..n = {1, 2, 3, 4, 5}
    BY <2>1
  <2>3. 1..6 = {1, 2, 3, 4, 5, 6} /\ 1..5 = {1, 2, 3, 4, 5}
    OBVIOUS
  <2>4. QED
    BY <2>2, <2>3, <2>5, <2>6
<1>2. Total(f, 1..6) = f[6] + Total(f, 1..5)
  <2>1. (1..6) \ {6} = 1..5 /\ 6 \in 1..6
    OBVIOUS
  <2>2. Total(f, 1..6) = f[6] + Total(f, (1..6) \ {6})
    BY <1>1, <2>1, TotalOne
  <2>3. QED
    BY <2>1, <2>2
<1>3. Total(f, 1..5) = f[5] + Total(f, 1..4)
  <2>1. (1..5) \ {5} = 1..4 /\ 5 \in 1..5 /\ \A i \in 1..5 : f[i] \in Nat
    OBVIOUS
  <2>2. Total(f, 1..5) = f[5] + Total(f, (1..5) \ {5})
    BY <1>1, <2>1, TotalOne
  <2>3. QED
    BY <2>1, <2>2
<1>4. Total(f, 1..4) = f[1] + f[2] + f[3] + f[4]
  BY TotalOfFour
<1>5. QED
  BY <1>2, <1>3, <1>4

\* The tax by slabs, of an income x.
PayLevy(x, regime) == Total(Pay!Levied(x, Pay!Slabs(regime)), DOMAIN Pay!Slabs(regime))

LEMMA PaySlabTax ==
    \A gross, regime : Pay!SlabTax(gross, regime) = PayLevy(Pay!Income(gross, regime), regime)
<1> SUFFICES ASSUME NEW gross, NEW regime
             PROVE  Pay!SlabTax(gross, regime) = PayLevy(Pay!Income(gross, regime), regime)
  OBVIOUS
<1>1. PICK x : x = Pay!Income(gross, regime)
  OBVIOUS
<1>2. PICK f : f = Pay!Levied(x, Pay!Slabs(regime))
  OBVIOUS
<1>3. DOMAIN f = DOMAIN Pay!Slabs(regime)
  BY <1>2 DEF Pay!Levied
<1>4. Pay!FoldFunction(+, 0, f) = Total(f, DOMAIN f)
  BY DEF Pay!FoldFunction, Pay!FoldFunctionOnSet, Pay!MapThenFoldSet, Total, Adding, Pick
<1>5. QED
  BY <1>1, <1>2, <1>3, <1>4 DEF Pay!SlabTax, PayLevy

\* Four or six slabs, from 0 on without a gap, at no more than 30 in a hundred.
PaySlab(slab, top) ==
    slab.low \in Nat /\ PayHigh(slab, top) \in Nat /\ slab.low <= PayHigh(slab, top)

LEMMA PayOldSlabs ==
    ASSUME NEW s, s = Pay!Slabs("OLD"), NEW top \in Nat, 1500000 <= top
    PROVE  /\ DOMAIN s = 1..4 /\ \A i \in 1..4 : PaySlab(s[i], top)
           /\ PayHigh(s[1], top) = s[2].low /\ PayHigh(s[2], top) = s[3].low /\ PayHigh(s[3], top) = s[4].low
           /\ s[1].rate = 0 /\ s[2].rate = 5 /\ s[3].rate = 20 /\ s[4].rate = 30
<1>1. DOMAIN s = 1..4
  BY SMT DEF Pay!Slabs
<1>2. PaySlab(s[1], top) /\ PaySlab(s[2], top) /\ PaySlab(s[3], top) /\ PaySlab(s[4], top)
  BY SMT DEF Pay!Slabs, PaySlab, PayHigh, Pay!Infinity
<1>3. \A i \in 1..4 : PaySlab(s[i], top)
  BY <1>2, SMT
<1>4. /\ PayHigh(s[1], top) = s[2].low /\ PayHigh(s[2], top) = s[3].low /\ PayHigh(s[3], top) = s[4].low
      /\ s[1].rate = 0 /\ s[2].rate = 5 /\ s[3].rate = 20 /\ s[4].rate = 30
  BY SMT DEF Pay!Slabs, PayHigh, Pay!Infinity
<1>5. QED
  BY <1>1, <1>3, <1>4, SMT

LEMMA PayNewSlabs ==
    ASSUME NEW s, s = Pay!Slabs("NEW"), NEW top \in Nat, 1500000 <= top
    PROVE  /\ DOMAIN s = 1..6 /\ \A i \in 1..6 : PaySlab(s[i], top)
           /\ PayHigh(s[1], top) = s[2].low /\ PayHigh(s[2], top) = s[3].low /\ PayHigh(s[3], top) = s[4].low
           /\ PayHigh(s[4], top) = s[5].low /\ PayHigh(s[5], top) = s[6].low
           /\ s[1].rate = 0 /\ s[2].rate = 5 /\ s[3].rate = 10 /\ s[4].rate = 15
           /\ s[5].rate = 20 /\ s[6].rate = 30
<1>1. DOMAIN s = 1..6
  BY SMT DEF Pay!Slabs
<1>2. /\ PaySlab(s[1], top) /\ PaySlab(s[2], top) /\ PaySlab(s[3], top) /\ PaySlab(s[4], top) /\ PaySlab(s[5], top)
      /\ PaySlab(s[6], top)
  BY SMT DEF Pay!Slabs, PaySlab, PayHigh, Pay!Infinity
<1>3. \A i \in 1..6 : PaySlab(s[i], top)
  BY <1>2, SMT
<1>4. /\ PayHigh(s[1], top) = s[2].low /\ PayHigh(s[2], top) = s[3].low /\ PayHigh(s[3], top) = s[4].low
      /\ PayHigh(s[4], top) = s[5].low /\ PayHigh(s[5], top) = s[6].low
      /\ s[1].rate = 0 /\ s[2].rate = 5 /\ s[3].rate = 10 /\ s[4].rate = 15
      /\ s[5].rate = 20 /\ s[6].rate = 30
  BY SMT DEF Pay!Slabs, PayHigh, Pay!Infinity
<1>5. QED
  BY <1>1, <1>3, <1>4, SMT

\* A higher income is taxed no less, and of what it is higher no more than 30 in
\* a hundred; no income is not taxed.
LEMMA PayLevyGrows ==
    ASSUME NEW x \in Nat, NEW y \in Nat, x <= y, NEW regime \in {"OLD", "NEW"}
    PROVE  /\ PayLevy(x, regime) \in Nat /\ PayLevy(y, regime) \in Nat
           /\ PayLevy(x, regime) <= PayLevy(y, regime)
           /\ PayLevy(y, regime) - PayLevy(x, regime) <= 30 * (y - x)
           /\ PayLevy(x, regime) <= 30 * x
<1>1. PICK s : s = Pay!Slabs(regime)
  OBVIOUS
<1>13. PICK top \in Nat : y <= top /\ 1500000 <= top
  OBVIOUS
<1>14. x <= top /\ y <= top
  BY <1>13
<1>2. PICK f, g : f = Pay!Levied(x, s) /\ g = Pay!Levied(y, s)
  OBVIOUS
<1>3. PayLevy(x, regime) = Total(f, DOMAIN s) /\ PayLevy(y, regime) = Total(g, DOMAIN s)
  BY <1>1, <1>2 DEF PayLevy
\* What lies in a slab, of either.
<1>4. ASSUME NEW i \in DOMAIN s, PaySlab(s[i], top)
      PROVE  LET a == Within(x, s[i].low, PayHigh(s[i], top))
                 b == Within(y, s[i].low, PayHigh(s[i], top))
             IN  a \in Nat /\ b \in Nat /\ a <= b /\ f[i] = a * s[i].rate /\ g[i] = b * s[i].rate
  BY <1>2, <1>4, <1>14, PayTaxedIn, WithinGrows DEF Pay!Levied, PaySlab
<1>11. \A low, high \in Nat :
         low <= high => /\ Within(x, low, high) \in Nat /\ Within(y, low, high) \in Nat
                        /\ Within(y, low, high) - Within(x, low, high) <= y - x
                        /\ Within(x, low, high) <= x
  <2>1. \A low, high \in Nat : low <= high => Within(x, low, high) <= x
    BY DEF Within
  <2>2. QED
    BY <2>1, WithinGrows
<1>12. \A low, mid, high \in Nat :
         low <= mid /\ mid <= high =>
           /\ Within(x, low, mid) + Within(x, mid, high) = Within(x, low, high)
           /\ Within(y, low, mid) + Within(y, mid, high) = Within(y, low, high)
  BY WithinBoth
<1>5. CASE regime = "OLD"
  <2>1. /\ DOMAIN s = 1..4 /\ \A i \in 1..4 : PaySlab(s[i], top)
        /\ PayHigh(s[1], top) = s[2].low /\ PayHigh(s[2], top) = s[3].low /\ PayHigh(s[3], top) = s[4].low
        /\ s[1].rate = 0 /\ s[2].rate = 5 /\ s[3].rate = 20 /\ s[4].rate = 30
    BY <1>1, <1>5, <1>13, PayOldSlabs
  <2>2. PICK n1 \in Nat, n2 \in Nat, n3 \in Nat, n4 \in Nat, n5 \in Nat :
          /\ n1 = s[1].low /\ n2 = s[2].low /\ n3 = s[3].low /\ n4 = s[4].low /\ n5 = PayHigh(s[4], top)
          /\ n1 <= n2 /\ n2 <= n3 /\ n3 <= n4 /\ n4 <= n5
    <3>1. PaySlab(s[1], top) /\ PaySlab(s[2], top) /\ PaySlab(s[3], top) /\ PaySlab(s[4], top)
      BY <2>1
    <3>2. \A slab : PaySlab(slab, top) =>
                    /\ slab.low \in Nat /\ PayHigh(slab, top) \in Nat
                    /\ slab.low <= PayHigh(slab, top)
      BY DEF PaySlab
    <3>3. s[1].low \in Nat /\ s[1].low <= s[2].low /\ s[2].low \in Nat /\ s[2].low <= s[3].low
      BY <2>1, <3>1, <3>2
    <3>4. s[3].low \in Nat /\ s[3].low <= s[4].low /\ s[4].low \in Nat
      BY <2>1, <3>1, <3>2
    <3>5. s[4].low <= PayHigh(s[4], top) /\ PayHigh(s[4], top) \in Nat
      BY <2>1, <3>1, <3>2
    <3>6. QED
      BY <3>3, <3>4, <3>5
  <2>12. n1 <= n5
    BY <2>2
  <2>3. PICK a1 \in Nat, a2 \in Nat, a3 \in Nat, a4 \in Nat, a \in Nat :
          /\ a1 = Within(x, n1, n2) /\ a2 = Within(x, n2, n3) /\ a3 = Within(x, n3, n4)
          /\ a4 = Within(x, n4, n5) /\ a = Within(x, n1, n5)
    BY <1>11, <2>2, <2>12
  <2>4. PICK b1 \in Nat, b2 \in Nat, b3 \in Nat, b4 \in Nat, b \in Nat :
          /\ b1 = Within(y, n1, n2) /\ b2 = Within(y, n2, n3) /\ b3 = Within(y, n3, n4)
          /\ b4 = Within(y, n4, n5) /\ b = Within(y, n1, n5)
    BY <1>11, <2>2, <2>12
  <2>5. /\ f[1] = a1 * 0 /\ f[2] = a2 * 5 /\ f[3] = a3 * 20 /\ f[4] = a4 * 30
        /\ g[1] = b1 * 0 /\ g[2] = b2 * 5 /\ g[3] = b3 * 20 /\ g[4] = b4 * 30
        /\ a1 <= b1 /\ a2 <= b2 /\ a3 <= b3 /\ a4 <= b4
    <3>1. 1 \in DOMAIN s /\ 2 \in DOMAIN s /\ 3 \in DOMAIN s /\ 4 \in DOMAIN s
      BY <2>1
    <3>2. f[1] = a1 * 0 /\ g[1] = b1 * 0 /\ a1 <= b1
      BY <1>4, <2>1, <2>2, <2>3, <2>4, <3>1
    <3>3. f[2] = a2 * 5 /\ g[2] = b2 * 5 /\ a2 <= b2
      BY <1>4, <2>1, <2>2, <2>3, <2>4, <3>1
    <3>4. f[3] = a3 * 20 /\ g[3] = b3 * 20 /\ a3 <= b3
      BY <1>4, <2>1, <2>2, <2>3, <2>4, <3>1
    <3>5. f[4] = a4 * 30 /\ g[4] = b4 * 30 /\ a4 <= b4
      BY <1>4, <2>1, <2>2, <2>3, <2>4, <3>1
    <3>6. QED
      BY <3>2, <3>3, <3>4, <3>5
  <2>6. a1 + a2 + a3 + a4 = a /\ b1 + b2 + b3 + b4 = b
    <3>1. \A z \in {x, y} : /\ Within(z, n1, n2) + Within(z, n2, n3) = Within(z, n1, n3)
                            /\ Within(z, n1, n3) + Within(z, n3, n4) = Within(z, n1, n4)
                            /\ Within(z, n1, n4) + Within(z, n4, n5) = Within(z, n1, n5)
      BY <1>12, <2>2
    <3>2. QED
      BY <2>3, <2>4, <3>1
  <2>7. b - a <= y - x /\ a <= x
    BY <1>11, <2>2, <2>3, <2>4, <2>12
  <2>8. (\A i \in 1..4 : f[i] \in Nat) /\ (\A i \in 1..4 : g[i] \in Nat)
    <3>1. f[1] \in Nat /\ f[2] \in Nat /\ f[3] \in Nat /\ f[4] \in Nat
      BY <2>5
    <3>2. g[1] \in Nat /\ g[2] \in Nat /\ g[3] \in Nat /\ g[4] \in Nat
      BY <2>5
    <3>3. QED
      BY <3>1, <3>2
  <2>9. /\ PayLevy(x, regime) = f[1] + f[2] + f[3] + f[4]
        /\ PayLevy(y, regime) = g[1] + g[2] + g[3] + g[4]
    BY <1>3, <2>1, <2>8, TotalOfFour
  <2>10. /\ PayLevy(x, regime) = a2 * 5 + a3 * 20 + a4 * 30
         /\ PayLevy(y, regime) = b2 * 5 + b3 * 20 + b4 * 30
    BY <2>5, <2>9
  <2>11. QED
    BY <2>5, <2>6, <2>7, <2>10
<1>6. CASE regime = "NEW"
  <2>1. /\ DOMAIN s = 1..6 /\ \A i \in 1..6 : PaySlab(s[i], top)
        /\ PayHigh(s[1], top) = s[2].low /\ PayHigh(s[2], top) = s[3].low /\ PayHigh(s[3], top) = s[4].low
        /\ PayHigh(s[4], top) = s[5].low /\ PayHigh(s[5], top) = s[6].low
        /\ s[1].rate = 0 /\ s[2].rate = 5 /\ s[3].rate = 10 /\ s[4].rate = 15
        /\ s[5].rate = 20 /\ s[6].rate = 30
    BY <1>1, <1>6, <1>13, PayNewSlabs
  <2>2. PICK n1 \in Nat, n2 \in Nat, n3 \in Nat, n4 \in Nat, n5 \in Nat, n6 \in Nat, n7 \in Nat :
          /\ n1 = s[1].low /\ n2 = s[2].low /\ n3 = s[3].low /\ n4 = s[4].low /\ n5 = s[5].low
          /\ n6 = s[6].low /\ n7 = PayHigh(s[6], top)
          /\ n1 <= n2 /\ n2 <= n3 /\ n3 <= n4 /\ n4 <= n5 /\ n5 <= n6 /\ n6 <= n7
    <3>1. PaySlab(s[1], top) /\ PaySlab(s[2], top) /\ PaySlab(s[3], top) /\ PaySlab(s[4], top)
      BY <2>1
    <3>2. PaySlab(s[5], top) /\ PaySlab(s[6], top)
      BY <2>1
    <3>3. \A slab : PaySlab(slab, top) =>
                    /\ slab.low \in Nat /\ PayHigh(slab, top) \in Nat
                    /\ slab.low <= PayHigh(slab, top)
      BY DEF PaySlab
    <3>4. s[1].low \in Nat /\ s[1].low <= s[2].low /\ s[2].low \in Nat /\ s[2].low <= s[3].low
      BY <2>1, <3>1, <3>3
    <3>5. s[3].low \in Nat /\ s[3].low <= s[4].low /\ s[4].low \in Nat /\ s[4].low <= s[5].low
      BY <2>1, <3>1, <3>3
    <3>6. s[5].low \in Nat /\ s[5].low <= s[6].low /\ s[6].low \in Nat /\ s[6].low <= PayHigh(s[6], top)
          /\ PayHigh(s[6], top) \in Nat
      BY <2>1, <3>2, <3>3
    <3>7. QED
      BY <3>4, <3>5, <3>6
  <2>12. n1 <= n7
    BY <2>2
  <2>3. PICK a1 \in Nat, a2 \in Nat, a3 \in Nat, a4 \in Nat, a5 \in Nat, a6 \in Nat, a \in Nat :
          /\ a1 = Within(x, n1, n2) /\ a2 = Within(x, n2, n3) /\ a3 = Within(x, n3, n4)
          /\ a4 = Within(x, n4, n5) /\ a5 = Within(x, n5, n6) /\ a6 = Within(x, n6, n7)
          /\ a = Within(x, n1, n7)
    BY <1>11, <2>2, <2>12
  <2>4. PICK b1 \in Nat, b2 \in Nat, b3 \in Nat, b4 \in Nat, b5 \in Nat, b6 \in Nat, b \in Nat :
          /\ b1 = Within(y, n1, n2) /\ b2 = Within(y, n2, n3) /\ b3 = Within(y, n3, n4)
          /\ b4 = Within(y, n4, n5) /\ b5 = Within(y, n5, n6) /\ b6 = Within(y, n6, n7)
          /\ b = Within(y, n1, n7)
    BY <1>11, <2>2, <2>12
  <2>5. /\ f[1] = a1 * 0 /\ f[2] = a2 * 5 /\ f[3] = a3 * 10 /\ f[4] = a4 * 15 /\ f[5] = a5 * 20
        /\ f[6] = a6 * 30
        /\ g[1] = b1 * 0 /\ g[2] = b2 * 5 /\ g[3] = b3 * 10 /\ g[4] = b4 * 15 /\ g[5] = b5 * 20
        /\ g[6] = b6 * 30
        /\ a1 <= b1 /\ a2 <= b2 /\ a3 <= b3 /\ a4 <= b4 /\ a5 <= b5 /\ a6 <= b6
    <3>1. \A i \in 1..6 : i \in DOMAIN s
      BY <2>1
    <3>2. f[1] = a1 * 0 /\ g[1] = b1 * 0 /\ a1 <= b1
      BY <1>4, <2>1, <2>2, <2>3, <2>4, <3>1
    <3>3. f[2] = a2 * 5 /\ g[2] = b2 * 5 /\ a2 <= b2
      BY <1>4, <2>1, <2>2, <2>3, <2>4, <3>1
    <3>4. f[3] = a3 * 10 /\ g[3] = b3 * 10 /\ a3 <= b3
      BY <1>4, <2>1, <2>2, <2>3, <2>4, <3>1
    <3>5. f[4] = a4 * 15 /\ g[4] = b4 * 15 /\ a4 <= b4
      BY <1>4, <2>1, <2>2, <2>3, <2>4, <3>1
    <3>6. f[5] = a5 * 20 /\ g[5] = b5 * 20 /\ a5 <= b5
      BY <1>4, <2>1, <2>2, <2>3, <2>4, <3>1
    <3>7. f[6] = a6 * 30 /\ g[6] = b6 * 30 /\ a6 <= b6
      BY <1>4, <2>1, <2>2, <2>3, <2>4, <3>1
    <3>8. QED
      BY <3>2, <3>3, <3>4, <3>5, <3>6, <3>7
  <2>6. a1 + a2 + a3 + a4 + a5 + a6 = a /\ b1 + b2 + b3 + b4 + b5 + b6 = b
    <3>1. n1 <= n2 /\ n2 <= n3 /\ n3 <= n4 /\ n4 <= n5 /\ n5 <= n6 /\ n6 <= n7
      BY <2>2
    <3>2. n1 <= n3 /\ n1 <= n4 /\ n1 <= n5 /\ n1 <= n6
      BY <3>1
    <3>3. \A z \in {x, y} : Within(z, n1, n2) + Within(z, n2, n3) = Within(z, n1, n3)
      BY <1>12, <3>1, <3>2
    <3>4. \A z \in {x, y} : Within(z, n1, n3) + Within(z, n3, n4) = Within(z, n1, n4)
      BY <1>12, <3>1, <3>2
    <3>5. \A z \in {x, y} : Within(z, n1, n4) + Within(z, n4, n5) = Within(z, n1, n5)
      BY <1>12, <3>1, <3>2
    <3>6. \A z \in {x, y} : Within(z, n1, n5) + Within(z, n5, n6) = Within(z, n1, n6)
      BY <1>12, <3>1, <3>2
    <3>7. \A z \in {x, y} : Within(z, n1, n6) + Within(z, n6, n7) = Within(z, n1, n7)
      BY <1>12, <3>1, <3>2
    <3>8. QED
      BY <2>3, <2>4, <3>3, <3>4, <3>5, <3>6, <3>7
  <2>7. b - a <= y - x /\ a <= x
    BY <1>11, <2>2, <2>3, <2>4, <2>12
  <2>8. (\A i \in 1..6 : f[i] \in Nat) /\ (\A i \in 1..6 : g[i] \in Nat)
    <3>1. f[1] \in Nat /\ f[2] \in Nat /\ f[3] \in Nat /\ f[4] \in Nat /\ f[5] \in Nat /\ f[6] \in Nat
      BY <2>5
    <3>2. g[1] \in Nat /\ g[2] \in Nat /\ g[3] \in Nat /\ g[4] \in Nat /\ g[5] \in Nat /\ g[6] \in Nat
      BY <2>5
    <3>3. QED
      BY <3>1, <3>2
  <2>9. /\ PayLevy(x, regime) = f[1] + f[2] + f[3] + f[4] + f[5] + f[6]
        /\ PayLevy(y, regime) = g[1] + g[2] + g[3] + g[4] + g[5] + g[6]
    BY <1>3, <2>1, <2>8, TotalOfSix
  <2>10. /\ PayLevy(x, regime) = a2 * 5 + a3 * 10 + a4 * 15 + a5 * 20 + a6 * 30
         /\ PayLevy(y, regime) = b2 * 5 + b3 * 10 + b4 * 15 + b5 * 20 + b6 * 30
    BY <2>5, <2>9
  <2>11. QED
    BY <2>5, <2>6, <2>7, <2>10
<1>7. QED
  BY <1>5, <1>6

\* The deduction is a number, and what remains of a higher pay is no less.
LEMMA PayIncome ==
    ASSUME NEW x \in Nat, NEW y \in Nat, x <= y, NEW regime \in {"OLD", "NEW"}
    PROVE  LET a == Pay!Income(x, regime)
               b == Pay!Income(y, regime)
           IN  a \in Nat /\ b \in Nat /\ a <= b /\ b - a <= y - x /\ a <= x
<1>1. PICK d \in Nat : d = Pay!StandardDeduction(regime)
  BY SMT DEF Pay!StandardDeduction
<1>2. \A z \in Nat : Pay!Income(z, regime) = IF z - d <= 0 THEN 0 ELSE z - d
  BY <1>1, PayMax DEF Pay!Income
<1>3. QED
  BY <1>2

\* The taxes of two gross pays.
LEMMA PayTaxGrows ==
    ASSUME NEW x \in Nat, NEW y \in Nat, x <= y, NEW regime \in {"OLD", "NEW"}
    PROVE  LET a == Pay!SlabTax(x, regime)
               b == Pay!SlabTax(y, regime)
           IN  a \in Nat /\ b \in Nat /\ a <= b /\ b - a <= 30 * (y - x) /\ a <= 30 * x
<1>1. PICK i \in Nat, j \in Nat :
        /\ i = Pay!Income(x, regime) /\ j = Pay!Income(y, regime)
        /\ i <= j /\ j - i <= y - x /\ i <= x
  BY PayIncome
<1>2. PICK a \in Nat, b \in Nat :
        /\ a = PayLevy(i, regime) /\ b = PayLevy(j, regime)
        /\ a <= b /\ b - a <= 30 * (j - i) /\ a <= 30 * i
  BY <1>1, PayLevyGrows
<1>3. a = Pay!SlabTax(x, regime) /\ b = Pay!SlabTax(y, regime)
  BY <1>1, <1>2, PaySlabTax
<1>4. b - a <= 30 * (y - x) /\ a <= 30 * x
  BY <1>1, <1>2
<1>5. QED
  BY <1>2, <1>3, <1>4

\* The lines of a recurring pay of k lakhs: v quarters of lakhs are variable and m
\* are fixed, which the other lines are parts of.
PayLinesOK(q, k, v, m) ==
    /\ v = k * q.variable /\ m = k * (4 - q.variable) /\ v + m = 4 * k
    /\ Pay!Recurring(q) = 100000 * k
    /\ Pay!Decoded(q).variable = 25000 * v
    /\ Pay!Decoded(q).basic = 10000 * m
    /\ Pay!Decoded(q).hra = IF q.city = "METRO" THEN 5000 * m ELSE 4000 * m
    /\ Pay!Decoded(q).pf = 1200 * m
    /\ Pay!Decoded(q).gratuity = 481 * m
    /\ Pay!Decoded(q).special = IF q.city = "METRO" THEN 8319 * m ELSE 9319 * m
    /\ Pay!Decoded(q).gross = 23319 * m + 25000 * v
    /\ Pay!Decoded(q).tax = Pay!Tax(23319 * m + 25000 * v, q.regime)
    /\ Pay!Decoded(q).inHand = 22119 * m + 25000 * v - Pay!Tax(23319 * m + 25000 * v, q.regime)

LEMMA PayLines ==
    ASSUME NEW q, q.variable \in 0..4, q.regime \in {"OLD", "NEW"}, NEW k \in Nat, k = q.ctc - q.oneTime
    PROVE  \E v \in Nat, m \in Nat : PayLinesOK(q, k, v, m)
<1> DEFINE variable == (Pay!Recurring(q) * q.variable) \div 4
           fixed    == Pay!Recurring(q) - variable
           basic    == (fixed * 2) \div 5
           hra      == IF q.city = "METRO" THEN basic \div 2 ELSE (basic * 2) \div 5
           pf       == (basic * 3) \div 25
           gratuity == (basic \div 10000) * 481
           special  == Pay!Max({0, fixed - basic - hra - pf - gratuity})
           gross    == basic + hra + special + variable
           tax      == Pay!Tax(gross, q.regime)
<1>1. Pay!Decoded(q) = [variable |-> variable, basic |-> basic, hra |-> hra, pf |-> pf,
                        gratuity |-> gratuity, special |-> special, gross |-> gross, tax |-> tax,
                        inHand |-> gross - pf - tax]
  BY SMTT(60) DEF Pay!Decoded
<1> HIDE DEF variable, fixed, basic, hra, pf, gratuity, special, gross, tax
<1>2. PICK v \in Nat, m \in Nat : v = k * q.variable /\ m = k * (4 - q.variable) /\ v + m = 4 * k
  <2>1. CASE q.variable = 0
    BY <2>1, SMT
  <2>2. CASE q.variable = 1
    BY <2>2, SMT
  <2>3. CASE q.variable = 2
    BY <2>3, SMT
  <2>4. CASE q.variable = 3
    BY <2>4, SMT
  <2>5. CASE q.variable = 4
    BY <2>5, SMT
  <2>6. QED
    BY <2>1, <2>2, <2>3, <2>4, <2>5, SMT
<1>3. Pay!Recurring(q) = 100000 * k
  BY SMT DEF Pay!Recurring, Pay!Lakh
<1>4. (100000 * k) * q.variable = 100000 * v
  <2>1. PICK n \in Nat : n = q.variable
    OBVIOUS
  <2>2. (100000 * k) * n = 100000 * (k * n)
    BY SMT
  <2>3. QED
    BY <1>2, <2>1, <2>2, SMT
<1>5. variable = 25000 * v
  BY <1>3, <1>4, SMT DEF variable
<1>6. fixed = 25000 * m
  BY <1>2, <1>3, <1>5, SMT DEF fixed
<1>7. basic = 10000 * m
  BY <1>6, SMT DEF basic
<1>8. hra = IF q.city = "METRO" THEN 5000 * m ELSE 4000 * m
  BY <1>7, SMT DEF hra
<1>9. pf = 1200 * m /\ gratuity = 481 * m
  BY <1>7, SMT DEF pf, gratuity
<1>10. special = IF q.city = "METRO" THEN 8319 * m ELSE 9319 * m
  <2>1. PICK rest \in Int : rest = fixed - basic - hra - pf - gratuity
    BY <1>6, <1>7, <1>8, <1>9, SMT
  <2>2. rest = (IF q.city = "METRO" THEN 8319 * m ELSE 9319 * m) /\ rest >= 0
    BY <1>6, <1>7, <1>8, <1>9, <2>1, SMT
  <2>3. Pay!Max({0, rest}) = IF rest <= 0 THEN 0 ELSE rest
    BY PayMax
  <2>4. special = Pay!Max({0, rest})
    BY <2>1, SMT DEF special
  <2>5. QED
    BY <2>2, <2>3, <2>4, SMT
<1>11. gross = 23319 * m + 25000 * v
  BY <1>5, <1>7, <1>8, <1>10, SMT DEF gross
<1>12. tax = Pay!Tax(23319 * m + 25000 * v, q.regime)
  BY <1>11, SMT DEF tax
<1>13. gross - pf - tax = 22119 * m + 25000 * v - tax
  <2>1. gross - pf = 22119 * m + 25000 * v
    BY <1>9, <1>11, SMT
  <2>2. PICK x \in Nat : x = 23319 * m + 25000 * v
    BY SMT
  <2>3. x <= x
    OBVIOUS
  <2>4. Pay!SlabTax(x, q.regime) \in Nat
    BY <2>3, PayTaxGrows
  <2>5. tax \in Int
    BY <1>12, <2>2, <2>4, SMT DEF Pay!Tax
  <2>6. QED
    BY <1>9, <1>11, <2>1, <2>5, SMT
<1>14. /\ Pay!Decoded(q).variable = variable /\ Pay!Decoded(q).basic = basic
       /\ Pay!Decoded(q).hra = hra /\ Pay!Decoded(q).pf = pf /\ Pay!Decoded(q).gratuity = gratuity
       /\ Pay!Decoded(q).special = special /\ Pay!Decoded(q).gross = gross
       /\ Pay!Decoded(q).tax = tax /\ Pay!Decoded(q).inHand = gross - pf - tax
  BY <1>1, SMT
<1>15. PayLinesOK(q, k, v, m)
  BY <1>2, <1>3, <1>5, <1>7, <1>8, <1>9, <1>10, <1>11, <1>12, <1>13, <1>14, SMT DEF PayLinesOK
<1>16. QED
  BY <1>15

\* What is in hand of two pays, of which the first has fewer parts.
LEMMA PayInHand ==
    ASSUME NEW v \in Nat, NEW m \in Nat, NEW w \in Nat, NEW n \in Nat, v <= w, m <= n,
           NEW regime \in {"OLD", "NEW"}
    PROVE  LET x == 23319 * m + 25000 * v
               y == 23319 * n + 25000 * w
           IN  /\ Pay!Tax(x, regime) >= 0 /\ 22119 * m + 25000 * v - Pay!Tax(x, regime) >= 0
               /\ 0 <= Pay!SlabTax(y, regime) - Pay!SlabTax(x, regime)
               /\ Pay!SlabTax(y, regime) - Pay!SlabTax(x, regime) <= 30 * (y - x)
               /\ v + m < w + n =>
                    22119 * m + 25000 * v - Pay!Tax(x, regime)
                      < 22119 * n + 25000 * w - Pay!Tax(y, regime)
<1>1. PICK x \in Nat, y \in Nat : x = 23319 * m + 25000 * v /\ y = 23319 * n + 25000 * w
  BY SMT
<1>2. x <= y
  BY <1>1, SMT
<1>3. PICK a \in Nat, b \in Nat : /\ a = Pay!SlabTax(x, regime) /\ b = Pay!SlabTax(y, regime)
                                  /\ a <= b /\ b - a <= 30 * (y - x) /\ a <= 30 * x
  BY <1>2, PayTaxGrows
<1>4. Pay!Tax(x, regime) = (a * 26) \div 2500 /\ Pay!Tax(y, regime) = (b * 26) \div 2500
  BY <1>3, SMT DEF Pay!Tax
<1>5. PICK s \in Int, t \in Int : /\ s = (a * 26) \div 2500 /\ t = (b * 26) \div 2500
                                  /\ 2500 * s <= 26 * a /\ 26 * a < 2500 * s + 2500
                                  /\ 2500 * t <= 26 * b /\ 26 * b < 2500 * t + 2500
  BY SMT
<1>6. s >= 0 /\ 22119 * m + 25000 * v - s >= 0
  BY <1>1, <1>3, <1>5, SMT
<1>7. v + m < w + n => 22119 * m + 25000 * v - s < 22119 * n + 25000 * w - t
  BY <1>1, <1>3, <1>5, SMT
<1>8. QED
  BY <1>1, <1>3, <1>4, <1>5, <1>6, <1>7, SMT

\* A breakdown adds up.
LEMMA PayTells ==
    ASSUME \E q \in Pay!Questions : question = q /\ answer = Pay!Decoded(q) PROVE Pay!PayAddsUp
<1>1. PICK q \in Pay!Questions : question = q /\ answer = Pay!Decoded(q)
  OBVIOUS
<1>2. PICK p : p = Pay!Raised
  OBVIOUS
<1> SUFFICES ASSUME Pay!Recurring(q) > 0
             PROVE  /\ answer.basic + answer.hra + answer.special + answer.pf + answer.gratuity
                         + answer.variable = Pay!Recurring(q)
                    /\ \A line \in {"basic", "hra", "special", "pf", "gratuity", "variable", "tax", "inHand"} :
                         answer[line] >= 0
                    /\ answer.inHand < Pay!Decoded(p).inHand
                    /\ Pay!Decoded(p).gross - answer.gross > 0
                    /\ 0 <= Pay!SlabTax(Pay!Decoded(p).gross, q.regime) - Pay!SlabTax(answer.gross, q.regime)
                    /\ Pay!SlabTax(Pay!Decoded(p).gross, q.regime) - Pay!SlabTax(answer.gross, q.regime)
                         <= 30 * (Pay!Decoded(p).gross - answer.gross)
  BY <1>1, <1>2 DEF Pay!PayAddsUp
<1>3. /\ q.ctc \in Nat /\ q.oneTime \in Nat /\ q.variable \in 0..4 /\ q.regime \in {"OLD", "NEW"}
      /\ p.ctc = q.ctc + 1 /\ p.oneTime = q.oneTime /\ p.variable = q.variable
      /\ p.regime = q.regime
  <2>1. q.ctc \in Packages /\ q.oneTime \in OneTimes /\ q.variable \in Shares /\ q.regime \in {"OLD", "NEW"}
    BY DEF Pay!Questions
  <2>2. p = [q EXCEPT !.ctc = @ + 1]
    BY <1>1, <1>2 DEF Pay!Raised
  <2>3. p.ctc = q.ctc + 1 /\ p.oneTime = q.oneTime /\ p.variable = q.variable /\ p.regime = q.regime
    BY <2>2 DEF Pay!Questions
  <2>4. \A S : S \in {Packages, OneTimes} => \A x \in S : x \in Nat
    BY PayAssumption
  <2>5. q.ctc \in Nat /\ q.oneTime \in Nat /\ q.variable \in 0..4
    BY <2>1, <2>4, PayAssumption
  <2>6. QED
    BY <2>1, <2>3, <2>5
<1>4. PICK k \in Nat : k = q.ctc - q.oneTime /\ k > 0
  <2>1. Pay!Recurring(q) = (q.ctc - q.oneTime) * 100000
    BY SMT DEF Pay!Recurring, Pay!Lakh
  <2>2. QED
    BY <1>3, <2>1, SMT
<1>5. k + 1 \in Nat /\ k + 1 = p.ctc - p.oneTime
  BY <1>3, <1>4
<1>6. PICK v \in Nat, m \in Nat : PayLinesOK(q, k, v, m)
  BY <1>3, <1>4, PayLines
<1>7. PICK w \in Nat, n \in Nat : PayLinesOK(p, k + 1, w, n)
  BY <1>3, <1>5, PayLines
<1>16. /\ v = k * q.variable /\ m = k * (4 - q.variable) /\ v + m = 4 * k
       /\ Pay!Recurring(q) = 100000 * k
       /\ answer.variable = 25000 * v /\ answer.basic = 10000 * m
       /\ answer.hra = IF q.city = "METRO" THEN 5000 * m ELSE 4000 * m
  BY <1>1, <1>6, SMT DEF PayLinesOK
<1>17. /\ answer.pf = 1200 * m /\ answer.gratuity = 481 * m
       /\ answer.special = IF q.city = "METRO" THEN 8319 * m ELSE 9319 * m
       /\ answer.gross = 23319 * m + 25000 * v
       /\ answer.tax = Pay!Tax(23319 * m + 25000 * v, q.regime)
       /\ answer.inHand = 22119 * m + 25000 * v - Pay!Tax(23319 * m + 25000 * v, q.regime)
  BY <1>1, <1>6, SMT DEF PayLinesOK
<1>18. /\ w = (k + 1) * p.variable /\ n = (k + 1) * (4 - p.variable) /\ w + n = 4 * (k + 1)
       /\ Pay!Decoded(p).gross = 23319 * n + 25000 * w
       /\ Pay!Decoded(p).inHand = 22119 * n + 25000 * w - Pay!Tax(23319 * n + 25000 * w, p.regime)
  BY <1>7, SMT DEF PayLinesOK
<1>8. v <= w /\ m <= n /\ v + m < w + n
  <2>1. PICK a \in Nat, b \in Nat : a = q.variable /\ b = 4 - q.variable
    BY <1>3
  <2>2. (k + 1) * a = k * a + a /\ (k + 1) * b = k * b + b
    OBVIOUS
  <2>3. v = k * a /\ m = k * b /\ w = (k + 1) * a /\ n = (k + 1) * b
    BY <1>3, <1>16, <1>18, <2>1
  <2>4. w = v + a /\ n = m + b
    BY <2>2, <2>3
  <2>5. a + b = 4
    BY <1>3, <2>1
  <2>6. QED
    BY <2>4, <2>5
<1>9. PICK x \in Nat, y \in Nat : x = 23319 * m + 25000 * v /\ y = 23319 * n + 25000 * w
  BY SMT
<1>10. /\ Pay!Tax(x, q.regime) >= 0 /\ 22119 * m + 25000 * v - Pay!Tax(x, q.regime) >= 0
       /\ 0 <= Pay!SlabTax(y, q.regime) - Pay!SlabTax(x, q.regime)
       /\ Pay!SlabTax(y, q.regime) - Pay!SlabTax(x, q.regime) <= 30 * (y - x)
       /\ 22119 * m + 25000 * v - Pay!Tax(x, q.regime) < 22119 * n + 25000 * w - Pay!Tax(y, q.regime)
  BY <1>3, <1>8, <1>9, PayInHand, SMT
<1>11. /\ answer.gross = x /\ Pay!Decoded(p).gross = y
       /\ answer.tax = Pay!Tax(x, q.regime)
       /\ answer.inHand = 22119 * m + 25000 * v - Pay!Tax(x, q.regime)
       /\ Pay!Decoded(p).inHand = 22119 * n + 25000 * w - Pay!Tax(y, q.regime)
  BY <1>3, <1>9, <1>17, <1>18, SMT
<1>12. y - x > 0
  BY <1>8, <1>9, SMT
<1>13. answer.basic + answer.hra + answer.special + answer.pf + answer.gratuity + answer.variable
         = Pay!Recurring(q)
  <2>1. /\ answer.basic = 10000 * m /\ answer.pf = 1200 * m /\ answer.gratuity = 481 * m
        /\ answer.variable = 25000 * v
        /\ answer.hra = (IF q.city = "METRO" THEN 5000 * m ELSE 4000 * m)
        /\ answer.special = (IF q.city = "METRO" THEN 8319 * m ELSE 9319 * m)
    BY <1>16, <1>17, SMT
  <2>2. v + m = 4 * k /\ Pay!Recurring(q) = 100000 * k
    BY <1>16, SMT
  <2>3. QED
    BY <2>1, <2>2, SMT
<1>14. \A line \in {"basic", "hra", "special", "pf", "gratuity", "variable", "tax", "inHand"} :
         answer[line] >= 0
  <2>1. /\ answer["basic"] >= 0 /\ answer["pf"] >= 0 /\ answer["gratuity"] >= 0
        /\ answer["variable"] >= 0
    <3>1. /\ answer.basic = 10000 * m /\ answer.pf = 1200 * m /\ answer.gratuity = 481 * m
          /\ answer.variable = 25000 * v
      BY <1>16, <1>17, SMT
    <3>2. QED
      BY <3>1, SMT
  <2>2. answer["hra"] >= 0 /\ answer["special"] >= 0
    <3>1. /\ answer.hra = (IF q.city = "METRO" THEN 5000 * m ELSE 4000 * m)
          /\ answer.special = (IF q.city = "METRO" THEN 8319 * m ELSE 9319 * m)
      BY <1>16, <1>17, SMT
    <3>2. QED
      BY <3>1, SMT
  <2>3. answer["tax"] >= 0 /\ answer["inHand"] >= 0
    BY <1>10, <1>11
  <2>4. QED
    BY <2>1, <2>2, <2>3
<1>15. QED
  BY <1>10, <1>11, <1>12, <1>13, <1>14

-----------------------------------------------------------------------------
\* Quotients of numbers that are not known.

\* Of natural numbers, and where they lie.
LEMMA Quotient ==
    ASSUME NEW a \in Int, NEW d \in Nat \ {0}
    PROVE  /\ a \div d \in Int /\ d * (a \div d) <= a /\ a < d * (a \div d) + d
           /\ a >= 0 => a \div d \in Nat
OBVIOUS

\* A quotient is no more than what it is no more than times the divisor, and no
\* less likewise.
LEMMA QuotientAtMost ==
    ASSUME NEW a \in Int, NEW d \in Nat \ {0}, NEW n \in Int, a <= d * n PROVE a \div d <= n
<1>1. PICK k \in Int : k = a \div d /\ d * k <= a
  BY Quotient
<1>2. ASSUME n + 1 <= k PROVE FALSE
  <2>1. d * (n + 1) <= d * k
    BY <1>2
  <2>2. d * (n + 1) = d * n + d
    OBVIOUS
  <2>3. QED
    BY <1>1, <2>1, <2>2
<1>3. QED
  BY <1>1, <1>2

LEMMA QuotientAtLeast ==
    ASSUME NEW a \in Int, NEW d \in Nat \ {0}, NEW n \in Int, d * n <= a PROVE n <= a \div d
<1>1. PICK k \in Int : k = a \div d /\ a < d * k + d
  BY Quotient
<1>2. ASSUME k + 1 <= n PROVE FALSE
  <2>1. d * (k + 1) <= d * n
    BY <1>2
  <2>2. d * (k + 1) = d * k + d
    OBVIOUS
  <2>3. QED
    BY <1>1, <2>1, <2>2
<1>3. QED
  BY <1>1, <1>2

\* A larger number has no smaller a quotient, and a larger divisor no larger.
LEMMA QuotientGrows ==
    ASSUME NEW a \in Int, NEW b \in Int, a <= b, NEW d \in Nat \ {0} PROVE a \div d <= b \div d
<1>1. PICK k \in Int : k = a \div d /\ d * k <= a
  BY Quotient
<1>2. d * k <= b
  BY <1>1
<1>3. QED
  BY <1>1, <1>2, QuotientAtLeast

LEMMA QuotientShrinks ==
    ASSUME NEW a \in Nat, NEW d \in Nat \ {0}, NEW e \in Nat \ {0}, d <= e PROVE a \div e <= a \div d
<1>1. PICK k \in Nat : k = a \div e /\ e * k <= a
  BY Quotient
<1>2. d * k <= e * k
  BY <1>1
<1>3. d * k <= a
  BY <1>1, <1>2
<1>4. QED
  BY <1>1, <1>3, QuotientAtLeast

-----------------------------------------------------------------------------
\* Grants of shares: esop_valuation_service.py.

LEMMA GrantMax ==
    ASSUME NEW x \in Int, NEW y \in Int PROVE Grant!Max({x, y}) = IF x <= y THEN y ELSE x
<1>1. Grant!Max({x, y}) \in {x, y} /\ \A z \in {x, y} : Grant!Max({x, y}) >= z
  <2>1. \E m \in {x, y} : \A z \in {x, y} : m >= z
    <3>1. CASE x <= y
      BY <3>1
    <3>2. CASE ~(x <= y)
      BY <3>2
    <3>3. QED
      BY <3>1, <3>2
  <2>2. QED
    BY <2>1 DEF Grant!Max
<1>2. QED
  BY <1>1

\* The numbers of a question.
LEMMA GrantQuestion ==
    ASSUME NEW q \in Grant!Questions
    PROVE  /\ q.shares \in Nat /\ q.cliff \in Nat /\ q.term \in Nat /\ q.every \in Nat /\ q.every > 0
           /\ q.strike \in Nat /\ q.value \in Nat
<1>1. /\ q.shares \in Grants /\ q.cliff \in Cliffs /\ q.term \in Terms /\ q.every \in {1, 3}
      /\ q.strike \in Prices /\ q.value \in Prices
  BY DEF Grant!Questions
<1>2. \A S \in {Grants, Cliffs, Terms, Prices} : \A x \in S : x \in Nat
  BY GrantAssumption
<1>3. QED
  BY <1>1, <1>2

\* What vests at the cliff, and in each of the tranches after it.
LEMMA GrantParts ==
    ASSUME NEW q \in Grant!Questions, q.cliff < q.term
    PROVE  \E a \in Nat, n \in Nat \ {0}, each \in Nat, last \in Nat :
             /\ a = Grant!AtCliff(q) /\ n = Grant!Tranches(q)
             /\ q.term * a <= q.shares * q.cliff
             /\ a + each * (n - 1) + last = q.shares
             /\ \A i \in 1..n : Grant!AfterCliff(q, i) = IF i = n THEN last ELSE each
             /\ q.cliff + n * q.every < q.term + q.every
             /\ q.term < q.cliff + n * q.every + q.every
<1>1. PICK s \in Nat, c \in Nat, t \in Nat \ {0}, e \in Nat \ {0} :
        s = q.shares /\ c = q.cliff /\ t = q.term /\ e = q.every /\ c < t
  BY GrantQuestion
<1>2. PICK a \in Nat : a = (s * c) \div t /\ t * a <= s * c
  <2>1. s * c \in Nat
    BY <1>1
  <2>2. QED
    BY <1>1, <2>1, Quotient
<1>3. a = Grant!AtCliff(q)
  BY <1>1, <1>2 DEF Grant!AtCliff
<1>4. a <= s
  <2>1. s * c <= t * s
    BY <1>1
  <2>2. QED
    BY <1>1, <1>2, <2>1, QuotientAtMost
<1>5. PICK rest \in Nat : rest = s - a
  BY <1>4
<1>6. PICK later \in Nat \ {0} : later = t - c
  BY <1>1
<1>7. PICK k \in Nat : k = later \div e /\ e * k <= later /\ later < e * k + e
  <2>1. later \in Int /\ later >= 0
    BY <1>6
  <2>2. /\ e * (later \div e) <= later /\ later < e * (later \div e) + e
        /\ later \div e \in Nat
    BY ONLY <1>1, <2>1, Quotient
  <2>3. QED
    BY ONLY <2>2
<1>8. PICK n \in Nat \ {0} : n = (IF 1 <= k THEN k ELSE 1) /\ n = Grant!Tranches(q)
  <2>1. Grant!Later(q) = later
    BY <1>1, <1>6 DEF Grant!Later
  <2>2. Grant!Tranches(q) = Grant!Max({1, k})
    BY <1>1, <1>7, <2>1 DEF Grant!Tranches
  <2>3. 1 \in Int /\ k \in Int
    BY <1>7
  <2>4. Grant!Max({1, k}) = IF 1 <= k THEN k ELSE 1
    BY ONLY <2>3, GrantMax
  <2>5. (IF 1 <= k THEN k ELSE 1) \in Nat \ {0}
    BY <1>7
  <2>6. QED
    BY ONLY <2>2, <2>4, <2>5
<1>9. PICK each \in Nat : each = rest \div n /\ n * each <= rest
  BY <1>5, <1>8, Quotient
<1>10. PICK last \in Nat : last = rest - each * (n - 1) /\ each * (n - 1) \in Nat
  <2>1. each * (n - 1) = n * each - each /\ each * (n - 1) \in Nat
    BY <1>8, <1>9
  <2>2. QED
    BY <1>5, <1>9, <2>1
<1>11. a + each * (n - 1) + last = s
  BY <1>5, <1>10
<1>12. \A i \in 1..n : Grant!AfterCliff(q, i) = IF i = n THEN last ELSE each
  BY <1>1, <1>3, <1>5, <1>8, <1>9, <1>10 DEF Grant!AfterCliff
<1>13. c + n * e < t + e /\ t < c + n * e + e
  <2>1. CASE k = 0
    <3>1. n = 1 /\ n * e = e /\ e * k = 0
      BY <1>1, <1>8, <2>1
    <3>2. later < e
      BY <1>7, <3>1
    <3>3. QED
      BY <1>1, <1>6, <3>1, <3>2
  <2>2. CASE k # 0
    <3>1. n * e = e * k
      BY <1>8, <2>2
    <3>2. QED
      BY <1>1, <1>6, <1>7, <3>1
  <2>3. QED
    BY <2>1, <2>2
<1>14. QED
  BY <1>1, <1>2, <1>3, <1>8, <1>11, <1>12, <1>13

\* The tranches of a grant that vests after its cliff: one at the cliff if m is
\* 1, and n after it.
LEMMA GrantTimeline ==
    ASSUME NEW q \in Grant!Questions, q.cliff < q.term, q.shares # 0
    PROVE  \E m \in 0..1 :
             LET n == Grant!Tranches(q)
             IN  /\ m = 1 <=> Grant!AtCliff(q) > 0
                 /\ Len(Grant!Timeline(q)) = m + n /\ DOMAIN Grant!Timeline(q) = 1..(m + n)
                 /\ m = 1 => Grant!Timeline(q)[1] = [month |-> q.cliff, shares |-> Grant!AtCliff(q)]
                 /\ \A i \in (m + 1)..(m + n) :
                      Grant!Timeline(q)[i] = [month  |-> q.cliff + (i - m) * q.every,
                                              shares |-> Grant!AfterCliff(q, i - m)]
<1>1. PICK n \in Nat \ {0}, a \in Nat : n = Grant!Tranches(q) /\ a = Grant!AtCliff(q)
  BY GrantParts
<1>2. PICK tail : tail = [i \in 1..n |-> [month |-> q.cliff + i * q.every, shares |-> Grant!AfterCliff(q, i)]]
  OBVIOUS
<1>3. PICK S : S = {tail[i] : i \in 1..n} \cup {[month |-> q.cliff, shares |-> a]}
  OBVIOUS
<1>4. tail \in Seq(S) /\ Len(tail) = n
  BY <1>2, <1>3
<1>5. PICK head : head = IF a > 0 THEN <<[month |-> q.cliff, shares |-> a]>> ELSE <<>>
  OBVIOUS
<1>6. Grant!Timeline(q) = head \o tail
  <2>1. q.term # 0 /\ q.shares # 0 /\ ~(Grant!Later(q) <= 0)
    BY GrantQuestion DEF Grant!Later
  <2>2. QED
    BY <1>1, <1>2, <1>5, <2>1 DEF Grant!Timeline
<1>7. CASE a > 0
  <2>1. head = <<[month |-> q.cliff, shares |-> a]>> /\ head \in Seq(S) /\ Len(head) = 1
    BY <1>3, <1>5, <1>7
  <2>2. head \o tail \in Seq(S) /\ Len(head \o tail) = 1 + n
    BY <1>4, <2>1
  <2>3. DOMAIN (head \o tail) = 1..(1 + n)
    BY <2>2
  <2>4. (head \o tail)[1] = [month |-> q.cliff, shares |-> a]
    BY <1>4, <2>1
  <2>5. ASSUME NEW i \in 2..(1 + n) PROVE (head \o tail)[i] = tail[i - 1]
    BY <1>4, <2>1
  <2>6. ASSUME NEW i \in 2..(1 + n)
        PROVE  (head \o tail)[i] = [month  |-> q.cliff + (i - 1) * q.every,
                                    shares |-> Grant!AfterCliff(q, i - 1)]
    <3>1. i - 1 \in 1..n
      OBVIOUS
    <3>2. QED
      BY <1>2, <2>5, <3>1
  <2>7. 1 \in 0..1
    OBVIOUS
  <2>8. QED
    BY <1>1, <1>6, <1>7, <2>2, <2>3, <2>4, <2>6, <2>7
<1>8. CASE ~(a > 0)
  <2>1. head \o tail = tail
    BY <1>4, <1>5, <1>8
  <2>2. \A i \in 1..n : tail[i] = [month  |-> q.cliff + (i - 0) * q.every,
                                   shares |-> Grant!AfterCliff(q, i - 0)]
    BY <1>2
  <2>3. DOMAIN tail = 1..n /\ 0 + n = n /\ 0 + 1 = 1 /\ 0 \in 0..1
    BY <1>2
  <2>4. QED
    BY <1>1, <1>4, <1>6, <1>8, <2>1, <2>2, <2>3
<1>9. QED
  BY <1>7, <1>8

\* What vests.
LEMMA GrantVested ==
    ASSUME NEW tranches, NEW f, f = [i \in DOMAIN tranches |-> tranches[i].shares]
    PROVE  Grant!Vested(tranches) = Total(f, DOMAIN tranches)
<1>1. DOMAIN f = DOMAIN tranches
  OBVIOUS
<1>2. Grant!FoldFunction(+, 0, f) = Total(f, DOMAIN f)
  BY DEF Grant!FoldFunction, Grant!FoldFunctionOnSet, Grant!MapThenFoldSet, Total, Adding, Pick
<1>3. QED
  BY <1>1, <1>2 DEF Grant!Vested

\* A sum of which all but the last, and the first if m is 1, are equal.
AllButLast(f, m, n, a, each, last) ==
    /\ m \in 0..1 /\ n \in Nat \ {0} /\ a \in Nat /\ each \in Nat /\ last \in Nat
    /\ m = 0 => a = 0
    /\ m = 1 => f[1] = a
    /\ \A i \in (m + 1)..(m + n) : f[i] = IF i = m + n THEN last ELSE each

LEMMA GrantSum ==
    ASSUME NEW f, NEW m, NEW n, NEW a, NEW each, NEW last, AllButLast(f, m, n, a, each, last)
    PROVE  Total(f, 1..(m + n)) = a + each * (n - 1) + last
<1> /\ m \in 0..1 /\ n \in Nat \ {0} /\ a \in Nat /\ each \in Nat /\ last \in Nat
    /\ m = 0 => a = 0
    /\ m = 1 => f[1] = a
    /\ \A i \in (m + 1)..(m + n) : f[i] = IF i = m + n THEN last ELSE each
  BY DEF AllButLast
<1>1. \A i \in 1..(m + n) : f[i] \in Nat
  OBVIOUS
<1>2. PICK k \in Nat : k = m + n - 1 /\ k + 1 = m + n /\ k >= m
  OBVIOUS
<1>3. IsFiniteSet(1..(k + 1)) /\ IsFiniteSet(1..k)
  <2>1. k \in Int /\ k + 1 \in Int /\ 1 \in Int
    OBVIOUS
  <2>2. QED
    BY ONLY <2>1, FS_Interval
<1>4. Total(f, 1..(k + 1)) = f[k + 1] + Total(f, 1..k)
  <2>1. k + 1 \in 1..(k + 1) /\ (1..(k + 1)) \ {k + 1} = 1..k
    OBVIOUS
  <2>2. \A i \in 1..(k + 1) : f[i] \in Nat
    BY <1>1, <1>2
  <2>3. Total(f, 1..(k + 1)) = f[k + 1] + Total(f, (1..(k + 1)) \ {k + 1})
    BY <1>3, <2>1, <2>2, TotalOne
  <2>4. QED
    BY <2>1, <2>3
<1>5. f[k + 1] = last /\ \A i \in (m + 1)..k : f[i] = each
  BY <1>2
<1>6. Total(f, (m + 1)..k) = (n - 1) * each
  <2>1. IsFiniteSet((m + 1)..k) /\ Cardinality((m + 1)..k) = n - 1
    <3>1. /\ IsFiniteSet((m + 1)..k)
          /\ Cardinality((m + 1)..k) = IF m + 1 > k THEN 0 ELSE k - (m + 1) + 1
      <4>1. m + 1 \in Int /\ k \in Int
        OBVIOUS
      <4>2. QED
        BY ONLY <4>1, FS_Interval
    <3>2. QED
      BY <1>2, <3>1
  <2>2. QED
    BY <1>5, <2>1, TotalEqual
<1>7. Total(f, 1..k) = a + Total(f, (m + 1)..k)
  <2>1. CASE m = 0
    <3>1. (m + 1)..k = 1..k /\ a = 0
      BY <2>1
    <3>2. Total(f, 1..k) \in Nat
      BY <1>1, <1>2, <1>3, TotalType
    <3>3. QED
      BY <3>1, <3>2
  <2>2. CASE m = 1
    <3>1. 1 \in 1..k /\ (1..k) \ {1} = (m + 1)..k
      BY <1>2, <2>2
    <3>2. \A i \in 1..k : f[i] \in Nat
      BY <1>1, <1>2
    <3>3. Total(f, 1..k) = f[1] + Total(f, (1..k) \ {1})
      BY <1>3, <3>1, <3>2, TotalOne
    <3>4. QED
      BY <2>2, <3>1, <3>3
  <2>3. QED
    BY <2>1, <2>2
<1>8. (n - 1) * each = each * (n - 1) /\ each * (n - 1) \in Nat
  OBVIOUS
<1>9. QED
  BY <1>2, <1>4, <1>5, <1>6, <1>7, <1>8

\* What the tranches of a grant tell.
TranchesOK(q, tranches) ==
    LET last == tranches[Len(tranches)].month
    IN  /\ Grant!Vested(tranches) = q.shares
        /\ \A i \in DOMAIN tranches :
             /\ tranches[i].shares >= 0
             /\ tranches[i].month >= q.cliff
             /\ i > 1 => tranches[i - 1].month < tranches[i].month
             /\ tranches[i].month = q.cliff =>
                  tranches[i].shares * q.term <= q.shares * q.cliff \/ q.term <= q.cliff
        /\ last < q.term + q.every \/ last = q.cliff
        /\ q.term < last + q.every

\* A grant that is vested when its cliff ends.
LEMMA GrantAtOnce ==
    ASSUME NEW q \in Grant!Questions, q.term # 0, q.shares # 0, q.term <= q.cliff
    PROVE  TranchesOK(q, Grant!Timeline(q))
<1>1. PICK s \in Nat, c \in Nat, t \in Nat, e \in Nat \ {0} :
        s = q.shares /\ c = q.cliff /\ t = q.term /\ e = q.every /\ t <= c
  BY GrantQuestion
<1>2. PICK tl : tl = <<[month |-> c, shares |-> s]>>
  OBVIOUS
<1>3. Grant!Timeline(q) = tl
  <2>1. Grant!Later(q) <= 0
    BY <1>1 DEF Grant!Later
  <2>2. QED
    BY <1>1, <1>2, <2>1 DEF Grant!Timeline
<1>4. Len(tl) = 1 /\ DOMAIN tl = {1} /\ tl[1].month = c /\ tl[1].shares = s
  BY <1>2
<1>5. Grant!Vested(tl) = s
  <2>1. PICK f : f = [i \in DOMAIN tl |-> tl[i].shares]
    OBVIOUS
  <2>2. f[1] = s /\ \A i \in {1} : f[i] \in Nat
    BY <1>1, <1>4, <2>1
  <2>3. IsFiniteSet({1}) /\ 1 \in {1} /\ {1} \ {1} = {}
    BY FS_Singleton
  <2>4. Total(f, {1}) = f[1] + Total(f, {1} \ {1})
    BY ONLY <2>2, <2>3, TotalOne
  <2>5. Total(f, {1}) = s
    BY <1>1, <2>2, <2>3, <2>4, TotalEmpty
  <2>6. Grant!Vested(tl) = Total(f, DOMAIN tl)
    BY ONLY <2>1, GrantVested
  <2>7. QED
    BY <1>4, <2>5, <2>6
<1>6. TranchesOK(q, tl)
  BY <1>1, <1>4, <1>5 DEF TranchesOK
<1>7. QED
  BY <1>3, <1>6

\* A grant that vests after its cliff.
LEMMA GrantInTime ==
    ASSUME NEW q \in Grant!Questions, q.term # 0, q.shares # 0, q.cliff < q.term
    PROVE  TranchesOK(q, Grant!Timeline(q))
<1>1. PICK s \in Nat, c \in Nat, t \in Nat, e \in Nat \ {0} :
        s = q.shares /\ c = q.cliff /\ t = q.term /\ e = q.every /\ c < t
  BY GrantQuestion
<1>2. PICK a \in Nat, n \in Nat \ {0}, each \in Nat, last \in Nat :
        /\ a = Grant!AtCliff(q) /\ n = Grant!Tranches(q)
        /\ t * a <= s * c
        /\ a + each * (n - 1) + last = s
        /\ \A i \in 1..n : Grant!AfterCliff(q, i) = IF i = n THEN last ELSE each
        /\ c + n * e < t + e
        /\ t < c + n * e + e
  BY <1>1, GrantParts
<1>3. PICK tl : tl = Grant!Timeline(q)
  OBVIOUS
<1>4. PICK m \in 0..1 :
        /\ m = 1 <=> a > 0
        /\ Len(tl) = m + n /\ DOMAIN tl = 1..(m + n)
        /\ m = 1 => tl[1] = [month |-> c, shares |-> a]
        /\ \A i \in (m + 1)..(m + n) :
             tl[i] = [month |-> c + (i - m) * e, shares |-> Grant!AfterCliff(q, i - m)]
  BY <1>1, <1>2, <1>3, GrantTimeline
<1>5. ASSUME NEW i \in (m + 1)..(m + n)
      PROVE  /\ tl[i].month = c + (i - m) * e
             /\ tl[i].shares = IF i = m + n THEN last ELSE each
  <2>1. i - m \in 1..n /\ (i - m = n <=> i = m + n)
    OBVIOUS
  <2>2. Grant!AfterCliff(q, i - m) = IF i = m + n THEN last ELSE each
    BY <1>2, <2>1
  <2>3. tl[i] = [month |-> c + (i - m) * e, shares |-> Grant!AfterCliff(q, i - m)]
    BY <1>4
  <2>4. QED
    BY <2>2, <2>3
<1>6. m = 1 => tl[1].month = c /\ tl[1].shares = a
  BY <1>4
<1>7. \A i \in 1..(m + n) : i = m \/ i \in (m + 1)..(m + n)
  OBVIOUS
<1>8. \A i \in 1..(m + n) : tl[i].month = c + (i - m) * e
  <2> SUFFICES ASSUME NEW i \in 1..(m + n) PROVE tl[i].month = c + (i - m) * e
    OBVIOUS
  <2>1. CASE i = m
    <3>1. m = 1 /\ i = 1
      BY <2>1
    <3>2. (i - m) * e = 0
      BY <3>1
    <3>3. QED
      BY <1>6, <3>1, <3>2
  <2>2. QED
    BY <1>5, <1>7, <2>1
<1>9. \A i \in 1..(m + n) : tl[i].shares >= 0
  BY <1>5, <1>6, <1>7
<1>10. Grant!Vested(tl) = s
  <2>1. PICK f : f = [i \in DOMAIN tl |-> tl[i].shares]
    OBVIOUS
  <2>2. m = 1 => f[1] = a
    BY <1>4, <1>6, <2>1
  <2>3. \A i \in (m + 1)..(m + n) : f[i] = IF i = m + n THEN last ELSE each
    BY <1>4, <1>5, <2>1
  <2>4. m = 0 => a = 0
    BY <1>4
  <2>5. Total(f, 1..(m + n)) = a + each * (n - 1) + last
    <3>1. AllButLast(f, m, n, a, each, last)
      BY <2>2, <2>3, <2>4 DEF AllButLast
    <3>2. QED
      BY ONLY <3>1, GrantSum
  <2>6. Grant!Vested(tl) = Total(f, DOMAIN tl)
    BY ONLY <2>1, GrantVested
  <2>7. QED
    BY <1>2, <1>4, <2>5, <2>6
<1>11. ASSUME NEW i \in 1..(m + n)
       PROVE  /\ tl[i].month >= c
              /\ i > 1 => tl[i - 1].month < tl[i].month
              /\ tl[i].month = c => tl[i].shares * t <= s * c
  <2>1. PICK j \in Nat : j = i - m /\ j * e \in Nat
    OBVIOUS
  <2>2. tl[i].month = c + j * e
    BY <1>8, <2>1
  <2>3. tl[i].month >= c
    BY <2>1, <2>2
  <2>4. ASSUME i > 1 PROVE tl[i - 1].month < tl[i].month
    <3>1. i - 1 \in 1..(m + n) /\ (i - 1) - m = j - 1
      BY <2>1, <2>4
    <3>2. tl[i - 1].month = c + (j - 1) * e
      BY <1>8, <3>1
    <3>3. (j - 1) * e = j * e - e
      OBVIOUS
    <3>4. QED
      BY <2>1, <2>2, <3>2, <3>3
  <2>5. ASSUME tl[i].month = c PROVE tl[i].shares * t <= s * c
    <3>1. j * e = 0
      BY <2>1, <2>2, <2>5
    <3>2. j = 0
      BY <3>1
    <3>3. i = 1 /\ m = 1
      BY <2>1, <3>2
    <3>4. tl[i].shares = a
      BY <1>6, <3>3
    <3>5. QED
      BY <1>2, <3>4
  <2>6. QED
    BY <2>3, <2>4, <2>5
<1>12. tl[Len(tl)].month = c + n * e
  BY <1>4, <1>8
<1>13. TranchesOK(q, tl)
  <2>1. \A i \in DOMAIN tl : i \in 1..(m + n)
    BY <1>4
  <2>2. n * e \in Nat
    OBVIOUS
  <2>3. QED
    BY <1>1, <1>2, <1>9, <1>10, <1>11, <1>12, <2>1, <2>2 DEF TranchesOK
<1>14. QED
  BY <1>3, <1>13

\* The amounts of an exit, from those of the grant at its value and at its
\* strike price.
LEMMA GrantAmounts ==
    ASSUME NEW q \in Grant!Questions
    PROVE  \E worth \in Nat, price \in Nat, perquisite \in Int, h \in {Grant!Halves} :
             /\ perquisite = Grant!Perquisite(q)
             /\ q.strike <= q.value => perquisite = 80 * (worth - price)
             /\ h = Grant!Halves /\ DOMAIN Grant!Halves = 1..3 /\ h[1] = 3 /\ h[2] = 6 /\ h[3] = 10
             /\ \A x \in 1..3 : /\ Grant!PreTax(q, x) = 40 * (h[x] * worth) - 80 * price
                                /\ Grant!CapitalGain(q, x) = 40 * ((h[x] - 2) * worth)
<1>1. PICK s \in Nat, v \in Nat, p \in Nat : s = q.shares /\ v = q.value /\ p = q.strike
  BY GrantQuestion
<1>2. PICK h : h = Grant!Halves
  OBVIOUS
<1>3. h[1] = 3 /\ h[2] = 6 /\ h[3] = 10 /\ DOMAIN h = 1..3
  BY <1>2 DEF Grant!Halves
<1>4. PICK worth \in Nat, price \in Nat : worth = v * s /\ price = p * s
  OBVIOUS
<1>5. PICK gain \in Int : gain = 80 * (v - p) * s /\ gain = 80 * (worth - price)
  <2>1. (80 * (v - p)) * s = 80 * (v * s - p * s)
    OBVIOUS
  <2>2. QED
    BY <1>4, <2>1
<1>6. PICK perquisite \in Int : perquisite = Grant!Perquisite(q) /\ (p <= v => perquisite = 80 * (worth - price))
  <2>1. Grant!Perquisite(q) = IF 0 <= gain THEN gain ELSE 0
    <3>1. Grant!Perquisite(q) = Grant!Max({0, gain})
      BY <1>1, <1>5 DEF Grant!Perquisite
    <3>2. QED
      BY <3>1, GrantMax
  <2>2. p <= v => 0 <= gain
    <3>1. p <= v => p * s <= v * s
      OBVIOUS
    <3>2. QED
      BY <1>4, <1>5, <3>1
  <2>3. QED
    BY <1>5, <2>1, <2>2
<1>7. ASSUME NEW x \in 1..3
      PROVE  /\ Grant!PreTax(q, x) = 40 * (h[x] * worth) - 80 * price
             /\ Grant!CapitalGain(q, x) = 40 * ((h[x] - 2) * worth)
  <2>1. PICK k \in Int : k = h[x] /\ k \in {3, 6, 10}
    BY <1>3
  <2>2. Grant!PreTax(q, x) = (40 * (v * k - 2 * p)) * s
    BY <1>1, <1>2, <2>1 DEF Grant!PreTax
  <2>3. Grant!CapitalGain(q, x) = ((40 * v) * (k - 2)) * s
    BY <1>1, <1>2, <2>1 DEF Grant!CapitalGain
  <2>4. (40 * (v * k - 2 * p)) * s = 40 * (k * (v * s)) - 80 * (p * s)
    OBVIOUS
  <2>5. ((40 * v) * (k - 2)) * s = 40 * ((k - 2) * (v * s))
    OBVIOUS
  <2>6. QED
    BY <1>4, <2>1, <2>2, <2>3, <2>4, <2>5
<1>8. QED
  BY <1>1, <1>2, <1>3, <1>6, <1>7

\* The tax on capital gains grows by no more than the gains do.
LEMMA GrantCapitalTax ==
    ASSUME NEW q \in Grant!Questions, NEW x, NEW y, NEW less \in Nat, NEW more \in Nat,
           NEW k \in Nat, Grant!CapitalGain(q, x) = 40 * less, Grant!CapitalGain(q, y) = 40 * more,
           more = less + k
    PROVE  /\ Grant!CapitalTax(q, x) \in Int /\ Grant!CapitalTax(q, y) \in Int
           /\ Grant!CapitalTax(q, y) <= Grant!CapitalTax(q, x) + 40 * k
<1>1. PICK e \in Nat : e = Grant!Exemption
  BY SMT DEF Grant!Exemption
<1>2. PICK a \in Nat, b \in Nat : a = 40 * less /\ b = 40 * more
  OBVIOUS
<1>3. CASE q.term > Grant!LongTermMonths
  <2>1. PICK u \in Nat : u = Grant!Max({0, a - e}) /\ u = IF 0 <= a - e THEN a - e ELSE 0
    BY <1>1, <1>2, GrantMax
  <2>2. PICK w \in Nat : w = Grant!Max({0, b - e}) /\ w = IF 0 <= b - e THEN b - e ELSE 0
    BY <1>1, <1>2, GrantMax
  <2>3. w <= u + 40 * k
    BY <1>2, <2>1, <2>2
  <2>4. PICK t1 \in Int : t1 = u \div 8 /\ u < 8 * t1 + 8
    BY Quotient
  <2>5. PICK t2 \in Int : t2 = w \div 8 /\ 8 * t2 <= w
    BY Quotient
  <2>6. t2 <= t1 + 5 * k
    BY <2>3, <2>4, <2>5
  <2>7. Grant!CapitalTax(q, x) = t1 /\ Grant!CapitalTax(q, y) = t2
    BY <1>1, <1>2, <1>3, <2>1, <2>2, <2>4, <2>5 DEF Grant!CapitalTax
  <2>8. QED
    BY <2>6, <2>7
<1>4. CASE ~(q.term > Grant!LongTermMonths)
  <2>1. a \div 10 = 4 * less /\ b \div 10 = 4 * more
    BY <1>2
  <2>2. Grant!CapitalTax(q, x) = (4 * less) * 3 /\ Grant!CapitalTax(q, y) = (4 * more) * 3
    BY <1>2, <1>4, <2>1 DEF Grant!CapitalTax, Grant!AtSlab
  <2>3. QED
    BY <2>2
<1>5. QED
  BY <1>3, <1>4

\* A better exit is never less.
LEMMA GrantNets ==
    ASSUME NEW q \in Grant!Questions, NEW x \in 1..3, x > 1 PROVE Grant!Net(q, x - 1) <= Grant!Net(q, x)
<1>1. PICK worth \in Nat, price \in Nat, perquisite \in Int, h \in {Grant!Halves} :
        /\ perquisite = Grant!Perquisite(q)
        /\ h[1] = 3 /\ h[2] = 6 /\ h[3] = 10
        /\ \A y \in 1..3 : /\ Grant!PreTax(q, y) = 40 * (h[y] * worth) - 80 * price
                           /\ Grant!CapitalGain(q, y) = 40 * ((h[y] - 2) * worth)
  BY GrantAmounts
<1>2. PICK less \in Nat, more \in Nat, k \in Nat :
        /\ more = less + k
        /\ Grant!CapitalGain(q, x - 1) = 40 * less /\ Grant!CapitalGain(q, x) = 40 * more
        /\ Grant!PreTax(q, x - 1) = 40 * less + 80 * worth - 80 * price
        /\ Grant!PreTax(q, x) = 40 * more + 80 * worth - 80 * price
  <2>1. CASE x = 2
    <3>1. /\ Grant!CapitalGain(q, 1) = 40 * worth /\ Grant!CapitalGain(q, 2) = 40 * (4 * worth)
          /\ Grant!PreTax(q, 1) = 40 * worth + 80 * worth - 80 * price
          /\ Grant!PreTax(q, 2) = 40 * (4 * worth) + 80 * worth - 80 * price
      BY <1>1
    <3>2. 4 * worth \in Nat /\ 3 * worth \in Nat /\ 4 * worth = worth + 3 * worth /\ x - 1 = 1
      BY <2>1
    <3>3. QED
      BY <2>1, <3>1, <3>2
  <2>2. CASE x = 3
    <3>1. /\ Grant!CapitalGain(q, 2) = 40 * (4 * worth) /\ Grant!CapitalGain(q, 3) = 40 * (8 * worth)
          /\ Grant!PreTax(q, 2) = 40 * (4 * worth) + 80 * worth - 80 * price
          /\ Grant!PreTax(q, 3) = 40 * (8 * worth) + 80 * worth - 80 * price
      BY <1>1
    <3>2. 4 * worth \in Nat /\ 8 * worth \in Nat /\ 8 * worth = 4 * worth + 4 * worth /\ x - 1 = 2
      BY <2>2
    <3>3. QED
      BY <2>2, <3>1, <3>2
  <2>3. QED
    BY <2>1, <2>2
<1>3. PICK t1 \in Int, t2 \in Int :
        t1 = Grant!CapitalTax(q, x - 1) /\ t2 = Grant!CapitalTax(q, x) /\ t2 <= t1 + 40 * k
  BY <1>2, GrantCapitalTax
<1>4. PICK slab \in Int : slab = Grant!AtSlab(perquisite)
  BY <1>1 DEF Grant!AtSlab
<1>5. PICK u \in Int, w \in Int :
        /\ u = Grant!PreTax(q, x - 1) - slab - t1 /\ w = Grant!PreTax(q, x) - slab - t2
        /\ u <= w
  BY <1>2, <1>3, <1>4
<1>6. Grant!Net(q, x - 1) = Grant!Max({0, u}) /\ Grant!Net(q, x) = Grant!Max({0, w})
  BY <1>1, <1>3, <1>4, <1>5 DEF Grant!Net
<1>7. QED
  BY <1>5, <1>6, GrantMax

\* What is answered adds up.
LEMMA GrantTells ==
    ASSUME answered =>
             \E q \in Grant!Questions :
               /\ question = q
               /\ answer = [timeline |-> Grant!Timeline(q),
                            nets |-> [exit \in DOMAIN Grant!Halves |-> Grant!Net(q, exit)]]
    PROVE  Grant!GrantAddsUp
<1>0. ~answered => Grant!GrantAddsUp
  BY SMT DEF Grant!GrantAddsUp
<1> SUFFICES ASSUME answered PROVE Grant!GrantAddsUp
  BY <1>0
<1>1. PICK q \in Grant!Questions :
        /\ question = q
        /\ answer = [timeline |-> Grant!Timeline(q),
                     nets |-> [exit \in DOMAIN Grant!Halves |-> Grant!Net(q, exit)]]
  OBVIOUS
<1>2. PICK tl : tl = Grant!Timeline(q)
  OBVIOUS
<1>3. tl # <<>> => TranchesOK(q, tl)
  <2>1. tl # <<>> => q.term # 0 /\ q.shares # 0
    BY <1>2 DEF Grant!Timeline
  <2>2. q.cliff < q.term \/ q.term <= q.cliff
    BY GrantQuestion
  <2>3. QED
    BY <1>2, <2>1, <2>2, GrantAtOnce, GrantInTime
<1>4. DOMAIN Grant!Halves = 1..3
  BY GrantAmounts
<1>5. ASSUME NEW x \in 1..3, q.strike <= q.value
      PROVE  Grant!Perquisite(q) + Grant!CapitalGain(q, x) = Grant!PreTax(q, x)
  <2>1. PICK worth \in Nat, price \in Nat, perquisite \in Int, h \in {Grant!Halves} :
          /\ perquisite = Grant!Perquisite(q)
          /\ perquisite = 80 * (worth - price)
          /\ h[1] = 3 /\ h[2] = 6 /\ h[3] = 10
          /\ \A y \in 1..3 : /\ Grant!PreTax(q, y) = 40 * (h[y] * worth) - 80 * price
                             /\ Grant!CapitalGain(q, y) = 40 * ((h[y] - 2) * worth)
    <3>1. PICK worth \in Nat, price \in Nat, perquisite \in Int, h \in {Grant!Halves} :
            /\ perquisite = Grant!Perquisite(q)
            /\ q.strike <= q.value => perquisite = 80 * (worth - price)
            /\ h = Grant!Halves /\ DOMAIN Grant!Halves = 1..3 /\ h[1] = 3 /\ h[2] = 6 /\ h[3] = 10
            /\ \A y \in 1..3 : /\ Grant!PreTax(q, y) = 40 * (h[y] * worth) - 80 * price
                               /\ Grant!CapitalGain(q, y) = 40 * ((h[y] - 2) * worth)
      BY GrantAmounts
    <3>2. perquisite = 80 * (worth - price)
      BY <1>5, <3>1
    <3>3. QED
      BY <3>1, <3>2
  <2>2. PICK k \in Int : k = h[x] /\ k \in {3, 6, 10}
    BY <2>1
  <2>3. 40 * ((k - 2) * worth) = 40 * (k * worth) - 80 * worth
    OBVIOUS
  <2>4. QED
    BY <2>1, <2>2, <2>3
<1>6. PICK nets : nets = [exit \in 1..3 |-> Grant!Net(q, exit)]
  OBVIOUS
<1>7. answer.timeline = tl /\ answer.nets = nets
  BY <1>1, <1>2, <1>4, <1>6
<1>8. \A x \in 1..3 : x > 1 => nets[x - 1] <= nets[x]
  <2> SUFFICES ASSUME NEW x \in 1..3, x > 1 PROVE nets[x - 1] <= nets[x]
    OBVIOUS
  <2>1. nets[x - 1] = Grant!Net(q, x - 1) /\ nets[x] = Grant!Net(q, x)
    BY <1>6
  <2>2. QED
    BY <2>1, GrantNets
<1>9. QED
  BY <1>1, <1>3, <1>4, <1>5, <1>7, <1>8 DEF Grant!GrantAddsUp, TranchesOK

-----------------------------------------------------------------------------
\* Pay in a market: market_positioning.py.

\* A benchmark, by its four percentiles.
LEMMA MarketBenchmark ==
    ASSUME NEW b \in Market!Benchmarks
    PROVE  /\ \A i \in 1..4 : b[i] \in Nat
           /\ b[1] <= b[2] /\ b[2] <= b[3] /\ b[3] <= b[4]
<1>1. b \in [1..4 -> 0..MaxPay] /\ \A i \in 1..3 : b[i] <= b[i + 1]
  BY DEF Market!Benchmarks
<1>2. \A i \in 1..4 : b[i] \in 0..MaxPay
  BY <1>1
<1>3. \A i \in 1..4 : b[i] \in Nat
  BY <1>2, MaxPayAssumption
<1>4. b[1] <= b[1 + 1] /\ b[2] <= b[2 + 1] /\ b[3] <= b[3 + 1]
  BY <1>1
<1>5. b[1] <= b[2] /\ b[2] <= b[3] /\ b[3] <= b[4]
  BY <1>4
<1>6. QED
  BY <1>3, <1>5

\* The interval a pay above the first percentile stands in.
LEMMA MarketInterval ==
    ASSUME NEW b \in Market!Benchmarks, NEW p \in Nat, NEW i \in 1..3, b[i] < p, p <= b[i + 1]
    PROVE  /\ b[1] < p /\ b[i] < b[i + 1]
           /\ Market!Percentile(p, b) = Market!Marks[i]
                + ((p - b[i]) * (Market!Marks[i + 1] - Market!Marks[i])) \div (b[i + 1] - b[i])
<1>1. /\ \A j \in 1..4 : b[j] \in Nat
      /\ b[1] <= b[2] /\ b[2] <= b[3] /\ b[3] <= b[4]
  BY MarketBenchmark
<1>2. i + 1 \in 1..4 /\ i \in 1..4
  OBVIOUS
<1>3. b[1] < p /\ b[i] < b[i + 1]
  BY <1>1, <1>2
<1>4. PICK S : S = Market!Holding(p, b)
  OBVIOUS
<1>5. i \in S
  BY <1>1, <1>2, <1>4 DEF Market!Holding
<1>6. \A j \in S : i <= j
  <2> SUFFICES ASSUME NEW j \in S, j < i PROVE FALSE
    BY <1>4 DEF Market!Holding
  <2>1. j \in 1..3 /\ p <= b[j + 1]
    BY <1>4 DEF Market!Holding
  <2>2. b[j + 1] <= b[i]
    BY <1>1, <2>1
  <2>3. j + 1 \in 1..4
    BY <2>1
  <2>4. QED
    BY <1>1, <1>2, <2>1, <2>2, <2>3
<1>7. Market!Min(S) = i
  <2>1. S \subseteq 1..3
    BY <1>4 DEF Market!Holding
  <2>2. Market!Min(S) \in S /\ \A j \in S : Market!Min(S) <= j
    BY <1>5, <1>6 DEF Market!Min
  <2>3. PICK z : z = Market!Min(S)
    OBVIOUS
  <2>4. z \in 1..3 /\ z <= i /\ i <= z
    BY ONLY <1>5, <1>6, <2>1, <2>2, <2>3
  <2>5. QED
    BY ONLY i \in 1..3, <2>3, <2>4
<1>8. Market!Percentile(p, b) = Market!Between(p, b, i)
  <2>1. ~(p <= b[1]) /\ S # {}
    BY <1>1, <1>3, <1>5
  <2>2. QED
    BY <1>4, <1>7, <2>1 DEF Market!Percentile
<1>9. b[i] # b[i + 1]
  BY <1>1, <1>2, <1>3
<1>10. QED
  BY <1>3, <1>8, <1>9 DEF Market!Between

\* Above the last percentile.
LEMMA MarketBeyond ==
    ASSUME NEW b \in Market!Benchmarks, NEW p \in Nat, b[4] < p
    PROVE  Market!Percentile(p, b) = IF b[3] < b[4] THEN Market!Beyond(p, b) ELSE 9000
<1>1. /\ \A j \in 1..4 : b[j] \in Nat
      /\ b[1] <= b[2] /\ b[2] <= b[3] /\ b[3] <= b[4]
  BY MarketBenchmark
<1>2. ~(p <= b[1])
  BY <1>1
<1>3. Market!Holding(p, b) = {}
  <2> SUFFICES ASSUME NEW i \in 1..3, p <= b[i + 1] PROVE FALSE
    BY DEF Market!Holding
  <2>1. b[i + 1] <= b[4] /\ i + 1 \in 1..4
    BY <1>1
  <2>2. QED
    BY <1>1, <2>1
<1>4. QED
  BY <1>2, <1>3, SMT DEF Market!Percentile

\* Where x stands between low and low + span if it goes from 0 to d.
LEMMA MarketPart ==
    ASSUME NEW low \in Nat, NEW span \in Nat, NEW d \in Nat \ {0}, NEW x \in Nat
    PROVE  /\ low + (x * span) \div d \in Nat /\ low <= low + (x * span) \div d
           /\ x <= d => low + (x * span) \div d <= low + span
           /\ x = d => low + (x * span) \div d = low + span
           /\ (x * span) \div d <= ((x + 1) * span) \div d
<1>1. PICK a \in Nat, b \in Nat : a = x * span /\ b = (x + 1) * span /\ a <= b
  <2>1. (x + 1) * span = x * span + span /\ x * span \in Nat
    OBVIOUS
  <2>2. QED
    BY <2>1
<1>2. PICK k \in Nat : k = a \div d
  BY <1>1, Quotient
<1>3. k <= b \div d
  BY <1>1, <1>2, QuotientGrows
<1>4. ASSUME x <= d PROVE k <= span
  <2>1. x * span <= d * span
    BY <1>4
  <2>2. a <= d * span
    BY <1>1, <2>1
  <2>3. QED
    BY <1>1, <1>2, <2>2, QuotientAtMost
<1>5. ASSUME x = d PROVE span <= k
  <2>1. d * span <= a
    BY <1>1, <1>5
  <2>2. QED
    BY <1>1, <1>2, <2>1, QuotientAtLeast
<1>6. x = d => x <= d
  OBVIOUS
<1>7. QED
  BY <1>1, <1>2, <1>3, <1>4, <1>5, <1>6

\* The five places a pay can stand in, in order, and where each begins.
InPlace(p, b, k) == (k = 0 \/ b[k] < p) /\ (k = 4 \/ p <= b[k + 1])
PlaceFrom == <<0, 2500, 5000, 7500, 9000, 9900>>

LEMMA MarketPlaceFrom ==
    ASSUME NEW f, f = PlaceFrom
    PROVE  /\ \A k \in 1..6 : f[k] \in Nat
           /\ f[1] = 0 /\ f[1] <= f[2] /\ f[2] <= f[3] /\ f[3] <= f[4] /\ f[4] <= f[5] /\ f[5] <= f[6]
           /\ f[2] = 2500 /\ f[5] = 9000 /\ f[6] = 9900
           /\ \A i \in 1..4 : Market!Marks[i] = f[i + 1]
<1>1. f[1] = 0 /\ f[2] = 2500 /\ f[3] = 5000 /\ f[4] = 7500 /\ f[5] = 9000 /\ f[6] = 9900
  BY SMT DEF PlaceFrom
<1>2. /\ Market!Marks[1] = 2500 /\ Market!Marks[2] = 5000
      /\ Market!Marks[3] = 7500 /\ Market!Marks[4] = 9000
  BY SMT DEF Market!Marks
<1>3. \A k \in 1..6 : f[k] \in Nat
  BY <1>1, SMT
<1>4. /\ f[1] <= f[2] /\ f[2] <= f[3] /\ f[3] <= f[4] /\ f[4] <= f[5] /\ f[5] <= f[6]
  BY <1>1, SMT
<1>5. \A i \in 1..4 : Market!Marks[i] = f[i + 1]
  BY <1>1, <1>2, SMT
<1>6. QED
  BY <1>1, <1>3, <1>4, <1>5, SMT

\* Within its place a pay stands between where it begins and where the next one
\* does, and no lower than a smaller pay in the same place.
LEMMA MarketFirst ==
    ASSUME NEW b \in Market!Benchmarks, NEW p \in Nat, p <= b[1]
    PROVE  /\ Market!Percentile(p, b) \in Nat /\ Market!Percentile(p, b) <= 2500
           /\ p + 1 <= b[1] => Market!Percentile(p, b) <= Market!Percentile(p + 1, b)
           /\ p = b[1] /\ 0 < p => Market!Percentile(p, b) = 2500
<1>1. PICK d \in Nat, w \in Nat : d = b[1] /\ w = 2500
  BY MarketBenchmark, SMT
<1>2. CASE d = 0
  <2>1. Market!Percentile(p, b) = 0 /\ ~(p + 1 <= b[1]) /\ ~(0 < p)
    BY <1>1, <1>2, SMT DEF Market!Percentile, Market!Below
  <2>2. QED
    BY <1>1, <2>1, SMT
<1>3. CASE d # 0
  <2>1. \A x \in Nat : x <= d => Market!Percentile(x, b) = (w * x) \div d
    BY <1>1, <1>3, SMT DEF Market!Percentile, Market!Below
  <2>2. PICK u \in Nat : u = (p * w) \div d /\ u <= w /\ (p = d => u = w) /\ u <= ((p + 1) * w) \div d
    <3>1. 0 \in Nat /\ d \in Nat \ {0}
      BY <1>3
    <3>2. /\ 0 + (p * w) \div d \in Nat
          /\ p <= d => 0 + (p * w) \div d <= 0 + w
          /\ p = d => 0 + (p * w) \div d = 0 + w
          /\ (p * w) \div d <= ((p + 1) * w) \div d
      BY <3>1, MarketPart
    <3>3. (p * w) \div d \in Int
      BY <3>1
    <3>4. QED
      BY <1>1, <3>2, <3>3
  <2>3. w * p = p * w /\ w * (p + 1) = (p + 1) * w
    OBVIOUS
  <2>4. Market!Percentile(p, b) = u
    BY <1>1, <2>1, <2>2, <2>3
  <2>5. p + 1 <= d => Market!Percentile(p + 1, b) = ((p + 1) * w) \div d
    BY <2>1, <2>3
  <2>6. QED
    BY ONLY <1>1, <2>2, <2>4, <2>5
<1>4. QED
  BY <1>2, <1>3

LEMMA MarketBetween ==
    ASSUME NEW b \in Market!Benchmarks, NEW p \in Nat, NEW i \in 1..3, b[i] < p, p <= b[i + 1]
    PROVE  /\ Market!Percentile(p, b) \in Nat
           /\ Market!Marks[i] <= Market!Percentile(p, b)
           /\ Market!Percentile(p, b) <= Market!Marks[i + 1]
           /\ p + 1 <= b[i + 1] => Market!Percentile(p, b) <= Market!Percentile(p + 1, b)
           /\ p = b[i + 1] => Market!Percentile(p, b) = Market!Marks[i + 1]
<1>1. PICK l \in Nat, h \in Nat : l = b[i] /\ h = b[i + 1]
  <2>1. i \in 1..4 /\ i + 1 \in 1..4
    OBVIOUS
  <2>2. QED
    BY <2>1, MarketBenchmark
<1>2. PICK low \in Nat, span \in Nat :
        low = Market!Marks[i] /\ span = Market!Marks[i + 1] - Market!Marks[i] /\ low + span = Market!Marks[i + 1]
  <2>1. PICK f : f = PlaceFrom
    OBVIOUS
  <2>2. /\ \A k \in 1..6 : f[k] \in Nat
        /\ f[2] <= f[3] /\ f[3] <= f[4] /\ f[4] <= f[5]
        /\ \A j \in 1..4 : Market!Marks[j] = f[j + 1]
    BY ONLY <2>1, MarketPlaceFrom
  <2>3. Market!Marks[i] = f[i + 1] /\ Market!Marks[i + 1] = f[i + 2] /\ i + 1 \in 1..6 /\ i + 2 \in 1..6
    <3>1. i \in 1..4 /\ i + 1 \in 1..4 /\ (i + 1) + 1 = i + 2 /\ i + 1 \in 1..6 /\ i + 2 \in 1..6
      OBVIOUS
    <3>2. QED
      BY ONLY <2>2, <3>1
  <2>4. f[i + 1] <= f[i + 2]
    BY ONLY i \in 1..3, <2>2
  <2>5. QED
    BY <2>2, <2>3, <2>4
<1>3. PICK d \in Nat \ {0}, x \in Nat : d = h - l /\ x = p - l /\ x <= d
  BY <1>1
<1>4. Market!Percentile(p, b) = low + (x * span) \div d
  BY ONLY b \in Market!Benchmarks, p \in Nat, i \in 1..3, b[i] < p, p <= b[i + 1],
          <1>1, <1>2, <1>3, MarketInterval
<1>5. ASSUME p + 1 <= b[i + 1] PROVE Market!Percentile(p + 1, b) = low + ((x + 1) * span) \div d
  <2>1. p + 1 \in Nat /\ b[i] < p + 1 /\ (p + 1) - l = x + 1
    BY <1>1, <1>3
  <2>2. Market!Percentile(p + 1, b) = Market!Marks[i]
          + (((p + 1) - b[i]) * (Market!Marks[i + 1] - Market!Marks[i])) \div (b[i + 1] - b[i])
    BY <1>5, <2>1, MarketInterval
  <2>3. QED
    BY ONLY <1>1, <1>2, <1>3, <2>1, <2>2
<1>6. /\ low + (x * span) \div d \in Nat /\ low <= low + (x * span) \div d
      /\ x <= d => low + (x * span) \div d <= low + span
      /\ x = d => low + (x * span) \div d = low + span
      /\ (x * span) \div d <= ((x + 1) * span) \div d
  BY MarketPart
<1>7. PICK u \in Int, v \in Int : u = (x * span) \div d /\ v = ((x + 1) * span) \div d
  <2>1. x * span \in Int /\ (x + 1) * span \in Int
    OBVIOUS
  <2>2. QED
    BY <2>1, Quotient
<1>8. p = b[i + 1] => x = d
  BY <1>1, <1>3
<1>9. QED
  BY ONLY low \in Nat, <1>2, <1>3, <1>4, <1>5, <1>6, <1>7, <1>8

LEMMA MarketLast ==
    ASSUME NEW b \in Market!Benchmarks, NEW p \in Nat, b[4] < p
    PROVE  /\ Market!Percentile(p, b) \in Nat /\ 9000 <= Market!Percentile(p, b)
           /\ Market!Percentile(p, b) <= 9900
           /\ Market!Percentile(p, b) <= Market!Percentile(p + 1, b)
<1>1. PICK l \in Nat, h \in Nat : l = b[3] /\ h = b[4] /\ l <= h
  BY MarketBenchmark
<1>2. PICK low \in Nat, top \in Nat, span \in Nat : low = 9000 /\ top = 9900 /\ span = 1000 /\ low <= top
  BY SMT
<1>3. p + 1 \in Nat /\ b[4] < p + 1
  BY <1>1
<1>4. CASE l < h
  <2>1. PICK d \in Nat \ {0}, x \in Nat : d = h - l /\ x = p - h /\ x + 1 = (p + 1) - h
    BY <1>1, <1>4
  <2>2. PICK u \in Int, v \in Int :
          /\ u = low + (x * span) \div d /\ v = low + ((x + 1) * span) \div d
          /\ low <= u /\ u <= v
    <3>1. low <= low + (x * span) \div d /\ (x * span) \div d <= ((x + 1) * span) \div d
      BY MarketPart
    <3>2. x * span \in Int /\ (x + 1) * span \in Int
      OBVIOUS
    <3>3. (x * span) \div d \in Int /\ ((x + 1) * span) \div d \in Int
      BY <3>2, Quotient
    <3>4. QED
      BY <3>1, <3>3
  <2>3. Market!Percentile(p, b) = Market!Min({top, u})
    <3>1. Market!Percentile(p, b) = Market!Beyond(p, b)
      BY <1>1, <1>4, MarketBeyond
    <3>2. QED
      BY ONLY <1>1, <1>2, <2>1, <2>2, <3>1, SMT DEF Market!Beyond
  <2>4. Market!Percentile(p + 1, b) = Market!Min({top, v})
    <3>1. Market!Percentile(p + 1, b) = Market!Beyond(p + 1, b)
      BY <1>1, <1>3, <1>4, MarketBeyond
    <3>2. Market!Beyond(p + 1, b) = Market!Min({top, low + (((p + 1) - h) * span) \div d})
      BY ONLY <1>1, <1>2, <2>1, SMT DEF Market!Beyond
    <3>3. low + (((p + 1) - h) * span) \div d = v
      BY ONLY <2>1, <2>2
    <3>4. QED
      BY ONLY <3>1, <3>2, <3>3
  <2>5. \A y \in Int : Market!Min({top, y}) = IF top <= y THEN top ELSE y
    <3> SUFFICES ASSUME NEW y \in Int PROVE Market!Min({top, y}) = IF top <= y THEN top ELSE y
      OBVIOUS
    <3>1. \E m \in {top, y} : \A z \in {top, y} : m <= z
      <4>1. top <= y \/ y <= top
        OBVIOUS
      <4>2. top <= top /\ y <= y
        OBVIOUS
      <4>3. QED
        BY ONLY <4>1, <4>2
    <3>2. Market!Min({top, y}) \in {top, y} /\ \A z \in {top, y} : Market!Min({top, y}) <= z
      BY ONLY <3>1 DEF Market!Min
    <3>3. QED
      BY <3>2
  <2>6. QED
    BY <1>2, <2>2, <2>3, <2>4, <2>5, SMT
<1>5. CASE ~(l < h)
  <2>1. Market!Percentile(p, b) = low
    BY <1>1, <1>2, <1>5, MarketBeyond, SMT
  <2>2. Market!Percentile(p + 1, b) = low
    BY <1>1, <1>2, <1>3, <1>5, MarketBeyond, SMT
  <2>3. QED
    BY <1>2, <2>1, <2>2, SMT
<1>6. QED
  BY <1>4, <1>5

LEMMA MarketPlace ==
    ASSUME NEW b \in Market!Benchmarks, NEW p \in Nat, NEW k \in 0..4, InPlace(p, b, k),
           NEW f, f = PlaceFrom
    PROVE  /\ Market!Percentile(p, b) \in Nat
           /\ f[k + 1] <= Market!Percentile(p, b) /\ Market!Percentile(p, b) <= f[k + 2]
           /\ InPlace(p + 1, b, k) => Market!Percentile(p, b) <= Market!Percentile(p + 1, b)
<1>1. /\ f[1] = 0 /\ f[2] = 2500 /\ f[5] = 9000 /\ f[6] = 9900
      /\ \A i \in 1..4 : Market!Marks[i] = f[i + 1]
  BY MarketPlaceFrom
<1>2. PICK here, next : here = Market!Percentile(p, b) /\ next = Market!Percentile(p + 1, b)
  OBVIOUS
<1>3. CASE k = 0
  <2>1. p <= b[1] /\ (InPlace(p + 1, b, k) => p + 1 <= b[1])
    BY <1>3 DEF InPlace
  <2>2. here \in Nat /\ here <= 2500 /\ (InPlace(p + 1, b, k) => here <= next)
    BY <1>2, <2>1, MarketFirst
  <2>3. f[k + 1] = 0 /\ f[k + 2] = 2500
    BY <1>1, <1>3, SMT
  <2>4. QED
    BY <1>2, <2>2, <2>3, SMT
<1>4. CASE k = 4
  <2>1. b[4] < p
    BY <1>4 DEF InPlace
  <2>2. here \in Nat /\ 9000 <= here /\ here <= 9900 /\ here <= next
    BY <1>2, <2>1, MarketLast
  <2>3. f[k + 1] = 9000 /\ f[k + 2] = 9900
    BY <1>1, <1>4, SMT
  <2>4. QED
    BY <1>2, <2>2, <2>3, SMT
<1>5. CASE k \in 1..3
  <2>1. b[k] < p /\ p <= b[k + 1] /\ (InPlace(p + 1, b, k) => p + 1 <= b[k + 1])
    BY <1>5 DEF InPlace
  <2>2. /\ here \in Nat /\ Market!Marks[k] <= here /\ here <= Market!Marks[k + 1]
        /\ InPlace(p + 1, b, k) => here <= next
    BY <1>2, <1>5, <2>1, MarketBetween
  <2>3. Market!Marks[k] = f[k + 1] /\ Market!Marks[k + 1] = f[k + 2]
    <3>1. k \in 1..4 /\ k + 1 \in 1..4 /\ (k + 1) + 1 = k + 2
      BY <1>5
    <3>2. QED
      BY ONLY <1>1, <3>1
  <2>4. QED
    BY ONLY <1>2, <2>2, <2>3
<1>6. QED
  BY <1>3, <1>4, <1>5

\* A higher pay stands no lower, in the same place or in another.
LEMMA MarketOrder ==
    ASSUME NEW b \in Market!Benchmarks, NEW p \in Nat
    PROVE  /\ Market!Percentile(p, b) \in Nat /\ Market!Percentile(p, b) <= 9900
           /\ Market!Percentile(p, b) <= Market!Percentile(p + 1, b)
<1>1. /\ \A i \in 1..4 : b[i] \in Nat
      /\ b[1] <= b[2] /\ b[2] <= b[3] /\ b[3] <= b[4]
  BY MarketBenchmark
<1>2. ASSUME NEW x \in Nat PROVE \E k \in 0..4 : InPlace(x, b, k)
  <2>1. CASE x <= b[1]
    BY <2>1 DEF InPlace
  <2>2. CASE b[1] < x /\ x <= b[2]
    <3>1. InPlace(x, b, 1)
      BY <2>2 DEF InPlace
    <3>2. QED
      BY <3>1
  <2>3. CASE b[2] < x /\ x <= b[3]
    <3>1. InPlace(x, b, 2)
      BY <2>3 DEF InPlace
    <3>2. QED
      BY <3>1
  <2>4. CASE b[3] < x /\ x <= b[4]
    <3>1. InPlace(x, b, 3)
      BY <2>4 DEF InPlace
    <3>2. QED
      BY <3>1
  <2>5. CASE b[4] < x
    <3>1. InPlace(x, b, 4)
      BY <2>5 DEF InPlace
    <3>2. QED
      BY <3>1
  <2>6. QED
    BY <1>1, <2>1, <2>2, <2>3, <2>4, <2>5
<1>3. PICK k \in 0..4 : InPlace(p, b, k)
  BY <1>2
<1>4. PICK j \in 0..4 : InPlace(p + 1, b, j)
  BY <1>2
<1>5. k <= j
  <2> SUFFICES ASSUME j < k PROVE FALSE
    OBVIOUS
  <2>1. p + 1 <= b[j + 1] /\ b[k] < p
    BY <1>3, <1>4 DEF InPlace
  <2>2. b[j + 1] <= b[k] /\ j + 1 \in 1..4 /\ k \in 1..4
    BY <1>1
  <2>3. QED
    BY <1>1, <2>1, <2>2
<1>6. PICK f : f = PlaceFrom
  OBVIOUS
<1>7. /\ \A i \in 1..6 : f[i] \in Nat
      /\ f[1] <= f[2] /\ f[2] <= f[3] /\ f[3] <= f[4] /\ f[4] <= f[5] /\ f[5] <= f[6]
  BY ONLY <1>6, MarketPlaceFrom
<1>8. f[6] = 9900
  BY ONLY <1>6, MarketPlaceFrom
<1>9. PICK here, next : here = Market!Percentile(p, b) /\ next = Market!Percentile(p + 1, b)
  OBVIOUS
<1>10. here \in Nat /\ here <= f[k + 2] /\ (InPlace(p + 1, b, k) => here <= next)
  BY <1>3, <1>6, <1>9, MarketPlace
<1>11. next \in Nat /\ f[j + 1] <= next
  <2>1. p + 1 \in Nat
    OBVIOUS
  <2>2. QED
    BY <1>4, <1>6, <1>9, <2>1, MarketPlace
<1>12. f[k + 2] <= f[6] /\ k + 2 \in 1..6
  BY <1>7
<1>13. here <= f[6]
  BY <1>7, <1>10, <1>12
<1>14. here <= next
  <2>1. CASE j = k
    BY <1>4, <1>10, <2>1
  <2>2. CASE k < j
    <3>1. f[k + 2] <= f[j + 1] /\ j + 1 \in 1..6
      BY <1>7, <2>2
    <3>2. QED
      BY <1>7, <1>10, <1>11, <1>12, <3>1
  <2>3. QED
    BY <1>5, <2>1, <2>2
<1>15. QED
  BY <1>8, <1>9, <1>10, <1>13, <1>14, SMT

\* The pay of a percentile stands at it.
LEMMA MarketAtMark ==
    ASSUME NEW b \in Market!Benchmarks, NEW p \in Nat \ {0}, \A i \in 1..3 : b[i] < b[i + 1],
           NEW i \in 1..4, b[i] = p
    PROVE  Market!Percentile(p, b) = Market!Marks[i]
<1>1. CASE i = 1
  <2>1. \A x \in Nat : b[1] \in Nat
    BY MarketBenchmark
  <2>2. p <= b[1] /\ 0 < p /\ p = b[1]
    BY <1>1
  <2>3. Market!Percentile(p, b) = 2500
    BY <2>2, MarketFirst
  <2>4. Market!Marks[1] = 2500
    BY SMT DEF Market!Marks
  <2>5. QED
    BY ONLY <1>1, <2>3, <2>4
<1>2. CASE i # 1
  <2>1. PICK j \in 1..3 : j + 1 = i
    BY <1>2
  <2>2. b[j] < p /\ p <= b[j + 1] /\ p = b[j + 1]
    BY <2>1
  <2>3. Market!Percentile(p, b) = Market!Marks[j + 1]
    BY <2>2, MarketBetween
  <2>4. QED
    BY <2>1, <2>3
<1>3. QED
  BY <1>1, <1>2

\* What is answered is in order.
LEMMA MarketTells ==
    ASSUME answered =>
             \E q \in Market!Questions :
               question = q /\ answer = <<Market!Percentile(q.pay, q.benchmark)>>
    PROVE  Market!PercentileInOrder
<1>0. ~answered => Market!PercentileInOrder
  BY SMT DEF Market!PercentileInOrder
<1> SUFFICES ASSUME answered PROVE Market!PercentileInOrder
  BY <1>0
<1>1. PICK q \in Market!Questions : question = q /\ answer = <<Market!Percentile(q.pay, q.benchmark)>>
  OBVIOUS
<1>2. PICK p \in Nat \ {0}, b \in Market!Benchmarks : p = q.pay /\ b = q.benchmark
  <2>1. q.pay \in 1..(2 * MaxPay) /\ q.benchmark \in Market!Benchmarks
    BY DEF Market!Questions
  <2>2. QED
    BY <2>1, MaxPayAssumption
<1>3. PICK here : here = Market!Percentile(p, b)
  OBVIOUS
<1>4. answer[1] = here
  BY <1>1, <1>2, <1>3
<1>5. here \in Nat /\ here <= 9900 /\ here <= Market!Percentile(p + 1, b)
  BY <1>3, MarketOrder
<1>6. here \in 0..9900
  BY <1>5, SMT
<1>7. (\A i \in 1..3 : b[i] < b[i + 1]) => \A i \in 1..4 : b[i] = p => here = Market!Marks[i]
  BY <1>3, MarketAtMark
<1>8. question.benchmark = b /\ question.pay = p
  BY <1>1, <1>2
<1>9. QED
  BY <1>4, <1>5, <1>6, <1>7, <1>8, SMT DEF Market!PercentileInOrder

-----------------------------------------------------------------------------
\* The chance of a reply: effort_per_chance_engine.py.

LEMMA ChanceMinMax ==
    ASSUME NEW x \in Int, NEW y \in Int
    PROVE  /\ Chance!Min({x, y}) = IF x <= y THEN x ELSE y
           /\ Chance!Max({x, y}) = IF x <= y THEN y ELSE x
<1>1. x <= x /\ y <= y /\ (x <= y \/ y <= x)
  OBVIOUS
<1>2. \E m \in {x, y} : \A z \in {x, y} : m <= z
  BY ONLY <1>1
<1>3. \E m \in {x, y} : \A z \in {x, y} : m >= z
  <2>1. x >= x /\ y >= y /\ (x >= y \/ y >= x)
    OBVIOUS
  <2>2. QED
    BY ONLY <2>1
<1>4. Chance!Min({x, y}) \in {x, y} /\ \A z \in {x, y} : Chance!Min({x, y}) <= z
  BY ONLY <1>2 DEF Chance!Min
<1>5. Chance!Max({x, y}) \in {x, y} /\ \A z \in {x, y} : Chance!Max({x, y}) >= z
  BY ONLY <1>3 DEF Chance!Max
<1>6. QED
  BY <1>4, <1>5

\* What is asked of an application, whatever its numbers.
ChanceAsked(q) ==
    /\ q.company[1] \in Nat /\ q.company[2] \in Nat
    /\ q.level \in Nat /\ q.overlap \in Nat /\ q.age \in Nat
    /\ q.applications \in Nat /\ q.responses \in Nat

\* A better application has no lower a chance before the own history counts.
LEMMA ChanceBase ==
    ASSUME NEW q, ChanceAsked(q), NEW r, ChanceAsked(r), r.company = q.company, q.level <= r.level,
           q.overlap <= r.overlap, r.age <= q.age
    PROVE  /\ Chance!Probability(q) \in Nat /\ Chance!Probability(r) \in Nat
           /\ Chance!Probability(q) <= Chance!Probability(r)
           /\ Chance!Probability(q) <= 10000
<1>1. PICK c \in Nat : c = Chance!CompanyRate(q.company)
  <2>1. PICK a \in Nat, d \in Nat : a = 100 * q.company[1] /\ d = q.company[2]
    BY DEF ChanceAsked
  <2>2. CASE d = 0
    BY <2>1, <2>2 DEF Chance!CompanyRate, Chance!DefaultRate
  <2>3. CASE d # 0
    <3>1. PICK k \in Nat : k = a \div d
      <4>1. a >= 0 /\ a \in Int /\ d \in Nat \ {0}
        BY <2>3
      <4>2. QED
        BY <4>1, Quotient
    <3>2. Chance!CompanyRate(q.company) = Chance!Min({k, 100})
      BY <2>1, <2>3, <3>1 DEF Chance!CompanyRate
    <3>3. QED
      BY <3>2, ChanceMinMax
  <2>4. QED
    BY <2>2, <2>3
<1>2. PICK l \in Nat, m \in Nat : l = q.level /\ m = r.level /\ l <= m
  BY DEF ChanceAsked
<1>3. PICK f \in Nat, g \in Nat : f = Chance!Fit(q.overlap) /\ g = Chance!Fit(r.overlap) /\ f <= g
  <2>1. PICK x \in Nat, y \in Nat : x = q.overlap /\ y = r.overlap /\ x <= y
    BY DEF ChanceAsked
  <2>2. PICK u \in Nat, v \in Nat : u = Chance!Min({x, 100}) /\ v = Chance!Min({y, 100}) /\ u <= v
    BY <2>1, ChanceMinMax
  <2>3. Chance!Max({0, u}) = u /\ Chance!Max({0, v}) = v
    BY ChanceMinMax
  <2>4. QED
    BY <2>1, <2>2, <2>3 DEF Chance!Fit
<1>4. PICK t \in Nat, s \in Nat : t = Chance!Timing(q.age) /\ s = Chance!Timing(r.age) /\ t <= s
  <2>1. q.age \in Nat /\ r.age \in Nat
    BY DEF ChanceAsked
  <2>2. Chance!Timing(q.age) <= Chance!Timing(r.age)
    BY <2>1 DEF Chance!Timing
  <2>3. Chance!Timing(q.age) \in Nat /\ Chance!Timing(r.age) \in Nat
    BY DEF Chance!Timing
  <2>4. QED
    BY <2>2, <2>3
<1>5. PICK top \in Nat : top = 10000
  BY SMT
<1>6. PICK x \in Nat, y \in Nat :
        /\ x = 30 * c + 20 * l + 35 * f + 15 * t
        /\ y = 30 * c + 20 * m + 35 * g + 15 * s
        /\ x <= y
  <2>1. 20 * l <= 20 * m /\ 35 * f <= 35 * g /\ 15 * t <= 15 * s
    BY ONLY l \in Nat, m \in Nat, f \in Nat, g \in Nat, t \in Nat, s \in Nat, <1>2, <1>3, <1>4
  <2>2. 30 * c + 20 * l + 35 * f + 15 * t \in Nat /\ 30 * c + 20 * m + 35 * g + 15 * s \in Nat
    OBVIOUS
  <2>3. 30 * c + 20 * l + 35 * f + 15 * t <= 30 * c + 20 * m + 35 * g + 15 * s
    BY <2>1
  <2>4. QED
    BY <2>2, <2>3
<1>7. Chance!Probability(q) = Chance!Min({x, top})
  BY <1>1, <1>2, <1>3, <1>4, <1>5, <1>6, SMT DEF Chance!Probability
<1>8. Chance!Probability(r) = Chance!Min({y, top})
  BY <1>1, <1>2, <1>3, <1>4, <1>5, <1>6, SMT DEF Chance!Probability
<1>9. QED
  BY <1>5, <1>6, <1>7, <1>8, ChanceMinMax, SMT

\* A chance is kept between a tenth and three times what it was, and below the
\* whole.
Kept(base, x) == Chance!Min({Chance!Max({base \div 10, Chance!Min({x, 3 * base})}), 10000})

LEMMA KeptGrows ==
    ASSUME NEW base \in Nat, NEW more \in Nat, base <= more, NEW x \in Nat, NEW y \in Nat, x <= y
    PROVE  /\ Kept(base, x) <= Kept(more, y)
           /\ x <= base => Kept(base, x) <= base
<1>1. PICK top \in Nat : top = 10000
  BY SMT
<1>2. PICK b \in Nat, m \in Nat : b = base \div 10 /\ m = more \div 10 /\ b <= m /\ b <= base
  <2>1. base \div 10 \in Nat /\ more \div 10 \in Nat /\ base \div 10 <= more \div 10 /\ base \div 10 <= base
    OBVIOUS
  <2>2. QED
    BY <2>1
<1>3. PICK u \in Nat, v \in Nat :
        u = Chance!Min({x, 3 * base}) /\ v = Chance!Min({y, 3 * more}) /\ u <= v /\ u <= x
  BY ChanceMinMax
<1>4. PICK c \in Nat, d \in Nat :
        /\ c = Chance!Max({b, u}) /\ d = Chance!Max({m, v}) /\ c <= d
        /\ u <= base => c <= base
  <2>1. Chance!Max({b, u}) = IF b <= u THEN u ELSE b
    BY ChanceMinMax
  <2>2. Chance!Max({m, v}) = IF m <= v THEN v ELSE m
    BY ChanceMinMax
  <2>3. QED
    BY <1>2, <1>3, <2>1, <2>2
<1>5. Kept(base, x) = Chance!Min({c, top}) /\ Kept(more, y) = Chance!Min({d, top})
  BY <1>1, <1>2, <1>3, <1>4, SMT DEF Kept
<1>6. Chance!Min({c, top}) <= Chance!Min({d, top}) /\ Chance!Min({c, top}) <= c
  <2>1. Chance!Min({c, top}) = IF c <= top THEN c ELSE top
    BY ChanceMinMax
  <2>2. Chance!Min({d, top}) = IF d <= top THEN d ELSE top
    BY ChanceMinMax
  <2>3. QED
    BY <1>4, <2>1, <2>2
<1>7. Chance!Min({c, top}) \in Nat
  BY ChanceMinMax
<1>8. QED
  BY <1>3, <1>4, <1>5, <1>6, <1>7

LEMMA ChanceKept ==
    ASSUME NEW q, NEW num, NEW den, num = Chance!Multiplier(q.applications, q.responses).num,
           den = Chance!Multiplier(q.applications, q.responses).den
    PROVE  Chance!Adjusted(q) = Kept(Chance!Probability(q), (Chance!Probability(q) * num) \div den)
BY SMT DEF Chance!Adjusted, Kept

\* What the own history multiplies a chance by.
MultiplierOf(n, r, num, den) ==
    /\ num = Chance!Multiplier(n, r).num /\ den = Chance!Multiplier(n, r).den
    /\ n < 10 => num = 1 /\ den = 1
    /\ n >= 50 => num = 100 * r /\ den = 15 * n
    /\ n >= 10 /\ n < 50 => num = 100 * r + 15 * (50 - n) /\ den = 750

LEMMA ChanceMultiplier ==
    ASSUME NEW n \in Nat, NEW r \in Nat
    PROVE  \E num \in Nat, den \in Nat \ {0} : MultiplierOf(n, r, num, den)
<1> USE DEF MultiplierOf
<1>1. CASE n < 10
  <2>1. Chance!Multiplier(n, r) = [num |-> 1, den |-> 1]
    BY <1>1 DEF Chance!Multiplier, Chance!Partial
  <2>2. QED
    BY <1>1, <2>1
<1>2. CASE n >= 50
  <2>1. Chance!Multiplier(n, r) = [num |-> 100 * r, den |-> 15 * n]
    BY <1>2 DEF Chance!Multiplier, Chance!Partial, Chance!Full, Chance!DefaultRate
  <2>2. QED
    BY <1>2, <2>1
<1>3. CASE n >= 10 /\ n < 50
  <2>1. Chance!Multiplier(n, r) = [num |-> 100 * r + 15 * (50 - n), den |-> 750]
    BY <1>3, SMT DEF Chance!Multiplier, Chance!Partial, Chance!Full, Chance!DefaultRate
  <2>2. 100 * r + 15 * (50 - n) \in Nat
    BY <1>3
  <2>3. QED
    BY <1>3, <2>1, <2>2, SMT
<1>4. QED
  BY <1>1, <1>2, <1>3

\* The same history: the better application has the better chance.
LEMMA ChanceOfBetter ==
    ASSUME NEW q, ChanceAsked(q), NEW r, ChanceAsked(r), r.company = q.company, q.level <= r.level,
           q.overlap <= r.overlap, r.age <= q.age, r.applications = q.applications,
           r.responses = q.responses
    PROVE  Chance!Adjusted(q) <= Chance!Adjusted(r)
<1>1. PICK base \in Nat, more \in Nat :
        base = Chance!Probability(q) /\ more = Chance!Probability(r) /\ base <= more
  BY ChanceBase
<1>2. PICK num \in Nat, den \in Nat \ {0} :
        /\ num = Chance!Multiplier(q.applications, q.responses).num
        /\ den = Chance!Multiplier(q.applications, q.responses).den
  <2>1. PICK n \in Nat, s \in Nat : n = q.applications /\ s = q.responses
    BY DEF ChanceAsked
  <2>2. PICK num \in Nat, den \in Nat \ {0} : MultiplierOf(n, s, num, den)
    BY ChanceMultiplier
  <2>3. QED
    BY <2>1, <2>2, SMT DEF MultiplierOf
<1>3. PICK x \in Nat, y \in Nat : x = (base * num) \div den /\ y = (more * num) \div den /\ x <= y
  <2>1. PICK a \in Nat, b \in Nat : a = base * num /\ b = more * num /\ a <= b
    BY <1>1
  <2>2. a \div den \in Nat /\ b \div den \in Nat /\ a \div den <= b \div den
    BY <2>1, Quotient, QuotientGrows
  <2>3. QED
    BY <2>1, <2>2
<1>4. Chance!Adjusted(q) = Kept(base, x)
  BY <1>1, <1>2, <1>3, ChanceKept
<1>5. Chance!Adjusted(r) = Kept(more, y)
  BY <1>1, <1>2, <1>3, ChanceKept
<1>6. QED
  BY <1>1, <1>3, <1>4, <1>5, KeptGrows

\* The same application: the better history has the better chance.
LEMMA ChanceOfHistory ==
    ASSUME NEW q, ChanceAsked(q), NEW r, ChanceAsked(r), r.company = q.company, q.level = r.level,
           q.overlap = r.overlap, r.age = q.age,
           NEW num \in Nat, NEW den \in Nat \ {0}, NEW num2 \in Nat, NEW den2 \in Nat \ {0},
           num = Chance!Multiplier(q.applications, q.responses).num,
           den = Chance!Multiplier(q.applications, q.responses).den,
           num2 = Chance!Multiplier(r.applications, r.responses).num,
           den2 = Chance!Multiplier(r.applications, r.responses).den,
           num <= num2, den2 <= den
    PROVE  Chance!Adjusted(q) <= Chance!Adjusted(r)
<1>1. PICK base \in Nat : base = Chance!Probability(q) /\ base = Chance!Probability(r)
  <2>1. Chance!Probability(q) \in Nat
    <3>1. q.level <= q.level /\ q.overlap <= q.overlap /\ q.age <= q.age
      BY DEF ChanceAsked
    <3>2. QED
      BY <3>1, ChanceBase
  <2>2. Chance!Probability(q) = Chance!Probability(r)
    BY DEF Chance!Probability
  <2>3. QED
    BY <2>1, <2>2
<1>2. PICK x \in Nat, y \in Nat : x = (base * num) \div den /\ y = (base * num2) \div den2 /\ x <= y
  <2>1. PICK a \in Nat, b \in Nat : a = base * num /\ b = base * num2 /\ a <= b
    BY <1>1
  <2>2. PICK u \in Nat, v \in Nat, w \in Nat : u = a \div den /\ v = b \div den /\ w = b \div den2
    BY Quotient
  <2>3. u <= v
    BY <2>1, <2>2, QuotientGrows
  <2>4. v <= w
    BY <2>2, QuotientShrinks
  <2>5. QED
    BY <2>1, <2>2, <2>3, <2>4
<1>3. Chance!Adjusted(q) = Kept(base, x)
  BY <1>1, <1>2, ChanceKept
<1>4. Chance!Adjusted(r) = Kept(base, y)
  BY <1>1, <1>2, ChanceKept
<1>5. base <= base
  OBVIOUS
<1>6. QED
  BY <1>2, <1>3, <1>4, <1>5, KeptGrows

\* Another application without an answer is no better a history.
NoBetter(n, r, num, den, num2, den2) ==
    /\ num \in Nat /\ den \in Nat \ {0} /\ num2 \in Nat /\ den2 \in Nat \ {0}
    /\ num = Chance!Multiplier(n + 1, r).num /\ den = Chance!Multiplier(n + 1, r).den
    /\ num2 = Chance!Multiplier(n, r).num /\ den2 = Chance!Multiplier(n, r).den
    /\ num <= num2 /\ den2 <= den

LEMMA ChanceOfOneMore ==
    ASSUME NEW n \in Nat, NEW r \in Nat
    PROVE  n >= 10 => \E num, den, num2, den2 : NoBetter(n, r, num, den, num2, den2)
<1> SUFFICES ASSUME n >= 10 PROVE \E num, den, num2, den2 : NoBetter(n, r, num, den, num2, den2)
  OBVIOUS
<1>1. PICK num \in Nat, den \in Nat \ {0} : MultiplierOf(n + 1, r, num, den)
  <2>1. n + 1 \in Nat
    OBVIOUS
  <2>2. QED
    BY <2>1, ChanceMultiplier
<1>2. PICK num2 \in Nat, den2 \in Nat \ {0} : MultiplierOf(n, r, num2, den2)
  BY ChanceMultiplier
<1>3. num <= num2 /\ den2 <= den
  BY <1>1, <1>2, SMT DEF MultiplierOf
<1>4. NoBetter(n, r, num, den, num2, den2)
  BY <1>1, <1>2, <1>3, SMT DEF MultiplierOf, NoBetter
<1>5. QED
  BY <1>4

\* Who is answered less often than users in general is not raised.
LEMMA ChanceOfFewer ==
    ASSUME NEW q, ChanceAsked(q), 100 * q.responses < 15 * q.applications
    PROVE  Chance!Adjusted(q) <= Chance!Probability(q)
<1>1. PICK n \in Nat, r \in Nat : n = q.applications /\ r = q.responses /\ 100 * r < 15 * n
  BY DEF ChanceAsked
<1>2. PICK num \in Nat, den \in Nat \ {0} : MultiplierOf(n, r, num, den)
  BY ChanceMultiplier
<1>3. num <= den
  BY <1>1, <1>2, SMT DEF MultiplierOf
<1>4. PICK base \in Nat : base = Chance!Probability(q)
  <2>1. q.level <= q.level /\ q.overlap <= q.overlap /\ q.age <= q.age
    BY DEF ChanceAsked
  <2>2. QED
    BY <2>1, ChanceBase
<1>5. PICK x \in Nat : x = (base * num) \div den /\ x <= base
  <2>1. base * num \in Nat /\ base * num <= den * base
    BY <1>3
  <2>2. (base * num) \div den \in Nat
    BY <2>1, Quotient
  <2>3. (base * num) \div den <= base
    BY <2>1, QuotientAtMost
  <2>4. QED
    BY <2>2, <2>3
<1>6. Chance!Adjusted(q) = Kept(base, x)
  <2>1. /\ num = Chance!Multiplier(q.applications, q.responses).num
        /\ den = Chance!Multiplier(q.applications, q.responses).den
    BY <1>1, <1>2, SMT DEF MultiplierOf
  <2>2. QED
    BY <1>4, <1>5, <2>1, ChanceKept
<1>7. base <= base /\ x <= x
  OBVIOUS
<1>8. QED
  BY <1>4, <1>5, <1>6, <1>7, KeptGrows

\* What is answered follows the application and the history.
LEMMA ChanceTells ==
    ASSUME answered =>
             \E q \in Chance!Questions :
               /\ question = q
               /\ answer = [chance |-> Chance!Adjusted(q),
                            class |-> Chance!Classification(Chance!Adjusted(q))]
    PROVE  Chance!ChanceFollowsHistory
<1>0. ~answered => Chance!ChanceFollowsHistory
  BY SMT DEF Chance!ChanceFollowsHistory
<1> SUFFICES ASSUME answered PROVE Chance!ChanceFollowsHistory
  BY <1>0
<1>1. PICK q \in Chance!Questions :
        /\ question = q
        /\ answer = [chance |-> Chance!Adjusted(q),
                     class |-> Chance!Classification(Chance!Adjusted(q))]
  OBVIOUS
<1>2. q = [company |-> q.company, level |-> q.level, overlap |-> q.overlap, age |-> q.age,
          applications |-> q.applications, responses |-> q.responses]
  BY DEF Chance!Questions
<1>3. ChanceAsked(q)
  <2>1. /\ q.company \in CompanyHistories /\ q.level \in Levels /\ q.overlap \in Overlaps
        /\ q.age \in Ages /\ q.applications \in Submissions /\ q.responses \in Responses
    BY DEF Chance!Questions
  <2>2. q.company \in Nat \X Nat
    BY <2>1, ChanceAssumption
  <2>3. \A S \in {Levels, Overlaps, Ages, Submissions, Responses} : \A x \in S : x \in Nat
    BY ChanceAssumption
  <2>4. QED
    BY <2>1, <2>2, <2>3 DEF ChanceAsked
<1>4. /\ q.level \in Nat /\ q.overlap \in Nat /\ q.age \in Nat
      /\ q.applications \in Nat /\ q.responses \in Nat
  BY <1>3 DEF ChanceAsked
<1>5. Chance!Adjusted(q) <= Chance!Adjusted([q EXCEPT !.level = @ + 1])
  <2>1. PICK r : r = [q EXCEPT !.level = @ + 1]
    OBVIOUS
  <2>2. /\ r.company = q.company /\ r.level = q.level + 1 /\ r.overlap = q.overlap /\ r.age = q.age
        /\ r.applications = q.applications /\ r.responses = q.responses
    BY <1>2, <2>1
  <2>3. ChanceAsked(r) /\ q.level <= r.level /\ q.overlap <= r.overlap /\ r.age <= q.age
    BY <1>3, <1>4, <2>2 DEF ChanceAsked
  <2>4. QED
    BY <1>3, <2>1, <2>2, <2>3, ChanceOfBetter
<1>6. Chance!Adjusted(q) <= Chance!Adjusted([q EXCEPT !.overlap = @ + 1])
  <2>1. PICK r : r = [q EXCEPT !.overlap = @ + 1]
    OBVIOUS
  <2>2. /\ r.company = q.company /\ r.level = q.level /\ r.overlap = q.overlap + 1 /\ r.age = q.age
        /\ r.applications = q.applications /\ r.responses = q.responses
    BY <1>2, <2>1
  <2>3. ChanceAsked(r) /\ q.level <= r.level /\ q.overlap <= r.overlap /\ r.age <= q.age
    BY <1>3, <1>4, <2>2 DEF ChanceAsked
  <2>4. QED
    BY <1>3, <2>1, <2>2, <2>3, ChanceOfBetter
<1>7. ASSUME q.age > 0 PROVE Chance!Adjusted(q) <= Chance!Adjusted([q EXCEPT !.age = @ - 1])
  <2>1. PICK r : r = [q EXCEPT !.age = @ - 1]
    OBVIOUS
  <2>2. /\ r.company = q.company /\ r.level = q.level /\ r.overlap = q.overlap /\ r.age = q.age - 1
        /\ r.applications = q.applications /\ r.responses = q.responses
    BY <1>2, <2>1
  <2>3. ChanceAsked(r) /\ q.level <= r.level /\ q.overlap <= r.overlap /\ r.age <= q.age
    BY <1>3, <1>4, <1>7, <2>2 DEF ChanceAsked
  <2>4. QED
    BY <1>3, <2>1, <2>2, <2>3, ChanceOfBetter
<1>8. Chance!Adjusted(q) <= Chance!Adjusted([q EXCEPT !.responses = @ + 1])
  <2>1. PICK r : r = [q EXCEPT !.responses = @ + 1]
    OBVIOUS
  <2>2. /\ r.company = q.company /\ r.level = q.level /\ r.overlap = q.overlap /\ r.age = q.age
        /\ r.applications = q.applications /\ r.responses = q.responses + 1
    BY <1>2, <2>1
  <2>3. ChanceAsked(r)
    BY <1>3, <1>4, <2>2 DEF ChanceAsked
  <2>4. PICK n \in Nat, s \in Nat : n = q.applications /\ s = q.responses
    BY <1>4
  <2>5. PICK num \in Nat, den \in Nat \ {0} : MultiplierOf(n, s, num, den)
    BY ChanceMultiplier
  <2>6. s + 1 \in Nat
    OBVIOUS
  <2>7. PICK num2 \in Nat, den2 \in Nat \ {0} : MultiplierOf(n, s + 1, num2, den2)
    BY <2>6, ChanceMultiplier
  <2>8. num <= num2 /\ den2 <= den
    BY <2>5, <2>7, SMT DEF MultiplierOf
  <2>9. /\ num = Chance!Multiplier(q.applications, q.responses).num
        /\ den = Chance!Multiplier(q.applications, q.responses).den
        /\ num2 = Chance!Multiplier(r.applications, r.responses).num
        /\ den2 = Chance!Multiplier(r.applications, r.responses).den
    BY ONLY <2>2, <2>4, <2>5, <2>7, SMT DEF MultiplierOf
  <2>10. Chance!Adjusted(q) <= Chance!Adjusted(r)
    BY <1>3, <2>2, <2>3, <2>8, <2>9, ChanceOfHistory
  <2>11. QED
    BY <2>1, <2>10
<1>9. ASSUME q.applications >= 10
      PROVE  Chance!Adjusted([q EXCEPT !.applications = @ + 1]) <= Chance!Adjusted(q)
  <2>1. PICK r : r = [q EXCEPT !.applications = @ + 1]
    OBVIOUS
  <2>2. /\ r.company = q.company /\ r.level = q.level /\ r.overlap = q.overlap /\ r.age = q.age
        /\ r.applications = q.applications + 1 /\ r.responses = q.responses
    BY <1>2, <2>1
  <2>3. ChanceAsked(r)
    BY <1>3, <1>4, <2>2 DEF ChanceAsked
  <2>4. PICK num \in Nat, den \in Nat \ {0}, num2 \in Nat, den2 \in Nat \ {0} :
          /\ num = Chance!Multiplier(r.applications, r.responses).num
          /\ den = Chance!Multiplier(r.applications, r.responses).den
          /\ num2 = Chance!Multiplier(q.applications, q.responses).num
          /\ den2 = Chance!Multiplier(q.applications, q.responses).den
          /\ num <= num2 /\ den2 <= den
    <3>1. PICK n \in Nat, s \in Nat : n = q.applications /\ s = q.responses /\ n >= 10
      BY <1>4, <1>9
    <3>2. PICK num, den, num2, den2 : NoBetter(n, s, num, den, num2, den2)
      BY <3>1, ChanceOfOneMore
    <3>3. QED
      BY <2>2, <3>1, <3>2 DEF NoBetter
  <2>5. Chance!Adjusted(r) <= Chance!Adjusted(q)
    BY <1>3, <2>2, <2>3, <2>4, ChanceOfHistory
  <2>6. QED
    BY <2>1, <2>5
<1>10. 100 * q.responses < 15 * q.applications => Chance!Adjusted(q) <= Chance!Probability(q)
  BY <1>3, ChanceOfFewer
<1>11. answer.chance = Chance!Adjusted(q) /\ Chance!Partial = 10 /\ Chance!DefaultRate = 15
  BY <1>1 DEF Chance!Partial, Chance!DefaultRate
<1>12. QED
  BY <1>1, <1>5, <1>6, <1>7, <1>8, <1>9, <1>10, <1>11 DEF Chance!ChanceFollowsHistory

-----------------------------------------------------------------------------
\* The choice between offers: decision_framework.py.

\* The criteria are finitely many.
LEMMA DecisionCriteria == IsFiniteSet(Decision!Criteria)
<1>1. IsFiniteSet({"compensation"})
  BY FS_Singleton
<1>2. IsFiniteSet({"compensation"} \cup {"growth"})
  BY <1>1, FS_AddElement
<1>3. IsFiniteSet(({"compensation"} \cup {"growth"}) \cup {"location"})
  BY <1>2, FS_AddElement
<1>4. IsFiniteSet((({"compensation"} \cup {"growth"}) \cup {"location"}) \cup {"other"})
  BY <1>3, FS_AddElement
<1>5. Decision!Criteria = (({"compensation"} \cup {"growth"}) \cup {"location"}) \cup {"other"}
  BY DEF Decision!Criteria
<1>6. QED
  BY <1>4, <1>5

LEMMA DecisionTotal ==
    ASSUME NEW f, DOMAIN f = Decision!Criteria PROVE Decision!Total(f) = Total(f, Decision!Criteria)
<1>1. Decision!FoldFunction(+, 0, f) = Total(f, DOMAIN f)
  BY DEF Decision!FoldFunction, Decision!FoldFunctionOnSet, Decision!MapThenFoldSet, Total, Adding, Pick
<1>2. QED
  BY <1>1 DEF Decision!Total

\* Scores and weights are numbers.
ByCriteria(f) == \A c \in Decision!Criteria : f[c] \in Nat

\* The total of an offer by one criterion and by the others, before and after
\* that criterion is given more weight.
LEMMA DecisionPerturbed ==
    ASSUME NEW s, ByCriteria(s), NEW w, ByCriteria(w), DOMAIN w = Decision!Criteria,
           NEW c \in Decision!Criteria, NEW o \in Nat, o = Decision!Others(w, c), o >= 2
    PROVE  \E r \in Nat :
             /\ Decision!Weighted(s, w) = s[c] * w[c] + r
             /\ Decision!Weighted(s, Decision!Perturbed(w, c)) = s[c] * ((w[c] + 2) * o) + (o - 2) * r
<1>1. PICK C, R : C = Decision!Criteria /\ R = C \ {c}
  OBVIOUS
<1>2. IsFiniteSet(C) /\ IsFiniteSet(R) /\ R \subseteq C
  BY <1>1, DecisionCriteria, FS_Subset
<1>3. PICK f : f = [d \in C |-> s[d] * w[d]]
  OBVIOUS
<1>4. PICK v : v = Decision!Perturbed(w, c)
  OBVIOUS
<1>5. v[c] = (w[c] + 2) * o /\ \A d \in R : v[d] = w[d] * (o - 2)
  <2>1. o # 0
    OBVIOUS
  <2>2. v = [d \in C |-> IF d = c THEN (w[d] + 2) * o ELSE w[d] * (o - 2)]
    BY <1>1, <1>4, <2>1 DEF Decision!Perturbed, Decision!Delta
  <2>3. QED
    BY <1>1, <2>2
<1>6. PICK g : g = [d \in C |-> s[d] * v[d]]
  OBVIOUS
<1>7. \A d \in C : s[d] \in Nat /\ w[d] \in Nat
  BY <1>1 DEF ByCriteria
<1>8. \A d \in C : f[d] \in Nat
  BY <1>3, <1>7
<1>9. PICK m \in Nat : m = o - 2
  OBVIOUS
<1>10. \A d \in R : f[d] \in Nat /\ g[d] = m * f[d]
  <2> SUFFICES ASSUME NEW d \in R PROVE f[d] \in Nat /\ g[d] = m * f[d]
    OBVIOUS
  <2>1. PICK x \in Nat, y \in Nat : x = s[d] /\ y = w[d]
    BY <1>2, <1>7
  <2>2. f[d] = x * y /\ g[d] = x * (y * m)
    BY <1>2, <1>3, <1>5, <1>6, <1>9, <2>1
  <2>3. x * (y * m) = m * (x * y) /\ x * y \in Nat
    OBVIOUS
  <2>4. QED
    BY <2>2, <2>3
<1>11. g[c] = s[c] * ((w[c] + 2) * o) /\ f[c] = s[c] * w[c]
  BY <1>1, <1>3, <1>5, <1>6
<1>12. \A d \in C : g[d] \in Nat
  <2>1. PICK x \in Nat, y \in Nat : x = s[c] /\ y = w[c]
    BY <1>1, <1>7
  <2>2. x * ((y + 2) * o) \in Nat
    OBVIOUS
  <2>3. g[c] \in Nat
    BY <1>11, <2>1, <2>2
  <2>4. \A d \in R : g[d] \in Nat
    BY <1>10
  <2>5. QED
    BY <1>1, <2>3, <2>4
<1>13. PICK r \in Nat : r = Total(f, R)
  BY <1>2, <1>10, TotalType
<1>14. Total(g, R) = m * r
  BY <1>2, <1>10, <1>13, TotalTimes
<1>15. Total(f, C) = f[c] + r
  <2>1. c \in C /\ R = C \ {c}
    BY <1>1
  <2>2. Total(f, C) = f[c] + Total(f, C \ {c})
    BY <1>2, <1>8, <2>1, TotalOne
  <2>3. QED
    BY <1>13, <2>1, <2>2
<1>16. Total(g, C) = g[c] + m * r
  BY <1>1, <1>2, <1>12, <1>14, TotalOne
<1>17. Decision!Weighted(s, w) = Total(f, C)
  <2>1. DOMAIN f = Decision!Criteria /\ f = [d \in Decision!Criteria |-> s[d] * w[d]]
    BY <1>1, <1>3
  <2>2. QED
    BY <1>1, <2>1, DecisionTotal DEF Decision!Weighted
<1>18. Decision!Weighted(s, v) = Total(g, C)
  <2>1. DOMAIN g = Decision!Criteria /\ g = [d \in Decision!Criteria |-> s[d] * v[d]]
    BY <1>1, <1>6
  <2>2. QED
    BY <1>1, <2>1, DecisionTotal DEF Decision!Weighted
<1>19. QED
  BY <1>4, <1>9, <1>11, <1>13, <1>15, <1>16, <1>17, <1>18

\* Who is no better by the criterion stays behind.
LEMMA DecisionBehind ==
    ASSUME NEW s \in Nat, NEW t \in Nat, s <= t, NEW w \in Nat, NEW o \in Nat, o >= 2,
           NEW p \in Nat, NEW r \in Nat, s * w + p <= t * w + r
    PROVE  s * ((w + 2) * o) + (o - 2) * p <= t * ((w + 2) * o) + (o - 2) * r
<1>1. PICK m \in Nat : m = o - 2
  OBVIOUS
<1>2. PICK x \in Nat, y \in Nat : x = s * w + p /\ y = t * w + r /\ x <= y
  OBVIOUS
<1>3. m * x <= m * y
  BY <1>2
<1>4. PICK k \in Nat : k = 2 * o + 2 * w
  OBVIOUS
<1>5. s * k <= t * k
  OBVIOUS
<1>6. s * ((w + 2) * o) + (o - 2) * p = m * x + s * k
  <2>1. o = m + 2
    BY <1>1
  <2>2. s * ((w + 2) * (m + 2)) + m * p = m * (s * w + p) + s * (2 * (m + 2) + 2 * w)
    OBVIOUS
  <2>3. QED
    BY <1>1, <1>2, <1>4, <2>1, <2>2
<1>7. t * ((w + 2) * o) + (o - 2) * r = m * y + t * k
  <2>1. o = m + 2
    BY <1>1
  <2>2. t * ((w + 2) * (m + 2)) + m * r = m * (t * w + r) + t * (2 * (m + 2) + 2 * w)
    OBVIOUS
  <2>3. QED
    BY <1>1, <1>2, <1>4, <2>1, <2>2
<1>8. m * x \in Nat /\ m * y \in Nat /\ s * k \in Nat /\ t * k \in Nat
  BY <1>2
<1>9. QED
  BY <1>3, <1>5, <1>6, <1>7, <1>8

\* Who is behind by the totals is behind by some criterion that counts.
LEMMA DecisionAhead ==
    ASSUME NEW s, ByCriteria(s), NEW t, ByCriteria(t), NEW w, ByCriteria(w),
           Decision!Weighted(t, w) <= Decision!Weighted(s, w),
           NEW c \in Decision!Criteria, w[c] > 0, t[c] > s[c]
    PROVE  \E d \in Decision!Criteria : w[d] > 0 /\ s[d] > t[d]
<1> SUFFICES ASSUME \A d \in Decision!Criteria : w[d] > 0 => s[d] <= t[d] PROVE FALSE
  BY DEF ByCriteria
<1>1. PICK C, R : C = Decision!Criteria /\ R = C \ {c}
  OBVIOUS
<1>2. IsFiniteSet(C) /\ IsFiniteSet(R) /\ R \subseteq C /\ R \in SUBSET R
  BY <1>1, DecisionCriteria, FS_Subset
<1>3. PICK f, g : f = [d \in C |-> s[d] * w[d]] /\ g = [d \in C |-> t[d] * w[d]]
  OBVIOUS
<1>4. \A d \in C : f[d] \in Nat /\ g[d] \in Nat /\ f[d] <= g[d]
  <2> SUFFICES ASSUME NEW d \in C PROVE f[d] \in Nat /\ g[d] \in Nat /\ f[d] <= g[d]
    OBVIOUS
  <2>1. PICK x \in Nat, y \in Nat, z \in Nat : x = s[d] /\ y = t[d] /\ z = w[d] /\ (z > 0 => x <= y)
    BY <1>1 DEF ByCriteria
  <2>2. x * z \in Nat /\ y * z \in Nat /\ x * z <= y * z
    <3>1. CASE z > 0
      BY <2>1, <3>1
    <3>2. CASE z = 0
      BY <3>2
    <3>3. QED
      BY <3>1, <3>2
  <2>3. QED
    BY <1>3, <2>1, <2>2
<1>5. f[c] < g[c]
  <2>1. PICK x \in Nat, y \in Nat, z \in Nat : x = s[c] /\ y = t[c] /\ z = w[c] /\ x < y /\ z > 0
    BY DEF ByCriteria
  <2>2. x * z < y * z
    <3>1. (x + 1) * z <= y * z /\ (x + 1) * z = x * z + z
      BY <2>1
    <3>2. x * z \in Nat /\ y * z \in Nat
      OBVIOUS
    <3>3. QED
      BY <2>1, <3>1, <3>2
  <2>3. QED
    BY <1>1, <1>3, <2>1, <2>2
<1>6. \A d \in R : f[d] \in Nat /\ g[d] \in Nat /\ f[d] <= g[d]
  BY <1>2, <1>4
<1>7. Total(f, R) <= Total(g, R)
  BY <1>2, <1>6, TotalLess
<1>8. Total(f, R) \in Nat /\ Total(g, R) \in Nat
  BY <1>2, <1>6, TotalType
<1>9. c \in C /\ (\A d \in C : f[d] \in Nat) /\ (\A d \in C : g[d] \in Nat)
  BY <1>1, <1>4
<1>10. Total(f, C) = f[c] + Total(f, R)
  BY <1>1, <1>2, <1>9, TotalOne
<1>11. Total(g, C) = g[c] + Total(g, R)
  BY <1>1, <1>2, <1>9, TotalOne
<1>12. Decision!Weighted(s, w) = Total(f, C)
  <2>1. DOMAIN f = Decision!Criteria /\ f = [d \in Decision!Criteria |-> s[d] * w[d]]
    BY <1>1, <1>3
  <2>2. QED
    BY <1>1, <2>1, DecisionTotal DEF Decision!Weighted
<1>13. Decision!Weighted(t, w) = Total(g, C)
  <2>1. DOMAIN g = Decision!Criteria /\ g = [d \in Decision!Criteria |-> t[d] * w[d]]
    BY <1>1, <1>3
  <2>2. QED
    BY <1>1, <2>1, DecisionTotal DEF Decision!Weighted
<1>14. QED
  BY <1>5, <1>7, <1>8, <1>9, <1>10, <1>11, <1>12, <1>13

\* The two or three offers that are compared, by their number.
Compared(D) == D = 1..2 \/ D = 1..3

\* Of two or three totals one is the largest, and the first such one leads.
LEMMA DecisionLeader ==
    ASSUME NEW t, Compared(DOMAIN t), \A i \in DOMAIN t : t[i] \in Nat
    PROVE  /\ Decision!Min(Decision!Best(t)) \in Decision!Best(t)
           /\ Decision!Best(t) \subseteq DOMAIN t
<1>1. PICK D : D = DOMAIN t /\ Compared(D)
  OBVIOUS
<1>2. PICK B : B = Decision!Best(t)
  OBVIOUS
<1>3. B = {i \in D : \A k \in D : t[k] <= t[i]}
  BY <1>1, <1>2 DEF Decision!Best
<1>4. \E i \in D : \A k \in D : t[k] <= t[i]
  <2>1. CASE D = 1..2
    <3>1. PICK a \in Nat, b \in Nat : a = t[1] /\ b = t[2]
      BY <1>1, <2>1
    <3>2. \A k \in D : t[k] = a \/ t[k] = b
      BY <2>1, <3>1
    <3>3. CASE a <= b
      <4>1. 2 \in D /\ t[2] = b /\ b <= b
        BY <2>1, <3>1
      <4>2. \A k \in D : t[k] <= t[2]
        BY <3>2, <3>3, <4>1
      <4>3. QED
        BY <4>1, <4>2
    <3>4. CASE ~(a <= b)
      <4>1. 1 \in D /\ t[1] = a /\ a <= a /\ b <= a
        BY <2>1, <3>1, <3>4
      <4>2. \A k \in D : t[k] <= t[1]
        BY <3>2, <4>1
      <4>3. QED
        BY <4>1, <4>2
    <3>5. QED
      BY <3>3, <3>4
  <2>2. CASE D = 1..3
    <3>1. PICK a \in Nat, b \in Nat, c \in Nat : a = t[1] /\ b = t[2] /\ c = t[3]
      BY <1>1, <2>2
    <3>2. \A k \in D : t[k] = a \/ t[k] = b \/ t[k] = c
      BY <2>2, <3>1
    <3>3. \E m \in {a, b, c} : a <= m /\ b <= m /\ c <= m
      OBVIOUS
    <3>4. PICK m \in {a, b, c} : a <= m /\ b <= m /\ c <= m
      BY <3>3
    <3>5. PICK i \in D : t[i] = m
      BY <2>2, <3>1
    <3>6. \A k \in D : t[k] <= t[i]
      BY <3>2, <3>4, <3>5
    <3>7. QED
      BY <3>6
  <2>3. QED
    BY <1>1, <2>1, <2>2 DEF Compared
<1>5. B # {} /\ B \subseteq D
  BY <1>3, <1>4
<1>6. D \subseteq Nat
  BY <1>1 DEF Compared
<1>7. PICK m \in B : \A n \in B : m <= n
  BY <1>5, <1>6, MinNat
<1>8. Decision!Min(B) \in B
  BY <1>7 DEF Decision!Min
<1>9. QED
  BY <1>1, <1>2, <1>5, <1>8

\* The scores of the offers that are compared are numbers.
LEMMA DecisionScores ==
    ASSUME NEW q \in Decision!Questions
    PROVE  /\ DOMAIN Decision!Scores(q.offers) = DOMAIN q.offers /\ Compared(DOMAIN q.offers)
           /\ \A i \in DOMAIN q.offers : ByCriteria(Decision!Scores(q.offers)[i])
           /\ DOMAIN q.weights = Decision!Criteria /\ ByCriteria(q.weights)
<1>1. /\ Compared(DOMAIN q.offers)
      /\ \A i \in DOMAIN q.offers : q.offers[i].pay \in Pays
      /\ q.weights \in [Decision!Criteria -> Weights]
  <2>1. /\ q.offers \in [1..2 -> Decision!Offer]
               \cup [1..3 -> [pay : Pays, equity : BOOLEAN, market : {TRUE}]]
        /\ q.weights \in [Decision!Criteria -> Weights]
    BY DEF Decision!Questions
  <2>2. CASE q.offers \in [1..2 -> Decision!Offer]
    <3>1. DOMAIN q.offers = 1..2 /\ \A i \in 1..2 : q.offers[i] \in Decision!Offer
      BY <2>2
    <3>2. \A i \in 1..2 : q.offers[i].pay \in Pays
      BY <3>1 DEF Decision!Offer
    <3>3. QED
      BY <2>1, <3>1, <3>2 DEF Compared
  <2>3. CASE q.offers \in [1..3 -> [pay : Pays, equity : BOOLEAN, market : {TRUE}]]
    <3>1. /\ DOMAIN q.offers = 1..3
          /\ \A i \in 1..3 : q.offers[i] \in [pay : Pays, equity : BOOLEAN, market : {TRUE}]
      BY <2>3
    <3>2. \A i \in 1..3 : q.offers[i].pay \in Pays
      BY <3>1
    <3>3. QED
      BY <2>1, <3>1, <3>2 DEF Compared
  <2>4. QED
    BY <2>1, <2>2, <2>3
<1>2. PICK o, D : o = q.offers /\ D = DOMAIN o
  OBVIOUS
<1>3. \A i \in D : o[i].pay \in Nat
  BY <1>1, <1>2, DecisionAssumption
<1>4. PICK pays : pays = {o[k].pay : k \in D}
  OBVIOUS
<1>5. pays \subseteq Nat /\ pays # {}
  <2>1. 1 \in D
    BY <1>1, <1>2 DEF Compared
  <2>2. QED
    BY <1>3, <1>4, <2>1
<1>6. PICK low \in Nat : low = Decision!Min(pays) /\ \A x \in pays : low <= x
  <2>1. PICK m \in pays : \A n \in pays : m <= n
    BY <1>5, MinNat
  <2>2. Decision!Min(pays) \in pays /\ \A x \in pays : Decision!Min(pays) <= x
    BY <2>1 DEF Decision!Min
  <2>3. QED
    BY <1>5, <2>2
<1>7. Decision!Max(pays) \in pays
  <2>1. PICK t : t = [i \in D |-> o[i].pay]
    OBVIOUS
  <2>2. Compared(DOMAIN t) /\ \A i \in DOMAIN t : t[i] \in Nat
    BY <1>1, <1>2, <1>3, <2>1
  <2>3. PICK i : i \in Decision!Best(t)
    BY <2>2, DecisionLeader
  <2>4. i \in D /\ \A k \in D : t[k] <= t[i]
    BY <2>1, <2>3 DEF Decision!Best
  <2>5. t[i] \in pays /\ \A x \in pays : t[i] >= x
    <3>1. \A k \in D : o[k].pay <= t[i]
      BY <2>1, <2>4
    <3>2. \A k \in D : t[i] >= o[k].pay
      BY <1>3, <2>1, <2>4, <3>1
    <3>3. QED
      BY <1>4, <2>1, <2>4, <3>2
  <2>6. QED
    BY <2>5 DEF Decision!Max
<1>8. PICK span \in Nat \ {0} :
        span = IF Decision!Max(pays) > Decision!Min(pays) THEN Decision!Max(pays) - Decision!Min(pays) ELSE 1
  <2>1. PICK x \in Nat : x = Decision!Max(pays)
    BY <1>5, <1>7
  <2>2. QED
    BY <1>6, <2>1
<1>9. Decision!Scores(o) = [i \in D |->
         [compensation |-> ((o[i].pay - low) * 10) \div span,
          growth       |-> IF o[i].equity THEN 7 ELSE 5,
          location     |-> IF o[i].market THEN 6 ELSE 5,
          other        |-> 5]]
  BY <1>2, <1>4, <1>6, <1>8 DEF Decision!Scores
<1>10. ASSUME NEW i \in D PROVE ByCriteria(Decision!Scores(o)[i])
  <2>1. PICK x \in Nat : x = o[i].pay - low
    <3>1. o[i].pay \in Nat /\ o[i].pay \in pays
      BY <1>3, <1>4
    <3>2. low <= o[i].pay
      BY <1>6, <3>1
    <3>3. QED
      BY <3>1, <3>2
  <2>2. (x * 10) \div span \in Nat
    BY Quotient
  <2>3. PICK s : s = Decision!Scores(o)[i]
    OBVIOUS
  <2>4. s = [compensation |-> (x * 10) \div span,
             growth       |-> IF o[i].equity THEN 7 ELSE 5,
             location     |-> IF o[i].market THEN 6 ELSE 5,
             other        |-> 5]
    BY <1>9, <2>1, <2>3
  <2>5. /\ s["compensation"] \in Nat /\ s["growth"] \in Nat /\ s["location"] \in Nat
        /\ s["other"] \in Nat
    BY <2>2, <2>4
  <2>6. QED
    BY <2>3, <2>5 DEF ByCriteria, Decision!Criteria
<1>11. DOMAIN Decision!Scores(o) = D
  BY <1>9
<1>12. DOMAIN q.weights = Decision!Criteria /\ ByCriteria(q.weights)
  <2>1. \A c \in Decision!Criteria : q.weights[c] \in Weights
    BY <1>1
  <2>2. QED
    BY <1>1, <2>1, DecisionAssumption DEF ByCriteria
<1>13. QED
  BY <1>1, <1>2, <1>10, <1>11, <1>12

\* What is answered is beaten by none, and overtaken only by who is better.
LEMMA DecisionTells ==
    ASSUME answered =>
             \E q \in Decision!Questions :
               LET scores == Decision!Scores(q.offers)
               IN  /\ question = q
                   /\ answer = [leader |-> Decision!Leader(scores, q.weights),
                                overtakers |-> [c \in Decision!Criteria |->
                                                  Decision!Overtakers(scores, q.weights, c)]]
    PROVE  Decision!StrongerOfferLeads
<1>0. ~answered => Decision!StrongerOfferLeads
  BY SMT DEF Decision!StrongerOfferLeads
<1> SUFFICES ASSUME answered PROVE Decision!StrongerOfferLeads
  BY <1>0
<1>1. PICK q \in Decision!Questions :
        /\ question = q
        /\ answer = [leader |-> Decision!Leader(Decision!Scores(q.offers), q.weights),
                     overtakers |-> [c \in Decision!Criteria |->
                       Decision!Overtakers(Decision!Scores(q.offers), q.weights, c)]]
  OBVIOUS
<1>2. PICK S, w, D : S = Decision!Scores(q.offers) /\ w = q.weights /\ D = DOMAIN q.offers
  OBVIOUS
<1>3. /\ DOMAIN S = D /\ Compared(D) /\ \A i \in D : ByCriteria(S[i])
      /\ DOMAIN w = Decision!Criteria /\ ByCriteria(w)
  BY <1>2, DecisionScores
<1>4. ASSUME NEW v, ByCriteria(v), DOMAIN v = Decision!Criteria
      PROVE  /\ DOMAIN Decision!Totals(S, v) = D
             /\ \A i \in D : /\ Decision!Totals(S, v)[i] = Decision!Weighted(S[i], v)
                              /\ Decision!Weighted(S[i], v) \in Nat
  <2>1. Decision!Totals(S, v) = [i \in D |-> Decision!Weighted(S[i], v)]
    BY <1>3 DEF Decision!Totals
  <2>2. ASSUME NEW i \in D PROVE Decision!Weighted(S[i], v) \in Nat
    <3>1. PICK f : f = [d \in Decision!Criteria |-> S[i][d] * v[d]]
      OBVIOUS
    <3>2. \A d \in Decision!Criteria : f[d] \in Nat
      BY <1>3, <1>4, <3>1 DEF ByCriteria
    <3>3. DOMAIN f = Decision!Criteria
      BY <3>1
    <3>4. Decision!Weighted(S[i], v) = Total(f, Decision!Criteria)
      BY <3>1, <3>3, DecisionTotal DEF Decision!Weighted
    <3>5. QED
      BY <3>2, <3>4, TotalType, DecisionCriteria
  <2>3. QED
    BY <2>1, <2>2
<1>5. PICK l : l = Decision!Leader(S, w)
  OBVIOUS
<1>6. l \in D /\ \A k \in D : Decision!Weighted(S[k], w) <= Decision!Weighted(S[l], w)
  <2>1. PICK t : t = Decision!Totals(S, w)
    OBVIOUS
  <2>2. Compared(DOMAIN t) /\ \A i \in DOMAIN t : t[i] \in Nat
    BY <1>3, <1>4, <2>1
  <2>3. l \in Decision!Best(t)
    BY <1>5, <2>1, <2>2, DecisionLeader DEF Decision!Leader
  <2>4. l \in DOMAIN t /\ \A k \in DOMAIN t : t[k] <= t[l]
    BY <2>3 DEF Decision!Best
  <2>5. QED
    BY <1>3, <1>4, <2>1, <2>4
<1>7. ASSUME NEW i \in D, NEW c \in Decision!Criteria, w[c] > 0, S[i][c] > S[l][c]
      PROVE  \E d \in Decision!Criteria : w[d] > 0 /\ S[l][d] > S[i][d]
  BY <1>3, <1>6, <1>7, DecisionAhead
<1>8. ASSUME NEW c \in Decision!Criteria, Decision!Others(w, c) >= 2,
             NEW i \in Decision!Overtakers(S, w, c)
      PROVE  S[i][c] > S[l][c]
  <2>1. PICK o \in Nat : o = Decision!Others(w, c) /\ o >= 2
    <3>1. Decision!Others(w, c) \in Int
      <4>1. Decision!Total(w) \in Nat /\ w[c] \in Nat
        BY <1>3, DecisionTotal, TotalType, DecisionCriteria DEF ByCriteria
      <4>2. QED
        BY <4>1 DEF Decision!Others
    <3>2. QED
      BY <1>8, <3>1
  <2>2. PICK v : v = Decision!Perturbed(w, c)
    OBVIOUS
  <2>3. ByCriteria(v) /\ DOMAIN v = Decision!Criteria
    <3>1. v = [d \in Decision!Criteria |-> IF d = c THEN (w[d] + 2) * o ELSE w[d] * (o - 2)]
      <4>1. o # 0
        BY <2>1
      <4>2. QED
        BY <2>1, <2>2, <4>1 DEF Decision!Perturbed, Decision!Delta
    <3>2. ASSUME NEW d \in Decision!Criteria PROVE v[d] \in Nat
      <4>1. PICK x \in Nat, m \in Nat : x = w[d] /\ m = o - 2
        BY <1>3, <2>1 DEF ByCriteria
      <4>2. (x + 2) * o \in Nat /\ x * m \in Nat
        OBVIOUS
      <4>3. QED
        BY <3>1, <4>1, <4>2
    <3>3. QED
      BY <3>1, <3>2 DEF ByCriteria
  <2>4. PICK t : t = Decision!Totals(S, v)
    OBVIOUS
  <2>5. i \in Decision!Best(t) /\ l \notin Decision!Best(t)
    BY <1>5, <1>8, <2>2, <2>4 DEF Decision!Overtakers
  <2>6. DOMAIN t = D /\ \A k \in D : t[k] = Decision!Weighted(S[k], v) /\ t[k] \in Nat
    BY <1>4, <2>3, <2>4
  <2>7. i \in D /\ \A k \in D : t[k] <= t[i]
    BY <2>5, <2>6 DEF Decision!Best
  <2>8. PICK k \in D : ~(t[k] <= t[l])
    BY <1>6, <2>5, <2>6 DEF Decision!Best
  <2>9. t[l] < t[i]
    BY <1>6, <2>6, <2>7, <2>8
  <2>10. PICK p \in Nat :
           /\ Decision!Weighted(S[i], w) = S[i][c] * w[c] + p
           /\ Decision!Weighted(S[i], Decision!Perturbed(w, c)) = S[i][c] * ((w[c] + 2) * o) + (o - 2) * p
    BY <1>3, <2>1, <2>7, DecisionPerturbed
  <2>11. PICK r \in Nat :
           /\ Decision!Weighted(S[l], w) = S[l][c] * w[c] + r
           /\ Decision!Weighted(S[l], Decision!Perturbed(w, c)) = S[l][c] * ((w[c] + 2) * o) + (o - 2) * r
    BY <1>3, <1>6, <2>1, DecisionPerturbed
  <2>12. PICK x \in Nat, y \in Nat, z \in Nat : x = S[i][c] /\ y = S[l][c] /\ z = w[c]
    BY <1>3, <1>6, <2>7 DEF ByCriteria
  <2>13. x * z + p <= y * z + r
    BY <1>6, <2>7, <2>10, <2>11, <2>12
  <2>14. t[i] = x * ((z + 2) * o) + (o - 2) * p /\ t[l] = y * ((z + 2) * o) + (o - 2) * r
    BY <1>6, <2>2, <2>6, <2>7, <2>10, <2>11, <2>12
  <2>15. ~(x <= y)
    <3> SUFFICES ASSUME x <= y PROVE FALSE
      OBVIOUS
    <3>1. x * ((z + 2) * o) + (o - 2) * p <= y * ((z + 2) * o) + (o - 2) * r
      BY <2>1, <2>13, DecisionBehind
    <3>2. t[i] <= t[l]
      BY <2>14, <3>1
    <3>3. t[i] \in Nat /\ t[l] \in Nat
      BY <1>6, <2>6, <2>7
    <3>4. QED
      BY <2>9, <3>2, <3>3
  <2>16. QED
    BY <2>12, <2>15
<1>9. /\ question.weights = w /\ DOMAIN question.offers = D /\ answer.leader = l
      /\ \A c \in Decision!Criteria : answer.overtakers[c] = Decision!Overtakers(S, w, c)
  BY <1>1, <1>2, <1>5
<1>10. \A i, k, c : Decision!Better(i, k, c) <=> S[i][c] > S[k][c]
  BY <1>1, <1>2 DEF Decision!Better
<1>11. Decision!Delta = 2
  BY DEF Decision!Delta
<1>12. \A i \in D : (\E c \in {c \in Decision!Criteria : w[c] > 0} : Decision!Better(i, l, c)) =>
          \E c \in {c \in Decision!Criteria : w[c] > 0} : Decision!Better(l, i, c)
  BY <1>7, <1>10
<1>13. \A c \in Decision!Criteria : Decision!Others(w, c) >= 2 =>
          \A i \in Decision!Overtakers(S, w, c) : Decision!Better(i, l, c)
  BY <1>8, <1>10
<1>14. QED
  BY <1>9, <1>11, <1>12, <1>13 DEF Decision!StrongerOfferLeads

-----------------------------------------------------------------------------
\* The plan of a day: batch_and_breathe_scheduler.py.

LEMMA WeekMax ==
    ASSUME NEW x \in Int, NEW y \in Int PROVE Week!Max({x, y}) = IF x <= y THEN y ELSE x
<1>1. Week!Max({x, y}) \in {x, y} /\ \A z \in {x, y} : Week!Max({x, y}) >= z
  <2>1. \E m \in {x, y} : \A z \in {x, y} : m >= z
    <3>1. CASE x <= y
      BY <3>1
    <3>2. CASE ~(x <= y)
      BY <3>2
    <3>3. QED
      BY <3>1, <3>2
  <2>2. QED
    BY <2>1 DEF Week!Max
<1>2. QED
  BY <1>1

\* What is asked for.
LEMMA WeekAsked ==
    ASSUME NEW q \in Week!Questions
    PROVE  /\ q.minutes \in Nat /\ q.limit \in Nat /\ Week!Limit(q) \in Nat
           /\ q.burnout => Week!Limit(q) >= 2
<1>1. q.minutes \in Minutes /\ q.limit \in Limits /\ q.burnout \in BOOLEAN
  BY DEF Week!Questions
<1>2. q.minutes \in Nat /\ q.limit \in Nat
  BY <1>1, WeekAssumption
<1>3. PICK k \in Nat : k = q.limit \div 2
  BY <1>2
<1>4. Week!Max({2, k}) = IF 2 <= k THEN k ELSE 2
  BY WeekMax
<1>5. QED
  BY <1>1, <1>2, <1>3, <1>4 DEF Week!Limit

\* The four activities' parts of the minutes, rounded down: they miss the whole
\* by less than four minutes, and in a burnout week one that takes no time tells
\* a short day.
WeekRaws(q, a, n, p, r) ==
    /\ a = Week!Raw(q, "apply") /\ n = Week!Raw(q, "network")
    /\ p = Week!Raw(q, "prep") /\ r = Week!Raw(q, "rest")
    /\ a + n + p + r <= q.minutes /\ q.minutes <= a + n + p + r + 3
    /\ q.burnout => (a = 0 => q.minutes <= 3) /\ (n = 0 => q.minutes <= 6)

LEMMA WeekParts ==
    ASSUME NEW q \in Week!Questions
    PROVE  \E a, n, p, r \in Nat : WeekRaws(q, a, n, p, r)
<1>1. PICK m \in Nat : m = q.minutes
  BY WeekAsked
<1>2. CASE q.burnout
  <2>1. PICK a, n, p, r \in Nat :
          /\ a = (m * 25) \div 100 /\ n = (m * 15) \div 100
          /\ p = (m * 20) \div 100 /\ r = (m * 40) \div 100
    BY SMT
  <2>2. /\ a = Week!Raw(q, "apply") /\ n = Week!Raw(q, "network")
        /\ p = Week!Raw(q, "prep") /\ r = Week!Raw(q, "rest")
    BY <1>1, <1>2, <2>1, SMT DEF Week!Raw, Week!Ratios
  <2>3. /\ 100 * a <= 25 * m /\ 25 * m < 100 * a + 100 /\ 100 * n <= 15 * m /\ 15 * m < 100 * n + 100
        /\ 100 * p <= 20 * m /\ 20 * m < 100 * p + 100 /\ 100 * r <= 40 * m /\ 40 * m < 100 * r + 100
    BY <2>1, SMT
  <2>4. a + n + p + r <= m /\ m <= a + n + p + r + 3
    BY <2>3, SMT
  <2>5. (a = 0 => m <= 3) /\ (n = 0 => m <= 6)
    BY <2>3, SMT
  <2>6. QED
    BY <1>1, <2>2, <2>4, <2>5 DEF WeekRaws
<1>3. CASE ~q.burnout /\ q.season
  <2>1. PICK a, n, p, r \in Nat :
          /\ a = (m * 50) \div 100 /\ n = (m * 10) \div 100
          /\ p = (m * 30) \div 100 /\ r = (m * 10) \div 100
    BY SMT
  <2>2. /\ a = Week!Raw(q, "apply") /\ n = Week!Raw(q, "network")
        /\ p = Week!Raw(q, "prep") /\ r = Week!Raw(q, "rest")
    BY <1>1, <1>3, <2>1, SMT DEF Week!Raw, Week!Ratios
  <2>3. /\ 100 * a <= 50 * m /\ 50 * m < 100 * a + 100 /\ 100 * n <= 10 * m /\ 10 * m < 100 * n + 100
        /\ 100 * p <= 30 * m /\ 30 * m < 100 * p + 100 /\ 100 * r <= 10 * m /\ 10 * m < 100 * r + 100
    BY <2>1, SMT
  <2>4. a + n + p + r <= m /\ m <= a + n + p + r + 3
    BY <2>3, SMT
  <2>5. QED
    BY <1>1, <1>3, <2>2, <2>4 DEF WeekRaws
<1>4. CASE ~q.burnout /\ ~q.season
  <2>1. PICK a, n, p, r \in Nat :
          /\ a = (m * 40) \div 100 /\ n = (m * 20) \div 100
          /\ p = (m * 25) \div 100 /\ r = (m * 15) \div 100
    BY SMT
  <2>2. /\ a = Week!Raw(q, "apply") /\ n = Week!Raw(q, "network")
        /\ p = Week!Raw(q, "prep") /\ r = Week!Raw(q, "rest")
    BY <1>1, <1>4, <2>1, SMT DEF Week!Raw, Week!Ratios
  <2>3. /\ 100 * a <= 40 * m /\ 40 * m < 100 * a + 100 /\ 100 * n <= 20 * m /\ 20 * m < 100 * n + 100
        /\ 100 * p <= 25 * m /\ 25 * m < 100 * p + 100 /\ 100 * r <= 15 * m /\ 15 * m < 100 * r + 100
    BY <2>1, SMT
  <2>4. a + n + p + r <= m /\ m <= a + n + p + r + 3
    BY <2>3, SMT
  <2>5. QED
    BY <1>1, <1>4, <2>2, <2>4 DEF WeekRaws
<1>5. QED
  BY <1>2, <1>3, <1>4

\* The lengths of the six places: no time is negative, and together they are the
\* minutes there are, within the bounds of DayFits.
WeekLengths(q, f) ==
    /\ \A i \in 1..6 : f[i] \in Nat
    /\ f[1] <= Week!Limit(q) * 20
    /\ f[1] + f[2] + f[3] + f[4] + f[5] + f[6] <= q.minutes + Week!Granted(q)
    /\ f[1] + f[2] + f[3] + f[4] + f[5] + f[6] >= q.minutes - 5
    /\ q.minutes >= 10 => f[2] + f[4] + f[6] >= 30

LEMMA WeekLengthsFit == ASSUME NEW q \in Week!Questions PROVE WeekLengths(q, Week!Lengths(q))
<1>1. PICK a, n, p, r \in Nat : WeekRaws(q, a, n, p, r)
  BY WeekParts
<1>2. PICK m \in Nat, c \in Nat : m = q.minutes /\ c = 20 * Week!Limit(q) /\ (q.burnout => c >= 40)
  BY WeekAsked
<1>3. PICK e \in Nat : e = Week!Excess(q) /\ e = IF a <= c THEN 0 ELSE a - c
  <2>1. Week!Limit(q) * 20 = c
    BY <1>2, WeekAsked
  <2>2. Week!Excess(q) = Week!Max({0, a - c})
    BY <1>1, <2>1 DEF Week!Excess, WeekRaws, Week!MinutesPerApplication
  <2>3. QED
    BY <2>2, WeekMax
<1>4. PICK x, y \in Nat : /\ x = (e * 3) \div 5 /\ y = (e * 2) \div 5
                          /\ x + y <= e /\ e <= x + y + 1
  BY SMT
<1>5. PICK g \in Nat : /\ g = Week!Max({30, r}) /\ g >= 30 /\ g >= r /\ (g = 30 \/ g = r)
                       /\ g = r + Week!Granted(q)
  <2>1. Week!Max({30, r}) = IF 30 <= r THEN r ELSE 30
    BY WeekMax
  <2>2. Week!Granted(q) = Week!Max({0, 30 - r})
    BY <1>1 DEF Week!Granted, Week!MinimumRest, WeekRaws
  <2>3. Week!Granted(q) = IF 0 <= 30 - r THEN 30 - r ELSE 0
    BY <2>2, WeekMax
  <2>4. QED
    BY <2>1, <2>3
<1>6. PICK s \in Nat : s = (IF q.burnout THEN Week!Max({15, g \div 3}) ELSE 0) /\ 2 * s <= g
  <2>1. PICK k \in Nat : k = g \div 3 /\ 3 * k <= g
    BY <1>5, SMT
  <2>2. Week!Max({15, k}) = IF 15 <= k THEN k ELSE 15
    BY WeekMax
  <2>3. CASE ~q.burnout
    BY <2>3
  <2>4. CASE q.burnout
    <3>1. PICK s \in Nat : s = (IF 15 <= k THEN k ELSE 15) /\ 2 * s <= g
      BY <1>5, <2>1
    <3>2. s = Week!Max({15, g \div 3})
      BY <2>1, <2>2, <3>1
    <3>3. QED
      BY <2>4, <3>1, <3>2
  <2>5. QED
    BY <2>3, <2>4
<1>7. PICK t : t = Week!Allocations(q)
  OBVIOUS
<1>8. t.apply = a - e /\ t.network = n + x /\ t.prep = p + y /\ t.rest = g
  BY <1>1, <1>3, <1>4, <1>5, <1>7 DEF Week!Allocations, WeekRaws, Week!MinimumRest
<1>9. PICK u \in Nat, v \in Nat, w \in Nat :
        /\ u = a - e /\ v = n + x /\ w = p + y
        /\ u <= c /\ (u = 0 => a = 0 \/ c = 0) /\ (v = 0 => n = 0)
        /\ u + v + w <= a + n + p /\ a + n + p <= u + v + w + 1
  <2>1. a - e \in Nat /\ a - e <= c /\ (a - e = 0 => a = 0 \/ c = 0)
    BY <1>3
  <2>2. QED
    BY <1>4, <2>1
<1>10. PICK h, l \in Nat : /\ h = (IF u > 0 THEN s ELSE 0) /\ l = (IF v > 0 THEN s ELSE 0)
  OBVIOUS
<1>11. PICK f : f = Week!Lengths(q)
  OBVIOUS
<1>12. f = <<u, h, v, l, w, g - 2 * s>>
  <2>1. f = <<t.apply, IF t.apply > 0 THEN s ELSE 0, t.network, IF t.network > 0 THEN s ELSE 0,
              t.prep, t.rest - 2 * s>>
    BY <1>5, <1>6, <1>7, <1>8, <1>11, Zenon DEF Week!Lengths
  <2>2. QED
    BY <1>8, <1>9, <1>10, <2>1
<1>13. f[1] = u /\ f[2] = h /\ f[3] = v /\ f[4] = l /\ f[5] = w /\ f[6] = g - 2 * s
  BY <1>12
<1>14. \A i \in 1..6 : f[i] \in Nat
  BY <1>6, <1>13
<1>15. f[1] <= Week!Limit(q) * 20
  BY <1>2, <1>9, <1>13, WeekAsked
<1>16. a + n + p + r <= m /\ m <= a + n + p + r + 3
       /\ (q.burnout => (a = 0 => m <= 3) /\ (n = 0 => m <= 6))
  BY <1>1, <1>2 DEF WeekRaws
<1>17. PICK o \in Nat : o = u + h + v + l + w + (g - 2 * s)
  BY <1>6
<1>18. o <= m + (g - r)
  BY <1>5, <1>6, <1>9, <1>10, <1>16, <1>17
<1>19. o >= m - 5 /\ (m >= 10 => h + l + (g - 2 * s) >= 30)
  <2>1. CASE ~q.burnout
    <3>1. s = 0
      BY <1>6, <2>1
    <3>2. h = 0 /\ l = 0
      BY <1>10, <3>1
    <3>3. QED
      BY <1>5, <1>9, <1>16, <1>17, <3>1, <3>2
  <2>2. CASE q.burnout
    <3>1. c >= 40 /\ (a = 0 => m <= 3) /\ (n = 0 => m <= 6)
      BY <1>2, <1>16, <2>2
    <3>2. CASE u > 0 /\ v > 0
      <4>1. h = s /\ l = s
        BY <1>10, <3>2
      <4>2. QED
        BY <1>5, <1>6, <1>9, <1>16, <1>17, <4>1
    <3>3. CASE u = 0
      <4>1. m <= 3
        BY <1>9, <3>1, <3>3
      <4>2. QED
        BY <1>2, <1>17, <4>1
    <3>4. CASE u > 0 /\ v = 0
      <4>1. m <= 6
        BY <1>9, <3>1, <3>4
      <4>2. o >= 1
        BY <1>6, <1>10, <1>17, <3>4
      <4>3. QED
        BY <1>2, <1>17, <4>1, <4>2
    <3>5. QED
      BY <1>9, <3>2, <3>3, <3>4
  <2>3. QED
    BY <2>1, <2>2
<1>20. WeekLengths(q, f)
  <2>1. g - r = Week!Granted(q)
    <3>1. PICK d : d = Week!Granted(q) /\ g = r + d
      BY <1>5
    <3>2. d \in Int
      <4>1. Week!Granted(q) = Week!Max({0, 30 - r})
        BY <1>1 DEF Week!Granted, Week!MinimumRest, WeekRaws
      <4>2. QED
        BY <3>1, <4>1, WeekMax
    <3>3. QED
      BY <3>1, <3>2
  <2>2. f[1] + f[2] + f[3] + f[4] + f[5] + f[6] = o /\ f[2] + f[4] + f[6] = h + l + (g - 2 * s)
    BY <1>13, <1>17
  <2>3. QED
    BY <1>2, <1>14, <1>15, <1>18, <1>19, <2>1, <2>2 DEF WeekLengths
<1>21. QED
  BY <1>11, <1>20

\* What is summed over the places up to one of them.
LEMMA WeekSum == ASSUME NEW f, NEW S, f = [k \in S |-> f[k]] PROVE Week!Sum(f) = Total(f, S)
<1>1. DOMAIN f = S
  OBVIOUS
<1>2. Week!FoldFunction(+, 0, f) = Total(f, DOMAIN f)
  BY DEF Week!FoldFunction, Week!FoldFunctionOnSet, Week!MapThenFoldSet, Total, Adding, Pick
<1>3. QED
  BY <1>1, <1>2 DEF Week!Sum

\* A place starts where those before it have ended.
WeekStart(f, i) == Week!Morning + Week!Sum([k \in 1..(i - 1) |-> f[k]])

LEMMA WeekInOrder ==
    ASSUME NEW f, \A i \in 1..6 : f[i] \in Nat, NEW i \in 1..6, NEW k \in 1..6, i < k
    PROVE  WeekStart(f, i) + f[i] <= WeekStart(f, k)
<1>1. PICK S, T : S = 1..(i - 1) /\ T = 1..(k - 1)
  OBVIOUS
<1>2. IsFiniteSet(T) /\ IsFiniteSet(S)
  BY <1>1, FS_Interval
<1>3. PICK g, h : g = [x \in S |-> f[x]] /\ h = [x \in T |-> f[x]]
  OBVIOUS
<1>4. i \in T /\ S \subseteq T \ {i} /\ \A x \in T : x \in 1..6
  BY <1>1
<1>5. /\ \A x \in T : h[x] \in Nat /\ h[x] = f[x]
      /\ \A x \in S : g[x] \in Nat /\ g[x] = h[x]
  BY <1>3, <1>4
<1>6. Total(h, T) = h[i] + Total(h, T \ {i})
  <2>1. \A x \in T : h[x] \in Nat
    BY <1>5
  <2>2. ASSUME NEW j \in T PROVE Total(h, T) = h[j] + Total(h, T \ {j})
    BY <1>2, <2>1, TotalOne
  <2>3. QED
    BY <1>4, <2>2
<1>7. IsFiniteSet(T \ {i}) /\ S \in SUBSET (T \ {i})
  BY <1>2, <1>4, FS_Subset
<1>8. Total(g, S) <= Total(h, T \ {i})
  <2>1. \A x \in T \ {i} : h[x] \in Nat
    BY <1>5
  <2>2. \A x \in S : g[x] \in Nat /\ g[x] <= h[x]
    BY <1>5
  <2>3. QED
    BY <1>7, <2>1, <2>2, TotalLess
<1>9. Total(g, S) \in Nat /\ Total(h, T \ {i}) \in Nat
  BY <1>2, <1>5, <1>7, TotalType
<1>10. Week!Sum(g) = Total(g, S) /\ Week!Sum(h) = Total(h, T)
  BY <1>3, WeekSum
<1>11. WeekStart(f, i) = 540 + Total(g, S) /\ WeekStart(f, k) = 540 + Total(h, T)
  BY <1>1, <1>3, <1>10 DEF WeekStart, Week!Morning
<1>12. QED
  BY <1>4, <1>5, <1>6, <1>8, <1>9, <1>11

\* The blocks of an active day are the places that take time.
LEMMA WeekBlocks ==
    ASSUME NEW q, answer = Week!ActiveDay(q), NEW f, f = Week!Lengths(q)
    PROVE  /\ DOMAIN answer = {i \in 1..6 : f[i] > 0}
           /\ \A i \in DOMAIN answer :
                /\ answer[i].activity = Week!Activity[i] /\ answer[i].length = f[i]
                /\ answer[i].start = WeekStart(f, i)
<1>1. answer = [i \in {k \in 1..6 : f[k] > 0} |->
                  [activity |-> Week!Activity[i], length |-> f[i], start |-> WeekStart(f, i)]]
  BY Zenon DEF Week!ActiveDay, Week!Places, WeekStart
<1>2. QED
  BY <1>1

\* What they spend on some of the activities.
LEMMA WeekSpent ==
    ASSUME NEW q, answer = Week!ActiveDay(q), NEW f, f = Week!Lengths(q),
           \A i \in 1..6 : f[i] \in Nat, NEW acts
    PROVE  Week!Spent(acts) =
             (IF "apply" \in acts THEN f[1] ELSE 0) + (IF "rest" \in acts THEN f[2] ELSE 0) +
             (IF "network" \in acts THEN f[3] ELSE 0) + (IF "rest" \in acts THEN f[4] ELSE 0) +
             (IF "prep" \in acts THEN f[5] ELSE 0) + (IF "rest" \in acts THEN f[6] ELSE 0)
<1>0. /\ DOMAIN answer = {i \in 1..6 : f[i] > 0}
      /\ \A i \in DOMAIN answer : answer[i].activity = Week!Activity[i] /\ answer[i].length = f[i]
  BY WeekBlocks
<1>1. PICK h : h = [i \in 1..6 |-> Week!Share(i, acts)]
  OBVIOUS
<1>2. ASSUME NEW i \in 1..6 PROVE h[i] = IF Week!Activity[i] \in acts THEN f[i] ELSE 0
  <2>1. h[i] = Week!Share(i, acts)
    BY <1>1
  <2>2. CASE i \in DOMAIN answer
    <3>1. answer[i].activity = Week!Activity[i] /\ answer[i].length = f[i]
      BY <1>0, <2>2
    <3>2. QED
      BY <2>1, <2>2, <3>1 DEF Week!Share
  <2>3. CASE i \notin DOMAIN answer
    <3>1. ~(f[i] > 0)
      BY <1>0, <2>3
    <3>2. f[i] = 0
      BY <3>1
    <3>3. Week!Share(i, acts) = 0
      BY <2>3 DEF Week!Share
    <3>4. QED
      BY <2>1, <3>2, <3>3
  <2>4. QED
    BY <2>2, <2>3
<1>3. /\ Week!Activity[1] = "apply" /\ Week!Activity[2] = "rest" /\ Week!Activity[3] = "network"
      /\ Week!Activity[4] = "rest" /\ Week!Activity[5] = "prep" /\ Week!Activity[6] = "rest"
  BY SMT DEF Week!Activity
<1>4. \A i \in 1..6 : h[i] \in Nat
  BY <1>2
<1>5. Total(h, 1..6) = h[1] + h[2] + h[3] + h[4] + h[5] + h[6]
  BY <1>4, TotalOfSix
<1>6. Week!Spent(acts) = Total(h, 1..6)
  <2>1. Week!Spent(acts) = Week!Sum(h)
    BY <1>1 DEF Week!Spent, Week!Places
  <2>2. QED
    BY <1>1, <2>1, WeekSum
<1>7. /\ h[1] = (IF "apply" \in acts THEN f[1] ELSE 0) /\ h[2] = (IF "rest" \in acts THEN f[2] ELSE 0)
      /\ h[3] = (IF "network" \in acts THEN f[3] ELSE 0) /\ h[4] = (IF "rest" \in acts THEN f[4] ELSE 0)
      /\ h[5] = (IF "prep" \in acts THEN f[5] ELSE 0) /\ h[6] = (IF "rest" \in acts THEN f[6] ELSE 0)
  <2>1. \A i \in {1, 2, 3, 4, 5, 6} : i \in 1..6
    OBVIOUS
  <2>2. QED
    BY <1>2, <1>3, <2>1
<1>8. QED
  BY <1>5, <1>6, <1>7

LEMMA WeekActiveFits ==
    ASSUME NEW q \in Week!Questions, question = q, answer = Week!ActiveDay(q)
    PROVE  /\ \A i \in DOMAIN answer : answer[i].length > 0
           /\ \A i, k \in DOMAIN answer :
                i < k => answer[i].start + answer[i].length <= answer[k].start
           /\ LET spent == Week!Spent({"apply", "network", "prep", "rest"})
              IN  /\ spent <= question.minutes + Week!Granted(question)
                  /\ spent >= question.minutes - 5
                  /\ Week!Spent({"apply"}) <= Week!Limit(question) * Week!MinutesPerApplication
                  /\ question.minutes >= 10 => Week!Spent({"rest"}) >= Week!MinimumRest
<1>1. PICK f : f = Week!Lengths(q)
  OBVIOUS
<1>2. WeekLengths(q, f) /\ (\A i \in 1..6 : f[i] \in Nat)
  BY <1>1, WeekLengthsFit DEF WeekLengths
<1>3. /\ DOMAIN answer = {i \in 1..6 : f[i] > 0}
      /\ \A i \in DOMAIN answer : answer[i].length = f[i] /\ answer[i].start = WeekStart(f, i)
  BY <1>1, WeekBlocks
<1>4. \A i, k \in DOMAIN answer : i < k => answer[i].start + answer[i].length <= answer[k].start
  BY <1>2, <1>3, WeekInOrder
<1>5. Week!Spent({"apply", "network", "prep", "rest"}) = f[1] + f[2] + f[3] + f[4] + f[5] + f[6]
  BY <1>1, <1>2, WeekSpent
<1>6. Week!Spent({"apply"}) = f[1]
  <2>1. Week!Spent({"apply"}) = f[1] + 0 + 0 + 0 + 0 + 0
    BY <1>1, <1>2, WeekSpent
  <2>2. QED
    BY <1>2, <2>1
<1>7. Week!Spent({"rest"}) = f[2] + f[4] + f[6]
  <2>1. Week!Spent({"rest"}) = 0 + f[2] + 0 + f[4] + 0 + f[6]
    BY <1>1, <1>2, WeekSpent
  <2>2. QED
    BY <1>2, <2>1
<1>8. QED
  BY <1>2, <1>3, <1>4, <1>5, <1>6, <1>7 DEF WeekLengths, Week!MinutesPerApplication, Week!MinimumRest

LEMMA WeekRestFits ==
    ASSUME NEW q \in Week!Questions, q.minutes \in 31..(Week!Evening - Week!Morning + 30),
           answer = Week!RestDay(q)
    PROVE  /\ \A i \in DOMAIN answer : answer[i].length > 0
           /\ \A i, k \in DOMAIN answer :
                i < k => answer[i].start + answer[i].length <= answer[k].start
<1>1. q.minutes \in Nat /\ 31 <= q.minutes /\ q.minutes <= 510
  BY WeekAsked DEF Week!Evening, Week!Morning
<1>2. /\ DOMAIN answer = {1, 2} /\ answer[1].length = q.minutes - 30 /\ answer[2].length = 30
      /\ answer[1].start = 540 /\ answer[2].start = 1020
  BY SMT DEF Week!RestDay, Week!Evening, Week!Morning
<1>3. QED
  BY <1>1, <1>2

LEMMA WeekTells ==
    ASSUME answered =>
             \E q \in Week!Questions :
               /\ question = q
               /\ answer = IF q.restDay THEN Week!RestDay(q) ELSE Week!ActiveDay(q)
    PROVE  Week!DayFits
<1>0. ~answered => Week!DayFits
  BY SMT DEF Week!DayFits
<1> SUFFICES ASSUME answered PROVE Week!DayFits
  BY <1>0
<1>1. PICK q \in Week!Questions :
        /\ question = q
        /\ answer = IF q.restDay THEN Week!RestDay(q) ELSE Week!ActiveDay(q)
  OBVIOUS
<1>2. CASE q.restDay
  <2>1. question.restDay /\ answer = Week!RestDay(q)
    BY <1>1, <1>2
  <2>2. QED
    BY <1>1, <2>1, WeekRestFits DEF Week!DayFits
<1>3. CASE ~q.restDay
  <2>1. ~question.restDay /\ answer = Week!ActiveDay(q)
    BY <1>1, <1>3
  <2>2. QED
    BY <1>1, <2>1, WeekActiveFits DEF Week!DayFits
<1>4. QED
  BY <1>2, <1>3

-----------------------------------------------------------------------------
\* The chunks of a text: chunker.py.

\* The lines of a text.
ChunkText(text, n) ==
    /\ n \in Nat /\ DOMAIN text = 1..n /\ Len(text) = n
    /\ \A i \in 1..n : text[i] \in {"word", "blank", "first", "second", "both"}

LEMMA ChunkTexts == ASSUME NEW text \in Cutting!Texts PROVE \E n \in Nat : ChunkText(text, n)
<1>1. PICK n \in 0..MaxLines : text \in [1..n -> DOMAIN Cutting!Matched]
  BY DEF Cutting!Texts
<1>2. n \in Nat
  BY ChunkingAssumption
<1>3. DOMAIN Cutting!Matched = {"word", "blank", "first", "second", "both"}
  BY DEF Cutting!Matched
<1>4. text \in Seq({"word", "blank", "first", "second", "both"}) /\ Len(text) = n
  BY <1>1, <1>2, <1>3
<1>5. QED
  BY <1>1, <1>2, <1>3, <1>4 DEF ChunkText

\* Where headings stand, and the text before the first one.
Headings(text) == Cutting!Matches(text) \cup {Cutting!Top}

\* The order of headings as one of numbers.
HeadingKey(m) == 2 * m[1] + m[2]

LEMMA ChunkHeading ==
    ASSUME NEW text, NEW n, ChunkText(text, n), NEW m \in Headings(text)
    PROVE  /\ m = <<m[1], m[2]>> /\ m[1] \in 0..n /\ m[2] \in 0..2 /\ HeadingKey(m) \in Nat
           /\ HeadingKey(m) <= 2 * n + 2
           /\ m \in Cutting!Matches(text) => m[1] \in 1..n /\ m[2] \in 1..2 /\ text[m[1]] # "word"
           /\ m \notin Cutting!Matches(text) => m[1] = 0 /\ m[2] = 0
<1>1. CASE m \in Cutting!Matches(text)
  <2>1. m \in (1..n) \X (1..2) /\ m[2] \in Cutting!Matched[text[m[1]]]
    BY <1>1 DEF Cutting!Matches, Cutting!Sections, ChunkText
  <2>2. m = <<m[1], m[2]>> /\ m[1] \in 1..n /\ m[2] \in 1..2
    BY <2>1
  <2>3. Cutting!Matched["word"] = {}
    BY DEF Cutting!Matched
  <2>4. text[m[1]] # "word"
    BY <2>1, <2>3
  <2>5. n \in Nat
    BY DEF ChunkText
  <2>6. QED
    BY <1>1, <2>2, <2>4, <2>5 DEF HeadingKey
<1>2. CASE m \notin Cutting!Matches(text)
  <2>1. m = <<0, 0>>
    BY <1>2 DEF Headings, Cutting!Top, Cutting!Preamble
  <2>2. m = <<m[1], m[2]>> /\ m[1] = 0 /\ m[2] = 0 /\ n \in Nat
    BY <2>1 DEF ChunkText
  <2>3. QED
    BY <1>2, <2>2 DEF HeadingKey
<1>3. QED
  BY <1>1, <1>2

LEMMA ChunkOrder ==
    ASSUME NEW text, NEW n, ChunkText(text, n), NEW m \in Headings(text), NEW k \in Headings(text)
    PROVE  /\ Cutting!Before(m, k) <=> HeadingKey(m) < HeadingKey(k)
           /\ HeadingKey(m) = HeadingKey(k) => m = k
<1>1. m[1] \in Nat /\ m[2] \in 0..2 /\ (m[1] > 0 <=> m[2] > 0)
  <2>1. n \in Nat
    BY DEF ChunkText
  <2>2. CASE m \in Cutting!Matches(text)
    <3>1. m[1] \in 1..n /\ m[2] \in 1..2
      BY <2>2, ChunkHeading
    <3>2. QED
      BY <2>1, <3>1
  <2>3. CASE m \notin Cutting!Matches(text)
    <3>1. m[1] = 0 /\ m[2] = 0
      BY <2>3, ChunkHeading
    <3>2. QED
      BY <3>1
  <2>4. QED
    BY <2>2, <2>3
<1>2. k[1] \in Nat /\ k[2] \in 0..2 /\ (k[1] > 0 <=> k[2] > 0)
  <2>1. n \in Nat
    BY DEF ChunkText
  <2>2. CASE k \in Cutting!Matches(text)
    <3>1. k[1] \in 1..n /\ k[2] \in 1..2
      BY <2>2, ChunkHeading
    <3>2. QED
      BY <2>1, <3>1
  <2>3. CASE k \notin Cutting!Matches(text)
    <3>1. k[1] = 0 /\ k[2] = 0
      BY <2>3, ChunkHeading
    <3>2. QED
      BY <3>1
  <2>4. QED
    BY <2>2, <2>3
<1>3. PICK a \in Nat, b \in 0..2, c \in Nat, d \in 0..2 : a = m[1] /\ b = m[2] /\ c = k[1] /\ d = k[2]
  BY <1>1, <1>2
<1>4. (a < c \/ (a = c /\ b < d)) <=> (2 * a + b < 2 * c + d)
  <2>1. (a > 0 <=> b > 0) /\ (c > 0 <=> d > 0)
    BY <1>1, <1>2, <1>3
  <2>2. CASE a < c
    BY <2>1, <2>2
  <2>3. CASE a = c
    BY <2>3
  <2>4. CASE c < a
    BY <2>1, <2>4
  <2>5. QED
    BY <2>2, <2>3, <2>4
<1>5. 2 * a + b = 2 * c + d => a = c /\ b = d
  BY <1>1, <1>2, <1>3
<1>6. HeadingKey(m) = 2 * a + b /\ HeadingKey(k) = 2 * c + d
  BY <1>3 DEF HeadingKey
<1>7. Cutting!Before(m, k) <=> a < c \/ (a = c /\ b < d)
  BY <1>3 DEF Cutting!Before
<1>8. m = <<m[1], m[2]>> /\ k = <<k[1], k[2]>>
  BY ChunkHeading
<1>9. ASSUME HeadingKey(m) = HeadingKey(k) PROVE m = k
  <2>1. a = c /\ b = d
    BY <1>5, <1>6, <1>9
  <2>2. m[1] = k[1] /\ m[2] = k[2]
    BY <1>3, <2>1
  <2>3. QED
    BY <1>8, <2>2, Zenon
<1>10. QED
  BY <1>4, <1>6, <1>7, <1>9

\* Some of the headings have a first and a last one.
LEMMA ChunkFirst ==
    ASSUME NEW text, NEW n, ChunkText(text, n), NEW S \in SUBSET Headings(text), S # {}
    PROVE  /\ \E m \in S : \A k \in S : HeadingKey(m) <= HeadingKey(k)
           /\ \E m \in S : \A k \in S : HeadingKey(k) <= HeadingKey(m)
<1>1. PICK K : K = {HeadingKey(m) : m \in S}
  OBVIOUS
<1>2. PICK b \in Nat : b = 2 * n + 2
  BY DEF ChunkText
<1>3. \A m \in S : HeadingKey(m) \in Nat /\ HeadingKey(m) <= b
  BY <1>2, ChunkHeading
<1>4. PICK L : L = {b - HeadingKey(m) : m \in S}
  OBVIOUS
<1>5. K \subseteq Nat /\ K # {} /\ L \subseteq Nat /\ L # {}
  BY <1>1, <1>3, <1>4
<1>6. \E m \in S : \A k \in S : HeadingKey(m) <= HeadingKey(k)
  <2>1. PICK x \in K : \A y \in K : x <= y
    BY <1>5, MinNat
  <2>2. QED
    BY <1>1, <2>1
<1>7. \E m \in S : \A k \in S : HeadingKey(k) <= HeadingKey(m)
  <2>1. PICK x \in L : \A y \in L : x <= y
    BY <1>5, MinNat
  <2>2. PICK m \in S : x = b - HeadingKey(m)
    BY <1>4, <2>1
  <2>3. \A k \in S : b - HeadingKey(m) <= b - HeadingKey(k)
    BY <1>4, <2>1, <2>2
  <2>4. QED
    BY <1>3, <2>3
<1>8. QED
  BY <1>6, <1>7

\* What stands under a heading are the words after it and before the next.
LEMMA ChunkContent ==
    ASSUME NEW text, NEW n, ChunkText(text, n), NEW m \in Headings(text)
    PROVE  /\ \A i \in Cutting!Content(text, m) : i \in 1..n /\ text[i] = "word"
           /\ \A i \in 1..n : text[i] = "word" =>
                (i \in Cutting!Content(text, m) <=>
                   m[1] < i /\ \A k \in Cutting!Matches(text) : Cutting!Before(m, k) => i < k[1])
<1>1. PICK A : A = Cutting!After(text, m)
  OBVIOUS
<1>2. A = {k \in Cutting!Matches(text) : Cutting!Before(m, k)} /\ A \in SUBSET Headings(text)
  BY <1>1 DEF Cutting!After, Headings
<1>3. n \in Nat /\ m[1] \in 0..n /\ Len(text) = n
  BY ChunkHeading DEF ChunkText
<1>4. CASE A = {}
  <2>1. Cutting!Content(text, m) = {i \in (m[1] + 1)..n : text[i] = "word"}
    BY <1>1, <1>3, <1>4 DEF Cutting!Content, Cutting!Words
  <2>2. QED
    BY <1>2, <1>3, <1>4, <2>1
<1>5. CASE A # {}
  <2>1. PICK f : f = CHOOSE h \in A : \A k \in A : ~Cutting!Before(k, h)
    OBVIOUS
  <2>2. f \in A /\ \A k \in A : ~Cutting!Before(k, f)
    <3>1. PICK h \in A : \A k \in A : HeadingKey(h) <= HeadingKey(k)
      BY <1>2, <1>5, ChunkFirst
    <3>2. ASSUME NEW k \in A PROVE ~Cutting!Before(k, h)
      <4>1. HeadingKey(h) <= HeadingKey(k) /\ HeadingKey(h) \in Nat /\ HeadingKey(k) \in Nat
        BY <1>2, <3>1, ChunkHeading
      <4>2. Cutting!Before(k, h) <=> HeadingKey(k) < HeadingKey(h)
        BY <1>2, ChunkOrder
      <4>3. QED
        BY <4>1, <4>2
    <3>3. \E h2 \in A : \A k \in A : ~Cutting!Before(k, h2)
      BY <3>2
    <3>4. QED
      BY <2>1, <3>3, Zenon
  <2>3. \A k \in A : k[1] \in 1..n /\ text[k[1]] # "word"
    BY <1>2, ChunkHeading
  <2>4. \A k \in A : f[1] <= k[1]
    BY <2>2, <2>3 DEF Cutting!Before
  <2>5. f[1] \in 1..n
    BY <2>2, <2>3
  <2>6. Cutting!Content(text, m) = {i \in (m[1] + 1)..(f[1] - 1) : text[i] = "word"}
    BY <1>1, <1>5, <2>1 DEF Cutting!Content, Cutting!Words
  <2>7. \A i \in Cutting!Content(text, m) : i \in 1..n /\ text[i] = "word"
    BY <1>3, <2>5, <2>6
  <2>8. ASSUME NEW i \in 1..n, text[i] = "word"
        PROVE  i \in Cutting!Content(text, m) <=> m[1] < i /\ \A k \in A : i < k[1]
    <3>1. (\A k \in A : i < k[1]) <=> i < f[1]
      BY <2>2, <2>3, <2>4
    <3>2. QED
      BY <1>3, <2>5, <2>6, <2>8, <3>1
  <2>9. QED
    BY <1>2, <2>7, <2>8
<1>6. QED
  BY <1>4, <1>5

\* A word stands under one heading, the nearest above it.
LEMMA ChunkNearest ==
    ASSUME NEW text, NEW n, ChunkText(text, n), NEW i \in 1..n, text[i] = "word"
    PROVE  \E m \in Headings(text) :
             /\ i \in Cutting!Content(text, m) /\ m[2] = Cutting!Heading(text, i)
             /\ \A k \in Headings(text) : i \in Cutting!Content(text, k) => k = m
<1>1. PICK A : A = {m \in Headings(text) : m[1] < i}
  OBVIOUS
<1>2. PICK B : B = Cutting!Above(text, i)
  OBVIOUS
<1>3. B = {m \in Cutting!Matches(text) : m[1] < i}
  BY <1>2 DEF Cutting!Above
<1>4. n \in Nat /\ i > 0
  BY DEF ChunkText
<1>5. Cutting!Top \in A /\ Cutting!Top[1] = 0 /\ Cutting!Top[2] = 0 /\ A \in SUBSET Headings(text)
  BY <1>1, <1>4 DEF Headings, Cutting!Top, Cutting!Preamble
<1>6. A = B \cup {Cutting!Top}
  BY <1>1, <1>3, <1>5 DEF Headings
<1>7. PICK m \in A : \A k \in A : HeadingKey(k) <= HeadingKey(m)
  <2>1. A # {}
    BY <1>5
  <2>2. QED
    BY <1>5, <2>1, ChunkFirst
<1>8. \A k \in Headings(text) : HeadingKey(k) \in Nat
  BY ChunkHeading
<1>9. m \in Headings(text) /\ m[1] < i
  BY <1>1, <1>7
<1>10. \A k \in Cutting!Matches(text) : k[1] \in 1..n /\ k[1] # i
  BY ChunkHeading DEF Headings
<1>11. i \in Cutting!Content(text, m)
  <2>1. ASSUME NEW k \in Cutting!Matches(text), Cutting!Before(m, k) PROVE i < k[1]
    <3>1. k \in Headings(text) /\ HeadingKey(m) < HeadingKey(k)
      <4>1. k \in Headings(text)
        BY DEF Headings
      <4>2. QED
        BY <1>9, <2>1, <4>1, ChunkOrder
    <3>2. k \notin A
      BY <1>7, <1>8, <1>9, <3>1
    <3>3. ~(k[1] < i)
      BY <1>1, <3>1, <3>2
    <3>4. QED
      BY <1>4, <1>10, <3>3
  <2>2. QED
    BY <1>9, <2>1, ChunkContent
<1>12. ASSUME NEW k \in Headings(text), i \in Cutting!Content(text, k) PROVE k = m
  <2>1. k[1] < i /\ \A h \in Cutting!Matches(text) : Cutting!Before(k, h) => i < h[1]
    BY <1>12, ChunkContent
  <2>2. k \in A
    BY <1>1, <2>1
  <2>3. ASSUME k # m PROVE FALSE
    <3>1. HeadingKey(k) # HeadingKey(m)
      BY <1>9, <2>3, ChunkOrder
    <3>2. HeadingKey(k) < HeadingKey(m)
      BY <1>7, <1>8, <1>9, <2>2, <3>1
    <3>3. Cutting!Before(k, m)
      BY <1>9, <3>2, ChunkOrder
    <3>4. m # Cutting!Top
      <4>1. HeadingKey(Cutting!Top) = 0
        BY <1>5 DEF HeadingKey
      <4>2. QED
        BY <1>8, <3>2, <4>1
    <3>5. m \in Cutting!Matches(text)
      BY <1>9, <3>4 DEF Headings
    <3>6. i < m[1] /\ m[1] \in 1..n
      BY <1>10, <2>1, <3>3, <3>5
    <3>7. QED
      BY <1>4, <1>9, <3>6
  <2>4. QED
    BY <2>3
<1>13. m[2] = Cutting!Heading(text, i)
  <2>1. CASE B = {}
    <3>1. m = Cutting!Top
      BY <1>6, <1>7, <2>1
    <3>2. Cutting!Heading(text, i) = 0
      BY <1>2, <2>1 DEF Cutting!Heading, Cutting!Preamble
    <3>3. QED
      BY <1>5, <3>1, <3>2
  <2>2. CASE B # {}
    <3>1. PICK b \in B : TRUE
      BY <2>2
    <3>2. HeadingKey(b) > 0 /\ HeadingKey(Cutting!Top) = 0 /\ HeadingKey(b) \in Nat
      <4>1. b \in Headings(text) /\ b[1] \in 1..n /\ b[2] \in 1..2
        <5>1. b \in Cutting!Matches(text)
          BY <1>3
        <5>2. b \in Headings(text)
          BY <5>1 DEF Headings
        <5>3. QED
          BY <5>1, <5>2, ChunkHeading
      <4>2. QED
        BY <1>4, <1>5, <4>1 DEF HeadingKey
    <3>3. m \in B
      <4>1. HeadingKey(b) <= HeadingKey(m)
        BY <1>6, <1>7
      <4>2. m # Cutting!Top
        BY <1>8, <1>9, <3>2, <4>1
      <4>3. QED
        BY <1>6, <1>7, <4>2
    <3>4. \A k \in B : (k[1] < m[1] \/ (k[1] = m[1] /\ k[2] <= m[2]))
      <4>1. SUFFICES ASSUME NEW k \in B PROVE k[1] < m[1] \/ (k[1] = m[1] /\ k[2] <= m[2])
        OBVIOUS
      <4>2. k \in Cutting!Matches(text) /\ k \in Headings(text) /\ m \in Cutting!Matches(text)
        BY <1>3, <3>3 DEF Headings
      <4>3. k[1] \in 1..n /\ k[2] \in 1..2 /\ m[1] \in 1..n /\ m[2] \in 1..2
        BY <1>9, <4>2, ChunkHeading
      <4>4. 2 * k[1] + k[2] <= 2 * m[1] + m[2]
        BY <1>6, <1>7 DEF HeadingKey
      <4>5. QED
        BY <1>4, <4>3, <4>4
    <3>5. PICK h : h = CHOOSE x \in B : \A k \in B : k[1] < x[1] \/ (k[1] = x[1] /\ k[2] <= x[2])
      OBVIOUS
    <3>6. h \in B /\ \A k \in B : k[1] < h[1] \/ (k[1] = h[1] /\ k[2] <= h[2])
      BY <3>3, <3>4, <3>5, Zenon
    <3>7. h[2] = m[2]
      <4>1. h \in Cutting!Matches(text) /\ h \in Headings(text) /\ m \in Cutting!Matches(text)
        BY <1>3, <3>3, <3>6 DEF Headings
      <4>2. h[1] \in 1..n /\ h[2] \in 1..2 /\ m[1] \in 1..n /\ m[2] \in 1..2
        BY <1>9, <4>1, ChunkHeading
      <4>3. /\ m[1] < h[1] \/ (m[1] = h[1] /\ m[2] <= h[2])
            /\ h[1] < m[1] \/ (h[1] = m[1] /\ h[2] <= m[2])
        BY <3>3, <3>4, <3>6
      <4>4. QED
        BY <1>4, <4>2, <4>3
    <3>8. Cutting!Heading(text, i) = h[2]
      BY <1>2, <2>2, <3>5 DEF Cutting!Heading
    <3>9. QED
      BY <3>7, <3>8
  <2>3. QED
    BY <2>1, <2>2
<1>14. QED
  BY <1>9, <1>11, <1>12, <1>13

-----------------------------------------------------------------------------
LEMMA ChunkCount == \A S : Cutting!Cardinality(S) = Cardinality(S)
BY DEF Cutting!Cardinality, Cardinality

\* The words of a text have places from 1 on.
LEMMA ChunkPlaces ==
    ASSUME NEW text, NEW n, ChunkText(text, n), NEW B, B = Cutting!NotBlank(text),
           NEW t, t = Cardinality(B)
    PROVE  /\ t \in Nat /\ IsFiniteSet(B) /\ B \subseteq 1..n
           /\ \A i \in B : Cutting!Place(text, i) \in 1..t
           /\ \A i, k \in B : Cutting!Place(text, i) = Cutting!Place(text, k) => i = k
           /\ \A p \in 1..t : \E i \in B : Cutting!Place(text, i) = p
<1>1. n \in Nat /\ B = {i \in 1..n : text[i] # "blank"}
  BY DEF ChunkText, Cutting!NotBlank
<1>2. IsFiniteSet(B) /\ t \in Nat /\ B \subseteq 1..n
  <2>1. IsFiniteSet(1..n)
    BY <1>1, FS_Interval
  <2>2. IsFiniteSet(B)
    BY <1>1, <2>1, FS_Subset
  <2>3. QED
    BY <1>1, <2>2, FS_CardinalityType
<1>3. PICK f : f = [i \in B |-> Cutting!Place(text, i)]
  OBVIOUS
<1>4. ASSUME NEW i \in B
      PROVE  /\ f[i] = Cardinality({k \in B : k <= i}) /\ IsFiniteSet({k \in B : k <= i})
             /\ f[i] \in 1..t
  <2>1. PICK C : C = {k \in B : k <= i}
    OBVIOUS
  <2>2. f[i] = Cardinality(C)
    <3>1. f[i] = Cutting!Place(text, i)
      BY <1>3
    <3>2. {k \in Cutting!NotBlank(text) : k <= i} = C
      BY <2>1
    <3>3. QED
      BY <3>1, <3>2, ChunkCount DEF Cutting!Place
  <2>3. C \in SUBSET B /\ i \in C
    BY <1>2, <2>1
  <2>4. IsFiniteSet(C) /\ Cardinality(C) <= t /\ Cardinality(C) \in Nat
    BY <1>2, <2>3, FS_Subset, FS_CardinalityType
  <2>5. Cardinality(C) # 0
    BY <2>3, <2>4, FS_EmptySet
  <2>6. QED
    BY <1>2, <2>1, <2>2, <2>4, <2>5
<1>5. ASSUME NEW i \in B, NEW k \in B, i < k PROVE f[i] < f[k]
  <2>1. PICK C, D : C = {h \in B : h <= i} /\ D = {h \in B : h <= k}
    OBVIOUS
  <2>2. C \in SUBSET D /\ k \in D /\ k \notin C
    BY <1>2, <1>5, <2>1
  <2>3. IsFiniteSet(D) /\ f[i] = Cardinality(C) /\ f[k] = Cardinality(D)
    BY <1>4, <2>1
  <2>4. Cardinality(C) <= Cardinality(D) /\ Cardinality(C) # Cardinality(D)
    BY <2>2, <2>3, FS_Subset
  <2>5. f[i] \in 1..t /\ f[k] \in 1..t
    BY <1>4
  <2>6. QED
    BY <1>2, <2>3, <2>4, <2>5
<1>6. \A i, k \in B : f[i] = f[k] => i = k
  <2> SUFFICES ASSUME NEW i \in B, NEW k \in B, f[i] = f[k], i # k PROVE FALSE
    OBVIOUS
  <2>1. i < k \/ k < i
    BY <1>2
  <2>2. f[i] < f[k] \/ f[k] < f[i]
    BY <1>5, <2>1
  <2>3. f[i] \in 1..t /\ f[k] \in 1..t
    BY <1>4
  <2>4. QED
    BY <1>2, <2>2, <2>3
<1>7. \A p \in 1..t : \E i \in B : f[i] = p
  <2>1. \A i \in B : f[i] \in 1..t
    BY <1>4
  <2>2. QED
    BY <1>2, <1>6, <2>1, AllPlaces
<1>8. \A i \in B : f[i] = Cutting!Place(text, i)
  BY <1>3
<1>9. \A i \in B : Cutting!Place(text, i) \in 1..t
  BY <1>4, <1>8
<1>10. \A i, k \in B : Cutting!Place(text, i) = Cutting!Place(text, k) => i = k
  BY <1>6, <1>8
<1>11. \A p \in 1..t : \E i \in B : Cutting!Place(text, i) = p
  BY <1>7, <1>8
<1>12. QED
  BY <1>2, <1>9, <1>10, <1>11

\* Windows advance by more than nothing and no more than they hold.
LEMMA ChunkStep ==
    /\ Cutting!Step \in Nat \ {0} /\ MaxTokens \in Nat /\ Overlap \in Nat
    /\ MaxTokens = Cutting!Step + Overlap
BY ChunkingAssumption DEF Cutting!Step

\* The windows over t words: each starts at a word and each word is in one.
LEMMA ChunkWindows ==
    ASSUME NEW t \in Nat \ {0}, NEW s, s = Cutting!Step, NEW c, c = Cutting!Windows(t)
    PROVE  /\ c \in Nat \ {0}
           /\ \A w \in 1..c : (w - 1) * s \in Nat /\ (w - 1) * s < t
           /\ \A p \in 1..t : \E w \in 1..c : p - (w - 1) * s \in 1..MaxTokens
<1>1. s \in Nat \ {0} /\ MaxTokens \in Nat /\ s <= MaxTokens
  BY ChunkStep
<1>2. CASE t <= MaxTokens
  <2>1. c = 1
    BY <1>2 DEF Cutting!Windows
  <2>2. \A w \in 1..c : w = 1
    BY <2>1
  <2>3. (1 - 1) * s = 0
    BY <1>1
  <2>4. \A w \in 1..c : (w - 1) * s = 0
    BY <2>2, <2>3
  <2>5. \A p \in 1..t : p - (1 - 1) * s \in 1..MaxTokens
    BY <1>1, <1>2, <2>3
  <2>6. 1 \in 1..c
    BY <2>1
  <2>7. QED
    BY <2>1, <2>4, <2>5, <2>6
<1>3. CASE ~(t <= MaxTokens)
  <2>1. c = (t + s - 1) \div s
    BY <1>3 DEF Cutting!Windows
  <2>2. PICK k \in Nat : k = c /\ s * k <= t + s - 1
    BY <1>1, <2>1, Quotient
  <2>3. \A n \in Nat : s * n <= t + s - 1 => n <= k
    <3>1. \A n \in Int : s * n <= t + s - 1 => n <= (t + s - 1) \div s
      BY <1>1, QuotientAtLeast
    <3>2. QED
      BY <2>1, <2>2, <3>1
  <2>4. k >= 1
    <3>1. s * 1 <= t + s - 1
      BY <1>1
    <3>2. QED
      BY <2>3, <3>1
  <2>5. ASSUME NEW w \in 1..c PROVE (w - 1) * s \in Nat /\ (w - 1) * s < t
    <3>1. w \in Nat /\ w - 1 \in Nat /\ w <= k
      BY <2>2
    <3>2. s * w <= s * k /\ s * w \in Nat
      BY <1>1, <3>1
    <3>3. (w - 1) * s = s * w - s /\ (w - 1) * s \in Nat
      BY <1>1, <3>1
    <3>4. QED
      BY <1>1, <2>2, <3>2, <3>3
  <2>6. ASSUME NEW p \in 1..t PROVE \E w \in 1..c : p - (w - 1) * s \in 1..MaxTokens
    <3>1. PICK h \in Nat : h = (p - 1) \div s /\ s * h <= p - 1 /\ p - 1 < s * h + s
      BY <1>1, Quotient
    <3>2. s * (h + 1) = s * h + s /\ s * h \in Nat
      BY <1>1
    <3>3. h + 1 <= k
      <4>1. s * (h + 1) <= t + s - 1
        BY <1>1, <3>1, <3>2
      <4>2. QED
        BY <2>3, <4>1
    <3>4. (h + 1 - 1) * s = s * h
      BY <1>1
    <3>5. p - (h + 1 - 1) * s \in 1..MaxTokens
      BY <1>1, <3>1, <3>2, <3>4
    <3>6. h + 1 \in 1..c
      BY <2>2, <3>3
    <3>7. QED
      BY <3>5, <3>6
  <2>7. QED
    BY <2>2, <2>4, <2>5, <2>6
<1>4. QED
  BY <1>2, <1>3

\* Members of B have the places from 1 to t.
Placing(B, f, t) ==
    /\ IsFiniteSet(B) /\ t \in Nat
    /\ \A i \in B : f[i] \in 1..t
    /\ \A i, k \in B : f[i] = f[k] => i = k
    /\ \A p \in 1..t : \E i \in B : f[i] = p

\* As many have the places after a as there are places.
LEMMA ChunkStretch ==
    ASSUME NEW B, NEW f, NEW t, Placing(B, f, t), NEW a \in Nat, NEW m \in Nat
    PROVE  \A S : S = {i \in B : f[i] - a \in 1..m} =>
             /\ IsFiniteSet(S) /\ Cardinality(S) <= m
             /\ a + m <= t => Cardinality(S) = m
             /\ a < t /\ m > 0 => S # {}
<1> SUFFICES ASSUME NEW S, S = {i \in B : f[i] - a \in 1..m}
             PROVE  /\ IsFiniteSet(S) /\ Cardinality(S) <= m
                    /\ a + m <= t => Cardinality(S) = m
                    /\ a < t /\ m > 0 => S # {}
  OBVIOUS
<1>0. /\ IsFiniteSet(B) /\ t \in Nat
      /\ \A i \in B : f[i] \in 1..t
      /\ \A i, k \in B : f[i] = f[k] => i = k
      /\ \A p \in 1..t : \E i \in B : f[i] = p
  BY DEF Placing
<1>1. PICK T, g : T = 1..m /\ g = [i \in S |-> f[i] - a]
  OBVIOUS
<1>2. IsFiniteSet(T) /\ Cardinality(T) = m
  BY <1>1, FS_Interval
<1>3. \A i \in S : g[i] \in T
  BY <1>1
<1>4. \A i, k \in S : g[i] = g[k] => i = k
  <2> SUFFICES ASSUME NEW i \in S, NEW k \in S, g[i] = g[k] PROVE i = k
    OBVIOUS
  <2>1. f[i] - a = f[k] - a /\ f[i] \in 1..t /\ f[k] \in 1..t
    BY <1>0, <1>1
  <2>2. f[i] = f[k]
    BY <1>0, <2>1
  <2>3. QED
    BY <1>0, <2>2
<1>5. IsFiniteSet(S) /\ Cardinality(S) <= m
  BY <1>2, <1>3, <1>4, OneEach
<1>6. ASSUME a + m <= t PROVE Cardinality(S) = m
  <2>1. ASSUME NEW p \in T PROVE \E i \in S : g[i] = p
    <3>1. p \in 1..m /\ a + p \in 1..t
      BY <1>0, <1>1, <1>6
    <3>2. PICK i \in B : f[i] = a + p
      BY <1>0, <3>1
    <3>3. f[i] - a = p
      BY <3>1, <3>2
    <3>4. QED
      BY <1>1, <3>1, <3>2, <3>3
  <2>2. QED
    BY <1>2, <1>3, <1>4, <2>1, OneEach
<1>7. ASSUME a < t, m > 0 PROVE S # {}
  <2>1. a + 1 \in 1..t
    BY <1>0, <1>7
  <2>2. PICK i \in B : f[i] = a + 1
    BY <1>0, <2>1
  <2>3. f[i] - a \in 1..m
    BY <1>7, <2>2
  <2>4. QED
    BY <2>2, <2>3
<1>8. QED
  BY <1>5, <1>6, <1>7

\* What ChunksCoverText asks of a text by itself: in sections, in windows.
LEMMA ChunkSections ==
    ASSUME NEW n, ChunkText(question, n), NEW split, split = Cutting!SplitBySections(question),
           answer = [m \in split |-> [type |-> m[2], lines |-> Cutting!Content(question, m)]],
           split # {}
    PROVE  Cutting!ChunksCoverText
<1>1. PICK text : text = question
  OBVIOUS
<1>2. ChunkText(text, n) /\ n \in Nat /\ DOMAIN text = 1..n /\ Len(text) = n
  BY <1>1 DEF ChunkText
<1>3. PICK words : words = Cutting!Words(text, 1, n)
  OBVIOUS
<1>4. words = {i \in 1..n : text[i] = "word"}
  BY <1>3 DEF Cutting!Words
<1>5. /\ DOMAIN answer = split
      /\ \A m \in split : answer[m].type = m[2] /\ answer[m].lines = Cutting!Content(text, m)
  BY <1>1
<1>6. /\ split = {m \in Headings(text) : Cutting!Matches(text) # {} /\ Cutting!Content(text, m) # {}}
      /\ Cutting!Matches(text) # {}
  BY <1>1 DEF Cutting!SplitBySections, Headings
<1>7. \A m \in DOMAIN answer : answer[m].type # Cutting!FullText
  <2> SUFFICES ASSUME NEW m \in split PROVE m[2] # 3
    BY <1>5 DEF Cutting!FullText
  <2>1. m[2] \in 0..2
    BY <1>2, <1>6, ChunkHeading
  <2>2. QED
    BY <2>1
<1>8. \A m \in DOMAIN answer : answer[m].lines # {}
  BY <1>5, <1>6
<1>9. ASSUME NEW i \in words
      PROVE  LET with == {c \in DOMAIN answer : i \in answer[c].lines}
             IN  \E c \in with : with = {c} /\ answer[c].type = Cutting!Heading(text, i)
  <2>1. i \in 1..n /\ text[i] = "word"
    BY <1>4
  <2>2. PICK m \in Headings(text) :
          /\ i \in Cutting!Content(text, m) /\ m[2] = Cutting!Heading(text, i)
          /\ \A k \in Headings(text) : i \in Cutting!Content(text, k) => k = m
    BY <1>2, <2>1, ChunkNearest
  <2>3. m \in split
    BY <1>6, <2>2
  <2>4. {c \in DOMAIN answer : i \in answer[c].lines} = {m}
    BY <1>5, <1>6, <2>2, <2>3
  <2>5. answer[m].type = Cutting!Heading(text, i)
    BY <1>5, <2>2, <2>3
  <2>6. QED
    BY <2>4, <2>5
<1>10. ASSUME NEW i \in (DOMAIN text) \ words PROVE {c \in DOMAIN answer : i \in answer[c].lines} = {}
  <2>1. text[i] # "word"
    BY <1>2, <1>4
  <2>2. \A m \in split : i \notin Cutting!Content(text, m)
    BY <1>2, <1>6, <2>1, ChunkContent
  <2>3. QED
    BY <1>5, <2>2
<1>11. ~\E c \in DOMAIN answer : answer[c].type = Cutting!FullText
  BY <1>7
<1>12. \A i \in Cutting!Words(question, 1, Len(question)) :
         \E c \in {d \in DOMAIN answer : i \in answer[d].lines} :
           /\ {d \in DOMAIN answer : i \in answer[d].lines} = {c}
           /\ answer[c].type = Cutting!Heading(question, i)
  BY <1>1, <1>2, <1>3, <1>9
<1>13. \A i \in (DOMAIN question) \ Cutting!Words(question, 1, Len(question)) :
         {d \in DOMAIN answer : i \in answer[d].lines} = {}
  BY <1>1, <1>2, <1>3, <1>10
<1>14. QED
  BY <1>8, <1>11, <1>12, <1>13, Zenon DEF Cutting!ChunksCoverText

LEMMA ChunkFixed ==
    ASSUME NEW n, ChunkText(question, n), answer = Cutting!FixedSize(question),
           Cutting!NotBlank(question) # {}, Cutting!SplitBySections(question) = {}
    PROVE  Cutting!ChunksCoverText
<1>1. PICK text : text = question
  OBVIOUS
<1>2. ChunkText(text, n) /\ n \in Nat /\ DOMAIN text = 1..n /\ Len(text) = n
  BY <1>1 DEF ChunkText
<1>3. PICK words : words = Cutting!Words(text, 1, n)
  OBVIOUS
<1>4. words = {i \in 1..n : text[i] = "word"}
  BY <1>3 DEF Cutting!Words
<1>5. PICK B, t : B = Cutting!NotBlank(text) /\ t = Cardinality(B)
  OBVIOUS
<1>6. /\ t \in Nat /\ IsFiniteSet(B) /\ B = {i \in 1..n : text[i] # "blank"} /\ B # {}
      /\ \A i \in B : Cutting!Place(text, i) \in 1..t
      /\ \A i, k \in B : Cutting!Place(text, i) = Cutting!Place(text, k) => i = k
      /\ \A p \in 1..t : \E i \in B : Cutting!Place(text, i) = p
  BY <1>1, <1>2, <1>5, ChunkPlaces DEF Cutting!NotBlank
<1>7. t \in Nat \ {0}
  BY <1>5, <1>6, FS_EmptySet
<1>8. PICK s, c, f : /\ s = Cutting!Step /\ c = Cutting!Windows(t)
                     /\ f = [i \in B |-> Cutting!Place(text, i)]
  OBVIOUS
<1>9. Placing(B, f, t)
  <2>1. \A i \in B : f[i] = Cutting!Place(text, i)
    BY <1>8
  <2>2. QED
    BY <1>6, <2>1 DEF Placing
<1>10. s \in Nat \ {0} /\ MaxTokens \in Nat /\ Overlap \in Nat /\ MaxTokens = s + Overlap
  BY <1>8, ChunkStep
<1>11. /\ c \in Nat \ {0}
       /\ \A w \in 1..c : (w - 1) * s \in Nat /\ (w - 1) * s < t
       /\ \A p \in 1..t : \E w \in 1..c : p - (w - 1) * s \in 1..MaxTokens
  BY <1>7, <1>8, ChunkWindows
<1>12. answer = [w \in 1..c |->
                  [type |-> 3, lines |-> {i \in B : f[i] - (w - 1) * s \in 1..MaxTokens}]]
  <2>1. Cutting!Cardinality(B) = t
    BY <1>5, ChunkCount
  <2>2. answer = [w \in 1..c |->
                   [type |-> 3,
                    lines |-> {i \in B : Cutting!Place(text, i) - (w - 1) * s \in 1..MaxTokens}]]
    BY <1>1, <1>5, <1>8, <2>1 DEF Cutting!FixedSize, Cutting!FullText
  <2>3. \A i \in B : f[i] = Cutting!Place(text, i)
    BY <1>8
  <2>4. \A w \in 1..c : {i \in B : Cutting!Place(text, i) - (w - 1) * s \in 1..MaxTokens}
                          = {i \in B : f[i] - (w - 1) * s \in 1..MaxTokens}
    BY <2>3
  <2>5. QED
    BY <2>2, <2>4
<1>13. /\ DOMAIN answer = 1..c
       /\ \A w \in 1..c : /\ answer[w].type = 3
                          /\ answer[w].lines = {i \in B : f[i] - (w - 1) * s \in 1..MaxTokens}
  BY <1>12
<1>14. ASSUME NEW w \in 1..c
       PROVE  /\ answer[w].lines # {} /\ Cardinality(answer[w].lines) <= MaxTokens
  <2>1. PICK a \in Nat : a = (w - 1) * s /\ a < t
    BY <1>11
  <2>2. PICK L : L = {i \in B : f[i] - a \in 1..MaxTokens} /\ answer[w].lines = L
    BY <1>13, <2>1
  <2>3. Cardinality(L) <= MaxTokens /\ L # {}
    <3>1. MaxTokens \in Nat /\ MaxTokens > 0 /\ a < t
      BY <1>10, <2>1
    <3>2. QED
      BY <1>9, <2>2, <3>1, ChunkStretch
  <2>4. QED
    BY <2>2, <2>3
<1>15. ASSUME NEW i \in B PROVE \E w \in 1..c : i \in answer[w].lines
  <2>1. PICK w \in 1..c : f[i] - (w - 1) * s \in 1..MaxTokens
    BY <1>9, <1>11 DEF Placing
  <2>2. QED
    BY <1>13, <2>1
<1>16. ASSUME NEW v \in 1..c, NEW w \in 1..c, w = v + 1
       PROVE  \/ Cardinality(answer[v].lines \cap answer[w].lines) = Overlap
              \/ answer[v].lines \cap answer[w].lines = answer[w].lines
  <2>1. PICK a \in Nat, e \in Nat : a = (v - 1) * s /\ e = (w - 1) * s /\ e = a + s
    <3>1. (v - 1) * s \in Nat /\ (w - 1) * s \in Nat
      BY <1>11
    <3>2. (w - 1) * s = (v - 1) * s + s
      BY <1>10, <1>11, <1>16
    <3>3. QED
      BY <3>1, <3>2
  <2>2. PICK S : S = {i \in B : f[i] - e \in 1..Overlap}
    OBVIOUS
  <2>3. /\ answer[v].lines = {i \in B : f[i] - a \in 1..MaxTokens}
        /\ answer[w].lines = {i \in B : f[i] - e \in 1..MaxTokens}
    BY <1>13, <2>1
  <2>4. ASSUME NEW i \in B
        PROVE  i \in answer[v].lines /\ i \in answer[w].lines <=> f[i] - e \in 1..Overlap
    <3>1. f[i] \in 1..t
      BY <1>9 DEF Placing
    <3>2. f[i] - a \in 1..MaxTokens /\ f[i] - e \in 1..MaxTokens <=> f[i] - e \in 1..Overlap
      BY <1>7, <1>10, <2>1, <3>1
    <3>3. QED
      BY <2>3, <3>2
  <2>5. answer[v].lines \cap answer[w].lines = S
    BY <2>2, <2>3, <2>4
  <2>6. CASE e + Overlap <= t
    <3>1. PICK m \in Nat : m = Overlap
      BY <1>10
    <3>2. S = {i \in B : f[i] - e \in 1..m} /\ e + m <= t
      BY <2>2, <2>6, <3>1
    <3>3. Cardinality(S) = m
      BY <1>9, <3>2, ChunkStretch
    <3>4. QED
      BY <2>5, <3>1, <3>3
  <2>7. CASE ~(e + Overlap <= t)
    <3>1. ASSUME NEW i \in answer[w].lines PROVE i \in S
      <4>1. i \in B /\ f[i] - e \in 1..MaxTokens /\ f[i] \in 1..t
        BY <1>9, <2>3 DEF Placing
      <4>2. f[i] - e \in 1..Overlap
        BY <1>7, <1>10, <2>1, <2>7, <4>1
      <4>3. QED
        BY <2>2, <4>1, <4>2
    <3>2. QED
      BY <2>5, <3>1
  <2>8. QED
    BY <2>6, <2>7
<1>17. words = {} \/ Cutting!Matches(text) = {}
  <2> SUFFICES ASSUME Cutting!Matches(text) # {}, NEW i \in words PROVE FALSE
    OBVIOUS
  <2>1. PICK m \in Headings(text) : i \in Cutting!Content(text, m)
    BY <1>2, <1>4, ChunkNearest
  <2>2. m \in Cutting!SplitBySections(text)
    BY <2>1 DEF Cutting!SplitBySections, Headings
  <2>3. QED
    BY <1>1, <2>2
<1>18. 1 \in 1..c
  BY <1>11
<1>19. \E w \in DOMAIN answer : answer[w].type = Cutting!FullText
  BY <1>13, <1>18 DEF Cutting!FullText
<1>20. \A i \in DOMAIN text :
         text[i] # "blank" => {w \in DOMAIN answer : i \in answer[w].lines} # {}
  <2> SUFFICES ASSUME NEW i \in DOMAIN text, text[i] # "blank"
               PROVE  \E w \in DOMAIN answer : i \in answer[w].lines
    OBVIOUS
  <2>1. i \in B
    BY <1>2, <1>6
  <2>2. QED
    BY <1>13, <1>15, <2>1
<1>21. /\ \A w \in DOMAIN answer : /\ answer[w].lines # {}
                                   /\ Cutting!Cardinality(answer[w].lines) <= MaxTokens
       /\ \A v, w \in DOMAIN answer :
            w = v + 1 => \/ Cutting!Cardinality(answer[v].lines \cap answer[w].lines) = Overlap
                         \/ answer[v].lines \cap answer[w].lines = answer[w].lines
  BY <1>13, <1>14, <1>16, ChunkCount
<1>22. QED
  BY <1>1, <1>2, <1>3, <1>17, <1>19, <1>20, <1>21 DEF Cutting!ChunksCoverText

LEMMA ChunksTell ==
    ASSUME answered =>
             \E text \in Cutting!Texts : question = text /\ answer = Cutting!Chunked(text)
    PROVE  Cutting!ChunksCoverText
<1>0. ~answered => Cutting!ChunksCoverText
  BY SMT DEF Cutting!ChunksCoverText
<1> SUFFICES ASSUME answered PROVE Cutting!ChunksCoverText
  BY <1>0
<1>1. PICK text \in Cutting!Texts : question = text /\ answer = Cutting!Chunked(text)
  OBVIOUS
<1>2. PICK n \in Nat : ChunkText(text, n)
  BY ChunkTexts
<1>3. CASE Cutting!NotBlank(text) = {}
  <2>1. answer = <<>> /\ DOMAIN answer = {}
    BY <1>1, <1>3 DEF Cutting!Chunked
  <2>2. Cutting!Words(question, 1, Len(question)) = {}
    BY <1>1, <1>2, <1>3 DEF Cutting!Words, Cutting!NotBlank, ChunkText
  <2>3. QED
    BY <2>1, <2>2 DEF Cutting!ChunksCoverText
<1>4. CASE Cutting!NotBlank(text) # {} /\ Cutting!SplitBySections(text) = {}
  <2>1. answer = Cutting!FixedSize(question)
    BY <1>1, <1>4 DEF Cutting!Chunked
  <2>2. QED
    BY <1>1, <1>2, <1>4, <2>1, ChunkFixed
<1>5. CASE Cutting!NotBlank(text) # {} /\ Cutting!SplitBySections(text) # {}
  <2>1. PICK split : split = Cutting!SplitBySections(question)
    OBVIOUS
  <2>2. answer = [m \in split |-> [type |-> m[2], lines |-> Cutting!Content(question, m)]]
    BY <1>1, <1>5, <2>1 DEF Cutting!Chunked
  <2>3. QED
    BY <1>1, <1>2, <1>5, <2>1, <2>2, ChunkSections
<1>6. QED
  BY <1>3, <1>4, <1>5

-----------------------------------------------------------------------------
\* The views of a user's outcomes: success_analytics.py.

LEMMA ViewsCount == \A S : Success!Cardinality(S) = Cardinality(S)
BY DEF Success!Cardinality, Cardinality

\* Members of ids, in groups of which each is in one and none is empty.
Grouping(G, ids) ==
    /\ IsFiniteSet(ids) /\ ids \subseteq Nat /\ IsFiniteSet(G)
    /\ \A g \in G : g.members \subseteq ids /\ g.members # {}
    /\ \A i \in ids : \E g \in G : i \in g.members
    /\ \A g, h \in G : g # h => g.members \cap h.members = {}

LEMMA ViewsGrouping ==
    ASSUME NEW ids, IsFiniteSet(ids), ids \subseteq Nat, NEW key
    PROVE  Grouping({[name |-> s, members |-> {i \in ids : key[i] = s}] : s \in {key[i] : i \in ids}}, ids)
<1>1. PICK G : G = {[name |-> s, members |-> {i \in ids : key[i] = s}] : s \in {key[i] : i \in ids}}
  OBVIOUS
<1>2. ASSUME NEW g \in G
      PROVE  \E k \in ids : g = [name |-> key[k], members |-> {i \in ids : key[i] = key[k]}]
  BY <1>1
<1>3. ASSUME NEW g \in G PROVE g.members \subseteq ids /\ g.members # {}
  BY <1>2
<1>4. ASSUME NEW i \in ids PROVE \E g \in G : i \in g.members
  <2>1. PICK g : g = [name |-> key[i], members |-> {k \in ids : key[k] = key[i]}]
    OBVIOUS
  <2>2. g \in G /\ i \in g.members
    BY <1>1, <2>1
  <2>3. QED
    BY <2>2
<1>5. ASSUME NEW g \in G, NEW h \in G, NEW i \in g.members, i \in h.members PROVE g = h
  <2>1. PICK a \in ids : g = [name |-> key[a], members |-> {k \in ids : key[k] = key[a]}]
    BY <1>2
  <2>2. PICK b \in ids : h = [name |-> key[b], members |-> {k \in ids : key[k] = key[b]}]
    BY <1>2
  <2>3. key[i] = key[a] /\ key[i] = key[b]
    BY <1>5, <2>1, <2>2
  <2>4. QED
    BY <2>1, <2>2, <2>3
<1>6. IsFiniteSet(G)
  <2>1. PICK f : f = [g \in G |-> CHOOSE i : i \in g.members]
    OBVIOUS
  <2>2. \A g \in G : f[g] \in g.members
    BY <1>3, <2>1
  <2>3. \A g \in G : f[g] \in ids
    BY <1>3, <2>2
  <2>4. \A g, h \in G : f[g] = f[h] => g = h
    BY <1>5, <2>2
  <2>5. QED
    BY <2>3, <2>4, OneEach
<1>7. \A g, h \in G : g # h => g.members \cap h.members = {}
  BY <1>5
<1>8. Grouping(G, ids)
  BY <1>3, <1>4, <1>6, <1>7 DEF Grouping
<1>9. QED
  BY <1>1, <1>8

\* What of P is in the groups adds up to P.
LEMMA ViewsSum ==
    ASSUME NEW G, NEW ids, Grouping(G, ids), NEW P \in SUBSET ids, NEW f,
           \A g \in G : f[g] = Cardinality(g.members \cap P)
    PROVE  Total(f, G) = Cardinality(P)
<1> DEFINE In(s) == {i \in P : \E g \in s : i \in g.members}
           Right(s) == Cardinality(In(s)) = Total(f, s)
           Bad == {n \in Nat : \E s \in SUBSET G : Cardinality(s) = n /\ ~Right(s)}
<1>1. /\ IsFiniteSet(P) /\ IsFiniteSet(G)
      /\ \A i \in ids : \E g \in G : i \in g.members
      /\ \A g, h \in G : g # h => g.members \cap h.members = {}
  BY FS_Subset DEF Grouping
<1>2. \A g \in G : IsFiniteSet(g.members \cap P) /\ f[g] \in Nat
  <2> SUFFICES ASSUME NEW g \in G PROVE IsFiniteSet(g.members \cap P) /\ f[g] \in Nat
    OBVIOUS
  <2>1. g.members \cap P \in SUBSET P
    OBVIOUS
  <2>2. IsFiniteSet(g.members \cap P)
    BY <1>1, <2>1, FS_Subset
  <2>3. QED
    BY <2>2, FS_CardinalityType
<1>3. 0 \notin Bad
  <2> SUFFICES ASSUME NEW s \in SUBSET G, Cardinality(s) = 0 PROVE Right(s)
    OBVIOUS
  <2>1. IsFiniteSet(s)
    BY <1>1, FS_Subset
  <2>2. s = {}
    BY <2>1, FS_EmptySet
  <2>3. In(s) = {}
    BY <2>2
  <2>4. QED
    BY <2>2, <2>3, FS_EmptySet, TotalEmpty
<1>4. ASSUME NEW n \in Nat, n \notin Bad PROVE n + 1 \notin Bad
  <2> SUFFICES ASSUME NEW s \in SUBSET G, Cardinality(s) = n + 1 PROVE Right(s)
    OBVIOUS
  <2>1. IsFiniteSet(s) /\ s # {}
    BY <1>1, FS_Subset, FS_EmptySet
  <2>2. PICK x \in s : TRUE
    BY <2>1
  <2>3. PICK r : r = s \ {x}
    OBVIOUS
  <2>4. r \in SUBSET G /\ Cardinality(r) = n
    BY <2>1, <2>3, FS_RemoveElement
  <2>5. Right(r)
    BY <1>4, <2>4
  <2>6. Total(f, s) = f[x] + Total(f, r)
    <3>1. \A g \in s : f[g] \in Nat
      BY <1>2
    <3>2. QED
      BY <2>1, <2>3, <3>1, TotalOne
  <2>7. PICK A, B : A = x.members \cap P /\ B = In(r)
    OBVIOUS
  <2>8. IsFiniteSet(A) /\ IsFiniteSet(B) /\ Cardinality(A) \in Nat /\ Cardinality(B) \in Nat
    <3>1. B \in SUBSET P
      BY <2>7
    <3>2. IsFiniteSet(A) /\ IsFiniteSet(B)
      BY <1>1, <1>2, <2>7, <3>1, FS_Subset
    <3>3. QED
      BY <3>2, FS_CardinalityType
  <2>9. In(s) = A \cup B
    BY <2>3, <2>7
  <2>10. A \cap B = {}
    <3> SUFFICES ASSUME NEW i \in A, i \in B PROVE FALSE
      OBVIOUS
    <3>1. PICK g \in r : i \in g.members
      BY <2>7
    <3>2. g # x /\ g \in G /\ x \in G /\ i \in x.members
      BY <2>3, <2>4, <2>7
    <3>3. QED
      BY <1>1, <3>1, <3>2
  <2>11. Cardinality(A \cup B) = Cardinality(A) + Cardinality(B)
    <3>1. Cardinality(A \cup B) = Cardinality(A) + Cardinality(B) - Cardinality(A \cap B)
      BY <2>8, FS_Union
    <3>2. Cardinality(A \cap B) = 0
      BY <2>10, FS_EmptySet
    <3>3. QED
      BY <2>8, <3>1, <3>2
  <2>12. QED
    BY <2>5, <2>6, <2>7, <2>9, <2>11
<1>5. Bad = {}
  <2>1. \A n \in Nat : n \notin Bad => n + 1 \notin Bad
    BY <1>4
  <2>2. Bad \subseteq Nat
    OBVIOUS
  <2> HIDE DEF Bad
  <2>3. QED
    BY <1>3, <2>1, <2>2, NoneIsFirst
<1>6. Right(G)
  <2>1. Cardinality(G) \in Nat /\ G \in SUBSET G
    BY <1>1, FS_CardinalityType
  <2>2. QED
    BY <1>5, <2>1
<1>7. In(G) = P
  BY <1>1
<1>8. QED
  BY <1>6, <1>7

\* A quotient no lower than another is so times any number; and one no lower than
\* one no lower than a third is no lower than the third.
LEMMA ViewsTimes ==
    ASSUME NEW x \in Nat, NEW y \in Nat, NEW d \in Nat \ {0}
    PROVE  /\ d * x <= d * y => x <= y
           /\ d * x < d * y => x < y
<1>1. ASSUME y < x PROVE d * y < d * x
  <2>1. d * (y + 1) <= d * x
    BY <1>1
  <2>2. d * (y + 1) = d * y + d
    OBVIOUS
  <2>3. d * y \in Nat /\ d * x \in Nat
    OBVIOUS
  <2>4. QED
    BY <2>1, <2>2, <2>3
<1>2. d * y \in Nat /\ d * x \in Nat
  OBVIOUS
<1>3. QED
  BY <1>1, <1>2

LEMMA ViewsRates ==
    ASSUME NEW a \in Nat, NEW b \in Nat \ {0}, NEW c \in Nat, NEW d \in Nat \ {0}, NEW e \in Nat,
           NEW f \in Nat \ {0}, c * b <= a * d, e * d <= c * f
    PROVE  /\ e * b <= a * f
           /\ c * b < a * d \/ e * d < c * f => e * b < a * f
<1>1. PICK x \in Nat, y \in Nat : x = e * b /\ y = a * f
  OBVIOUS
<1>2. d * x = (e * d) * b /\ d * y = (a * d) * f
  BY <1>1
<1>3. PICK p \in Nat, q \in Nat : p = (c * b) * f /\ q = (c * f) * b /\ p = q
  OBVIOUS
<1>4. (e * d) * b <= (c * f) * b /\ (c * b) * f <= (a * d) * f
  <2>1. PICK g \in Nat, h \in Nat, i \in Nat, j \in Nat : g = e * d /\ h = c * f /\ i = c * b /\ j = a * d
    OBVIOUS
  <2>2. g * b <= h * b /\ i * f <= j * f
    BY <2>1
  <2>3. QED
    BY <2>1, <2>2
<1>5. ASSUME c * b < a * d PROVE (c * b) * f < (a * d) * f
  <2>1. PICK i \in Nat, j \in Nat : i = c * b /\ j = a * d
    OBVIOUS
  <2>2. f * i < f * j
    <3>1. f * (i + 1) <= f * j /\ f * (i + 1) = f * i + f
      BY <1>5, <2>1
    <3>2. f * i \in Nat /\ f * j \in Nat
      OBVIOUS
    <3>3. QED
      BY <3>1, <3>2
  <2>3. QED
    BY <2>1, <2>2
<1>6. ASSUME e * d < c * f PROVE (e * d) * b < (c * f) * b
  <2>1. PICK i \in Nat, j \in Nat : i = e * d /\ j = c * f
    OBVIOUS
  <2>2. b * i < b * j
    <3>1. b * (i + 1) <= b * j /\ b * (i + 1) = b * i + b
      BY <1>6, <2>1
    <3>2. b * i \in Nat /\ b * j \in Nat
      OBVIOUS
    <3>3. QED
      BY <3>1, <3>2
  <2>3. QED
    BY <2>1, <2>2
<1>7. PICK u \in Nat, v \in Nat : u = d * x /\ v = d * y
  OBVIOUS
<1>8. u <= v /\ (c * b < a * d \/ e * d < c * f => u < v)
  <2>1. PICK g \in Nat, h \in Nat : g = (e * d) * b /\ h = (a * d) * f
    OBVIOUS
  <2>2. u = g /\ v = h /\ g <= q /\ p <= h
    BY <1>2, <1>3, <1>4, <1>7, <2>1
  <2>3. c * b < a * d => p < h
    BY <1>3, <1>5, <2>1
  <2>4. e * d < c * f => g < q
    BY <1>3, <1>6, <2>1
  <2>5. QED
    BY <1>3, <2>2, <2>3, <2>4
<1>9. QED
  BY <1>1, <1>7, <1>8, ViewsTimes

\* Who of the trackers q responded; the groups of q.
Answered(q, ids) == {i \in ids : q[i].status \in Success!Responded}

LEMMA ViewsRate ==
    \A q, ids, statuses :
      LET rate == Success!Rate(q, ids, statuses)
      IN  /\ rate.count = Cardinality({i \in ids : q[i].status \in statuses})
          /\ rate.total = Cardinality(ids)
BY ViewsCount DEF Success!Rate

LEMMA ViewsMember ==
    ASSUME NEW q, NEW ids, NEW G, Grouping(G, ids), NEW g \in G, NEW rate,
           rate = Success!Rate(q, g.members, Success!Responded), NEW m, m = Success!Min(g.members)
    PROVE  /\ rate.count \in Nat /\ rate.total \in Nat \ {0} /\ m \in Nat /\ m \in g.members
           /\ rate.count = Cardinality(Answered(q, g.members)) /\ rate.total = Cardinality(g.members)
<1>1. IsFiniteSet(g.members) /\ g.members \subseteq Nat /\ g.members # {}
  <2>1. g.members \in SUBSET ids /\ IsFiniteSet(ids) /\ ids \subseteq Nat /\ g.members # {}
    BY DEF Grouping
  <2>2. QED
    BY <2>1, FS_Subset
<1>2. rate.count = Cardinality(Answered(q, g.members)) /\ rate.total = Cardinality(g.members)
  BY ViewsRate DEF Answered
<1>3. rate.count \in Nat /\ rate.total \in Nat \ {0}
  <2>1. Answered(q, g.members) \in SUBSET g.members
    BY DEF Answered
  <2>2. IsFiniteSet(Answered(q, g.members))
    BY <1>1, <2>1, FS_Subset
  <2>3. QED
    BY <1>1, <1>2, <2>2, FS_CardinalityType, FS_EmptySet
<1>4. m \in g.members
  <2>1. PICK k \in g.members : \A i \in g.members : k <= i
    BY <1>1, MinNat
  <2>2. \E x \in g.members : \A y \in g.members : y >= x
    BY <1>1, <2>1
  <2>3. QED
    BY <2>2 DEF Success!Min
<1>5. QED
  BY <1>1, <1>2, <1>3, <1>4

\* Groups are strictly and totally ordered.
LEMMA ViewsOrder ==
    ASSUME NEW q, NEW ids, NEW G, Grouping(G, ids)
    PROVE  /\ \A g \in G : ~Success!Ahead(q, g, g)
           /\ \A g, h \in G : g # h => Success!Ahead(q, g, h) \/ Success!Ahead(q, h, g)
           /\ \A g, h, k \in G :
                Success!Ahead(q, g, h) /\ Success!Ahead(q, h, k) => Success!Ahead(q, g, k)
<1>1. PICK c, t, m : /\ c = [g \in G |-> Success!Rate(q, g.members, Success!Responded).count]
                     /\ t = [g \in G |-> Success!Rate(q, g.members, Success!Responded).total]
                     /\ m = [g \in G |-> Success!Min(g.members)]
  OBVIOUS
<1>2. ASSUME NEW g \in G PROVE c[g] \in Nat /\ t[g] \in Nat \ {0} /\ m[g] \in Nat /\ m[g] \in g.members
  BY <1>1, ViewsMember
<1>3. ASSUME NEW g \in G, NEW h \in G
      PROVE  Success!Ahead(q, g, h) <=>
               c[g] * t[h] > c[h] * t[g] \/ (~(c[h] * t[g] > c[g] * t[h]) /\ m[g] < m[h])
  BY <1>1, Zenon DEF Success!Ahead, Success!Higher
<1>4. ASSUME NEW g \in G, NEW h \in G, g # h PROVE m[g] # m[h]
  <2>1. g.members \cap h.members = {}
    BY <1>4 DEF Grouping
  <2>2. QED
    BY <1>2, <2>1
<1>5. \A g \in G : ~Success!Ahead(q, g, g)
  <2> SUFFICES ASSUME NEW g \in G PROVE ~Success!Ahead(q, g, g)
    OBVIOUS
  <2>1. PICK x \in Nat : x = c[g] * t[g]
    BY <1>2
  <2>2. QED
    BY <1>2, <1>3, <2>1
<1>6. \A g, h \in G : g # h => Success!Ahead(q, g, h) \/ Success!Ahead(q, h, g)
  <2> SUFFICES ASSUME NEW g \in G, NEW h \in G, g # h
               PROVE  Success!Ahead(q, g, h) \/ Success!Ahead(q, h, g)
    OBVIOUS
  <2>1. PICK x \in Nat, y \in Nat : x = c[g] * t[h] /\ y = c[h] * t[g]
    BY <1>2
  <2>2. m[g] < m[h] \/ m[h] < m[g]
    BY <1>2, <1>4
  <2>3. Success!Ahead(q, g, h) <=> x > y \/ (~(y > x) /\ m[g] < m[h])
    BY <1>3, <2>1
  <2>4. Success!Ahead(q, h, g) <=> y > x \/ (~(x > y) /\ m[h] < m[g])
    BY <1>3, <2>1
  <2>5. QED
    BY <2>2, <2>3, <2>4
<1>7. ASSUME NEW g \in G, NEW h \in G, NEW k \in G, Success!Ahead(q, g, h), Success!Ahead(q, h, k)
      PROVE  Success!Ahead(q, g, k)
  <2>1. /\ c[g] \in Nat /\ c[h] \in Nat /\ c[k] \in Nat
        /\ t[g] \in Nat \ {0} /\ t[h] \in Nat \ {0} /\ t[k] \in Nat \ {0}
        /\ m[g] \in Nat /\ m[h] \in Nat /\ m[k] \in Nat
    BY <1>2
  <2>2. PICK x \in Nat, y \in Nat : x = c[g] * t[h] /\ y = c[h] * t[g]
    BY <2>1
  <2>9. PICK u \in Nat, v \in Nat : u = c[h] * t[k] /\ v = c[k] * t[h]
    BY <2>1
  <2>10. PICK i \in Nat, j \in Nat : i = c[g] * t[k] /\ j = c[k] * t[g]
    BY <2>1
  <2>3. x > y \/ (~(y > x) /\ m[g] < m[h])
    BY <1>3, <1>7, <2>2
  <2>4. u > v \/ (~(v > u) /\ m[h] < m[k])
    BY <1>3, <1>7, <2>9
  <2>5. y <= x /\ v <= u
    BY <2>3, <2>4
  <2>6. j <= i /\ (y < x \/ v < u => j < i)
    BY <2>1, <2>2, <2>5, <2>9, <2>10, ViewsRates
  <2>7. i > j \/ (~(j > i) /\ m[g] < m[k])
    BY <2>1, <2>3, <2>4, <2>6
  <2>8. QED
    BY <1>3, <2>7, <2>10
<1>8. QED
  BY <1>5, <1>6, <1>7

\* In a strict total order, of which b tells who comes before a member, the number
\* of these is the member's place, from 0, and every place is taken.
LEMMA ViewsPlaces ==
    ASSUME NEW G, IsFiniteSet(G), NEW n \in Nat, n = Cardinality(G), NEW b, NEW f,
           \A g \in G : b[g] \subseteq G /\ g \notin b[g] /\ f[g] = Cardinality(b[g]),
           \A g, h \in G : g # h => g \in b[h] \/ h \in b[g],
           \A g, h, k \in G : g \in b[h] /\ h \in b[k] => g \in b[k]
    PROVE  /\ \A g, h \in G : f[g] < f[h] <=> g \in b[h]
           /\ \A p \in 1..n : \E g \in G : f[g] = p - 1
           /\ \A g \in G : f[g] \in 0..(n - 1)
           /\ \A g, h \in G : f[g] = f[h] => g = h
<1>1. ASSUME NEW g \in G
      PROVE  IsFiniteSet(b[g]) /\ f[g] \in Nat /\ IsFiniteSet(b[g] \cup {g}) /\ Cardinality(b[g] \cup {g}) = f[g] + 1
  <2>1. b[g] \in SUBSET G
    OBVIOUS
  <2>2. IsFiniteSet(b[g])
    BY <2>1, FS_Subset
  <2>3. QED
    BY <2>2, FS_CardinalityType, FS_AddElement
<1>2. ASSUME NEW g \in G, NEW h \in G, g \in b[h] PROVE f[g] < f[h]
  <2>1. b[g] \cup {g} \in SUBSET b[h]
    BY <1>2
  <2>2. Cardinality(b[g] \cup {g}) <= Cardinality(b[h])
    BY <1>1, <2>1, FS_Subset
  <2>3. PICK x \in Nat, y \in Nat : x = f[g] /\ y = f[h]
    BY <1>1
  <2>4. x + 1 <= y
    BY <1>1, <2>2, <2>3
  <2>5. QED
    BY ONLY <2>3, <2>4
<1>0. \A g \in G : f[g] \in Nat
  BY <1>1
<1>3. ASSUME NEW g \in G PROVE f[g] < n
  <2>1. b[g] \cup {g} \in SUBSET G
    OBVIOUS
  <2>2. Cardinality(b[g] \cup {g}) <= n
    BY <2>1, FS_Subset
  <2>3. QED
    BY <1>1, <2>2
<1>4. \A g, h \in G : f[g] < f[h] <=> g \in b[h]
  <2> SUFFICES ASSUME NEW g \in G, NEW h \in G, f[g] < f[h] PROVE g \in b[h]
    BY <1>2
  <2>1. g # h /\ ~(f[h] < f[g])
    <3>1. PICK x \in Nat, y \in Nat : x = f[g] /\ y = f[h]
      BY <1>0
    <3>2. x < y
      BY <3>1
    <3>3. x # y /\ ~(y < x)
      BY ONLY <3>1, <3>2
    <3>4. QED
      BY <3>1, <3>3
  <2>2. QED
    BY <1>2, <2>1
<1>5. \A g, h \in G : f[g] = f[h] => g = h
  <2> SUFFICES ASSUME NEW g \in G, NEW h \in G, f[g] = f[h], g # h PROVE FALSE
    OBVIOUS
  <2>1. f[g] < f[h] \/ f[h] < f[g]
    BY <1>2
  <2>2. PICK x \in Nat, y \in Nat : x = f[g] /\ y = f[h]
    BY <1>0
  <2>3. (x < y \/ y < x) /\ x = y
    BY <2>1, <2>2
  <2>4. QED
    BY ONLY <2>2, <2>3
<1>6. \A g \in G : f[g] \in 0..(n - 1)
  <2> SUFFICES ASSUME NEW g \in G PROVE f[g] \in 0..(n - 1)
    OBVIOUS
  <2>1. PICK x \in Nat : x = f[g]
    BY <1>0
  <2>2. x < n
    BY <1>3, <2>1
  <2>3. x \in 0..(n - 1)
    BY ONLY <2>1, <2>2, n \in Nat
  <2>4. QED
    BY <2>1, <2>3
<1>7. \A p \in 1..n : \E g \in G : f[g] = p - 1
  <2>1. PICK e : e = [g \in G |-> f[g] + 1]
    OBVIOUS
  <2>2. \A g \in G : e[g] \in 1..n
    <3> SUFFICES ASSUME NEW g \in G PROVE e[g] \in 1..n
      OBVIOUS
    <3>1. PICK x \in Nat : x = f[g]
      BY <1>0
    <3>2. x \in 0..(n - 1) /\ e[g] = x + 1
      BY <1>6, <2>1, <3>1
    <3>3. x + 1 \in 1..n
      BY ONLY <3>1, <3>2, n \in Nat
    <3>4. QED
      BY <3>2, <3>3
  <2>3. \A g, h \in G : e[g] = e[h] => g = h
    <3> SUFFICES ASSUME NEW g \in G, NEW h \in G, e[g] = e[h] PROVE g = h
      OBVIOUS
    <3>1. PICK x \in Nat, y \in Nat : x = f[g] /\ y = f[h]
      BY <1>0
    <3>2. x + 1 = y + 1
      BY <2>1, <3>1
    <3>3. x = y
      BY ONLY <3>1, <3>2
    <3>4. QED
      BY <1>5, <3>1, <3>3
  <2>4. \A p \in 1..n : \E g \in G : e[g] = p
    BY <2>2, <2>3, AllPlaces
  <2>5. ASSUME NEW p \in 1..n PROVE \E g \in G : f[g] = p - 1
    <3>1. PICK g \in G : e[g] = p
      BY <2>4
    <3>2. PICK x \in Nat : x = f[g]
      BY <1>0
    <3>3. x + 1 = p
      BY <2>1, <3>1, <3>2
    <3>4. x = p - 1
      BY ONLY <3>2, <3>3
    <3>5. QED
      BY <3>2, <3>4
  <2>6. QED
    BY <2>5
<1>8. QED
  BY <1>4, <1>5, <1>6, <1>7

\* A ranking holds every group once, those ahead first.
Ranking(r, q, G) ==
    /\ Cardinality(G) \in Nat /\ DOMAIN r = 1..Cardinality(G) /\ r \in [1..Cardinality(G) -> G]
    /\ \A i \in DOMAIN r : r[i] \in G
    /\ \A g \in G : \E i \in DOMAIN r : r[i] = g
    /\ \A i, k \in DOMAIN r : i < k <=> Success!Ahead(q, r[i], r[k])

LEMMA ViewsRanked ==
    ASSUME NEW q, NEW ids, NEW G, Grouping(G, ids)
    PROVE  Ranking(Success!Ranked(q, G), q, G)
<1>1. PICK b : b = [g \in G |-> {h \in G : Success!Ahead(q, h, g)}]
  OBVIOUS
<1>2. PICK f : f = [g \in G |-> Cardinality(b[g])]
  OBVIOUS
<1>3. PICK n : n = Cardinality(G)
  OBVIOUS
<1>4. IsFiniteSet(G) /\ n \in Nat
  BY <1>3, FS_CardinalityType DEF Grouping
<1>5. /\ \A g \in G : b[g] \subseteq G /\ g \notin b[g] /\ f[g] = Cardinality(b[g])
      /\ \A g, h \in G : g # h => g \in b[h] \/ h \in b[g]
      /\ \A g, h, k \in G : g \in b[h] /\ h \in b[k] => g \in b[k]
  <2>1. \A g \in G : b[g] \subseteq G /\ g \notin b[g] /\ f[g] = Cardinality(b[g])
    BY <1>1, <1>2, ViewsOrder
  <2>2. \A g, h \in G : g \in b[h] <=> Success!Ahead(q, g, h)
    BY <1>1
  <2>3. QED
    BY <2>1, <2>2, ViewsOrder
<1>6. /\ \A g, h \in G : f[g] < f[h] <=> g \in b[h]
      /\ \A p \in 1..n : \E g \in G : f[g] = p - 1
      /\ \A g \in G : f[g] \in 0..(n - 1)
      /\ \A g, h \in G : f[g] = f[h] => g = h
  BY <1>3, <1>4, <1>5, ViewsPlaces
<1>7. PICK r : r = Success!Ranked(q, G)
  OBVIOUS
<1>8. r = [i \in 1..n |-> CHOOSE g \in G : f[g] = i - 1]
  <2>1. Success!Ranked(q, G)
          = [i \in 1..n |-> CHOOSE g \in G : Cardinality({h \in G : Success!Ahead(q, h, g)}) = i - 1]
    BY <1>3, Zenon DEF Success!Ranked, Success!Cardinality, Cardinality
  <2>2. \A g \in G : f[g] = Cardinality({h \in G : Success!Ahead(q, h, g)})
    BY <1>1, <1>2
  <2>3. ASSUME NEW i \in 1..n
        PROVE  (CHOOSE g \in G : Cardinality({h \in G : Success!Ahead(q, h, g)}) = i - 1)
                 = CHOOSE g \in G : f[g] = i - 1
    BY <2>2, Zenon
  <2>4. QED
    BY <1>7, <2>1, <2>3, Zenon
<1>9. \A i \in 1..n : r[i] \in G /\ f[r[i]] = i - 1
  <2> SUFFICES ASSUME NEW i \in 1..n PROVE r[i] \in G /\ f[r[i]] = i - 1
    OBVIOUS
  <2>1. r[i] = CHOOSE g \in G : f[g] = i - 1
    BY <1>8
  <2>2. \E g \in G : f[g] = i - 1
    BY <1>6
  <2>3. QED
    BY <2>1, <2>2
<1>10. DOMAIN r = 1..n
  BY <1>8
<1>11. \A g \in G : \E i \in 1..n : r[i] = g
  <2> SUFFICES ASSUME NEW g \in G PROVE \E i \in 1..n : r[i] = g
    OBVIOUS
  <2>1. PICK i : i = f[g] + 1
    OBVIOUS
  <2>2. f[g] \in 0..(n - 1)
    BY <1>6
  <2>3. i \in 1..n /\ f[g] = i - 1
    BY <1>4, <2>1, <2>2
  <2>4. r[i] \in G /\ f[r[i]] = f[g]
    BY <1>9, <2>3
  <2>5. QED
    BY <1>6, <2>3, <2>4
<1>12. ASSUME NEW i \in 1..n, NEW k \in 1..n PROVE i < k <=> Success!Ahead(q, r[i], r[k])
  <2>1. PICK g \in G : g = r[i] /\ f[g] = i - 1
    BY <1>9
  <2>2. PICK h \in G : h = r[k] /\ f[h] = k - 1
    BY <1>9
  <2>3. i < k <=> f[g] < f[h]
    BY <2>1, <2>2
  <2>4. f[g] < f[h] <=> g \in b[h]
    BY <1>6
  <2>5. g \in b[h] <=> Success!Ahead(q, g, h)
    BY <1>1
  <2>6. QED
    BY <2>1, <2>2, <2>3, <2>4, <2>5
<1>13. r \in [1..n -> G]
  BY <1>8, <1>9
<1>14. Ranking(r, q, G)
  BY <1>3, <1>4, <1>9, <1>10, <1>11, <1>12, <1>13 DEF Ranking
<1>15. QED
  BY <1>7, <1>14

\* What a ranking of groups holds is what they group.
LEMMA ViewsPartition ==
    ASSUME NEW q, NEW ids, NEW G, Grouping(G, ids), NEW r, Ranking(r, q, G)
    PROVE  Success!Partition(r, ids)
<1>1. UNION {r[i].members : i \in DOMAIN r} = ids
  <2>1. ASSUME NEW i \in DOMAIN r PROVE r[i].members \subseteq ids
    BY DEF Ranking, Grouping
  <2>2. ASSUME NEW x \in ids PROVE \E i \in DOMAIN r : x \in r[i].members
    <3>1. PICK g \in G : x \in g.members
      BY DEF Grouping
    <3>2. PICK i \in DOMAIN r : r[i] = g
      BY DEF Ranking
    <3>3. QED
      BY <3>1, <3>2
  <2>3. QED
    BY <2>1, <2>2
<1>2. ASSUME NEW i \in DOMAIN r, NEW k \in DOMAIN r, i # k PROVE r[i].members \cap r[k].members = {}
  <2>1. r[i] \in G /\ r[k] \in G
    BY DEF Ranking
  <2>2. r[i] # r[k]
    <3>1. i < k \/ k < i
      BY <1>2 DEF Ranking
    <3>2. Success!Ahead(q, r[i], r[k]) \/ Success!Ahead(q, r[k], r[i])
      BY <3>1 DEF Ranking
    <3>3. QED
      BY <2>1, <3>2, ViewsOrder
  <2>3. QED
    BY <2>1, <2>2 DEF Grouping
<1>3. QED
  BY <1>1, <1>2 DEF Success!Partition

\* If no member has more of the one than a to b of the other, neither have all of
\* them together; nor less, if none has less.
LEMMA ViewsTogether ==
    ASSUME NEW G, IsFiniteSet(G), NEW c, NEW t, \A g \in G : c[g] \in Nat /\ t[g] \in Nat,
           NEW a \in Nat, NEW b \in Nat
    PROVE  /\ (\A g \in G : c[g] * b <= a * t[g]) => Total(c, G) * b <= a * Total(t, G)
           /\ (\A g \in G : a * t[g] <= c[g] * b) => a * Total(t, G) <= Total(c, G) * b
<1>1. PICK x, y : x = [g \in G |-> b * c[g]] /\ y = [g \in G |-> a * t[g]]
  OBVIOUS
<1>2. ASSUME NEW g \in G PROVE x[g] \in Nat /\ y[g] \in Nat /\ x[g] = b * c[g] /\ x[g] = c[g] * b /\ y[g] = a * t[g]
  <2>1. PICK i \in Nat, k \in Nat : i = c[g] /\ k = t[g]
    OBVIOUS
  <2>2. b * i \in Nat /\ a * k \in Nat /\ b * i = i * b
    BY ONLY <2>1, a \in Nat, b \in Nat
  <2>3. x[g] = b * i /\ y[g] = a * k
    BY <1>1, <2>1
  <2>4. QED
    BY <2>1, <2>2, <2>3
<1>3. Total(x, G) = b * Total(c, G) /\ Total(y, G) = a * Total(t, G)
  <2>1. \A g \in G : c[g] \in Nat /\ x[g] = b * c[g]
    BY <1>2
  <2>2. \A g \in G : t[g] \in Nat /\ y[g] = a * t[g]
    BY <1>2
  <2>3. Total(x, G) = b * Total(c, G)
    BY <2>1, TotalTimes
  <2>4. Total(y, G) = a * Total(t, G)
    BY <2>2, TotalTimes
  <2>5. QED
    BY <2>3, <2>4
<1>4. PICK C \in Nat, T \in Nat : C = Total(c, G) /\ T = Total(t, G)
  BY TotalType
<1>5. ASSUME \A g \in G : c[g] * b <= a * t[g] PROVE Total(x, G) <= Total(y, G)
  <2>1. \A g \in G : x[g] \in Nat /\ x[g] <= y[g]
    BY <1>2, <1>5
  <2>2. \A g \in G : y[g] \in Nat
    BY <1>2
  <2>3. G \in SUBSET G
    OBVIOUS
  <2>4. QED
    BY <2>1, <2>2, <2>3, TotalLess
<1>6. ASSUME \A g \in G : a * t[g] <= c[g] * b PROVE Total(y, G) <= Total(x, G)
  <2>1. \A g \in G : y[g] \in Nat /\ y[g] <= x[g]
    BY <1>2, <1>6
  <2>2. \A g \in G : x[g] \in Nat
    BY <1>2
  <2>3. G \in SUBSET G
    OBVIOUS
  <2>4. QED
    BY <2>1, <2>2, <2>3, TotalLess
<1>7. b * C = C * b
  BY ONLY <1>4, b \in Nat
<1>8. QED
  BY <1>3, <1>4, <1>5, <1>6, <1>7

\* The first group of a ranking responds no less than all that it groups, the last
\* no more.
LEMMA ViewsExtremes ==
    ASSUME NEW q, NEW ids, NEW G, Grouping(G, ids), NEW r, Ranking(r, q, G),
           NEW i \in DOMAIN r, NEW g, g = r[i],
           NEW all, all = Success!Rate(q, ids, Success!Responded),
           NEW rate, rate = Success!Rate(q, g.members, Success!Responded)
    PROVE  /\ i = 1 => ~Success!Higher(all, rate)
           /\ i = Cardinality(G) => ~Success!Higher(rate, all)
<1>1. PICK c, t, m : /\ c = [h \in G |-> Success!Rate(q, h.members, Success!Responded).count]
                     /\ t = [h \in G |-> Success!Rate(q, h.members, Success!Responded).total]
                     /\ m = [h \in G |-> Success!Min(h.members)]
  OBVIOUS
<1>2. ASSUME NEW h \in G PROVE c[h] \in Nat /\ t[h] \in Nat /\ m[h] \in Nat
  BY <1>1, ViewsMember
<1>3. ASSUME NEW h \in G
      PROVE  c[h] = Cardinality(h.members \cap Answered(q, ids)) /\ t[h] = Cardinality(h.members \cap ids)
  <2>1. h.members \subseteq ids
    BY DEF Grouping
  <2>2. h.members \cap ids = h.members /\ h.members \cap Answered(q, ids) = Answered(q, h.members)
    BY <2>1 DEF Answered
  <2>3. QED
    BY <1>1, <2>2, ViewsMember
<1>4. IsFiniteSet(G) /\ g \in G /\ Cardinality(G) \in Nat /\ DOMAIN r = 1..Cardinality(G)
  BY DEF Grouping, Ranking
<1>5. Total(c, G) = all.count /\ Total(t, G) = all.total
  <2>1. Answered(q, ids) \in SUBSET ids /\ ids \in SUBSET ids
    BY DEF Answered
  <2>2. \A h \in G : c[h] = Cardinality(h.members \cap Answered(q, ids))
    BY <1>3
  <2>3. \A h \in G : t[h] = Cardinality(h.members \cap ids)
    BY <1>3
  <2>4. Total(c, G) = Cardinality(Answered(q, ids))
    BY <2>1, <2>2, ViewsSum
  <2>5. Total(t, G) = Cardinality(ids)
    BY <2>1, <2>3, ViewsSum
  <2>6. QED
    BY <2>4, <2>5, ViewsRate DEF Answered
<1>6. rate.count = c[g] /\ rate.total = t[g]
  BY <1>1, <1>4
<1>7. ASSUME NEW h \in G, NEW k \in G, Success!Ahead(q, h, k) PROVE c[k] * t[h] <= c[h] * t[k]
  <2>1. c[h] * t[k] > c[k] * t[h] \/ ~(c[k] * t[h] > c[h] * t[k])
    BY <1>1, <1>7, Zenon DEF Success!Ahead, Success!Higher
  <2>2. PICK x \in Nat, y \in Nat : x = c[h] * t[k] /\ y = c[k] * t[h]
    BY <1>2
  <2>3. QED
    BY <2>1, <2>2
<1>8. \A h \in G : h = g \/ \E k \in DOMAIN r : k # i /\ r[k] = h
  BY DEF Ranking
<1>9. PICK a \in Nat, b \in Nat : a = c[g] /\ b = t[g]
  BY <1>2, <1>4
<1>10. Total(c, G) \in Nat /\ Total(t, G) \in Nat
  BY <1>2, <1>4, TotalType
<1>11. ASSUME i = 1 PROVE ~Success!Higher(all, rate)
  <2>1. ASSUME NEW h \in G PROVE c[h] * b <= a * t[h]
    <3>1. CASE h = g
      <4>1. a * b <= a * b
        BY ONLY <1>9
      <4>2. QED
        BY <1>9, <3>1, <4>1
    <3>2. CASE h # g
      <4>1. PICK k \in DOMAIN r : k # i /\ r[k] = h
        BY <1>8, <3>2
      <4>2. i < k
        BY <1>4, <1>11, <4>1
      <4>3. Success!Ahead(q, g, h)
        BY <4>1, <4>2 DEF Ranking
      <4>4. QED
        BY <1>4, <1>7, <1>9, <4>3
    <3>3. QED
      BY <3>1, <3>2
  <2>2. Total(c, G) * b <= a * Total(t, G)
    BY <1>2, <1>4, <2>1, ViewsTogether
  <2>3. all.count * rate.total <= rate.count * all.total
    BY <1>5, <1>6, <1>9, <2>2
  <2>4. PICK x \in Nat, y \in Nat : x = all.count * rate.total /\ y = rate.count * all.total
    BY <1>5, <1>6, <1>9, <1>10
  <2>5. QED
    BY <2>3, <2>4 DEF Success!Higher
<1>12. ASSUME i = Cardinality(G) PROVE ~Success!Higher(rate, all)
  <2>1. ASSUME NEW h \in G PROVE a * t[h] <= c[h] * b
    <3>1. CASE h = g
      <4>1. a * b <= a * b
        BY ONLY <1>9
      <4>2. QED
        BY <1>9, <3>1, <4>1
    <3>2. CASE h # g
      <4>1. PICK k \in DOMAIN r : k # i /\ r[k] = h
        BY <1>8, <3>2
      <4>2. k < i
        BY <1>4, <1>12, <4>1
      <4>3. Success!Ahead(q, h, g)
        BY <4>1, <4>2 DEF Ranking
      <4>4. QED
        BY <1>4, <1>7, <1>9, <4>3
    <3>3. QED
      BY <3>1, <3>2
  <2>2. a * Total(t, G) <= Total(c, G) * b
    BY <1>2, <1>4, <2>1, ViewsTogether
  <2>3. rate.count * all.total <= all.count * rate.total
    BY <1>5, <1>6, <1>9, <2>2
  <2>4. PICK x \in Nat, y \in Nat : x = all.count * rate.total /\ y = rate.count * all.total
    BY <1>5, <1>6, <1>9, <1>10
  <2>5. QED
    BY <2>3, <2>4 DEF Success!Higher
<1>13. QED
  BY <1>11, <1>12

LEMMA ViewsQuestion ==
    ASSUME NEW q \in Success!Questions
    PROVE  IsFiniteSet(DOMAIN q) /\ DOMAIN q \subseteq Nat
<1>1. PICK n \in 0..MaxTrackers : q \in [1..n -> Success!Tracker]
  BY DEF Success!Questions
<1>2. DOMAIN q = 1..n /\ n \in Nat
  BY <1>1, TrackersAssumption
<1>3. QED
  BY <1>2, FS_Interval

LEMMA ViewsGroups ==
    ASSUME NEW q \in Success!Questions, NEW ids \in SUBSET DOMAIN q
    PROVE  Grouping(Success!Groups(q, ids), ids)
<1>1. IsFiniteSet(ids) /\ ids \subseteq Nat
  BY ViewsQuestion, FS_Subset
<1>2. PICK key : key = [i \in ids |-> q[i].strategy]
  OBVIOUS
<1>3. \A i \in ids : key[i] = q[i].strategy
  BY <1>2
<1>4. Grouping({[name |-> s, members |-> {i \in ids : key[i] = s}] : s \in {key[i] : i \in ids}}, ids)
  BY <1>1, ViewsGrouping
<1>5. {[name |-> s, members |-> {i \in ids : key[i] = s}] : s \in {key[i] : i \in ids}} = Success!Groups(q, ids)
  BY <1>3 DEF Success!Groups
<1>6. QED
  BY <1>4, <1>5

\* The windows of the day hold every tracker with a time once.
LEMMA ViewsWindows ==
    ASSUME NEW q \in Success!Questions
    PROVE  Success!Partition(Success!Windows(q), Success!Timed(q))
<1>1. PICK ids : ids = Success!Timed(q)
  OBVIOUS
<1>2. IsFiniteSet(ids) /\ ids \subseteq Nat
  <2>1. ids \in SUBSET DOMAIN q
    BY <1>1 DEF Success!Timed
  <2>2. QED
    BY <2>1, ViewsQuestion, FS_Subset
<1>3. PICK key : key = [i \in ids |-> Success!TimeBucket(q[i].hour)]
  OBVIOUS
<1>4. \A i \in ids : key[i] = Success!TimeBucket(q[i].hour)
  BY <1>3
<1>5. PICK G : G = {[name |-> s, members |-> {i \in ids : key[i] = s}] : s \in {key[i] : i \in ids}}
  OBVIOUS
<1>6. Grouping(G, ids)
  BY <1>2, <1>5, ViewsGrouping
<1>7. G = {[name |-> b, members |-> {i \in ids : Success!TimeBucket(q[i].hour) = b}]
             : b \in {Success!TimeBucket(q[i].hour) : i \in ids}}
  BY <1>4, <1>5
<1>8. Success!Windows(q) = Success!Ranked(q, G)
  BY <1>1, <1>7 DEF Success!Windows
<1>9. Ranking(Success!Windows(q), q, G)
  BY <1>6, <1>8, ViewsRanked
<1>10. QED
  BY <1>1, <1>6, <1>9, ViewsPartition

\* The strategies are the versions that have a name.
LEMMA ViewsStrategies ==
    ASSUME NEW q, NEW G, NEW H, G = Success!Groups(q, DOMAIN q), H = Success!Groups(q, Success!Named(q))
    PROVE  H = {g \in G : g.name # ""}
<1>1. ASSUME NEW h \in H PROVE h \in G /\ h.name # ""
  <2>1. PICK k \in Success!Named(q) :
          h = [name |-> q[k].strategy,
               members |-> {i \in Success!Named(q) : q[i].strategy = q[k].strategy}]
    BY DEF Success!Groups
  <2>2. k \in DOMAIN q /\ q[k].strategy # ""
    BY DEF Success!Named
  <2>3. {i \in Success!Named(q) : q[i].strategy = q[k].strategy}
          = {i \in DOMAIN q : q[i].strategy = q[k].strategy}
    BY <2>2 DEF Success!Named
  <2>4. h = [name |-> q[k].strategy, members |-> {i \in DOMAIN q : q[i].strategy = q[k].strategy}]
    BY <2>1, <2>3
  <2>5. QED
    BY <2>2, <2>4 DEF Success!Groups
<1>2. ASSUME NEW g \in G, g.name # "" PROVE g \in H
  <2>1. PICK k \in DOMAIN q :
          g = [name |-> q[k].strategy, members |-> {i \in DOMAIN q : q[i].strategy = q[k].strategy}]
    BY DEF Success!Groups
  <2>2. q[k].strategy # "" /\ k \in Success!Named(q)
    BY <1>2, <2>1 DEF Success!Named
  <2>3. {i \in Success!Named(q) : q[i].strategy = q[k].strategy}
          = {i \in DOMAIN q : q[i].strategy = q[k].strategy}
    BY <2>2 DEF Success!Named
  <2>4. g = [name |-> q[k].strategy,
             members |-> {i \in Success!Named(q) : q[i].strategy = q[k].strategy}]
    BY <2>1, <2>3
  <2>5. QED
    BY <2>2, <2>4 DEF Success!Groups
<1>3. QED
  BY <1>1, <1>2

\* The ranking s is what the ranking r holds at the places "specified".
SameRanking(s, r, specified) ==
    /\ \A i \in DOMAIN s : \E k \in specified : s[i] = r[k]
    /\ \A k \in specified : \E i \in DOMAIN s : s[i] = r[k]
    /\ \A i, k \in DOMAIN s :
         i < k => \E a, b \in specified : a < b /\ s[i] = r[a] /\ s[k] = r[b]

\* What ViewsAgree asks of a comparison r and of the strategies s.
ComparesAll(r, s, rates) ==
    /\ Success!Partition(r, DOMAIN question)
    /\ ~Success!Higher(rates.response, Success!Response(r[1]))
    /\ ~Success!Higher(Success!Response(r[Len(r)]), rates.response)
    /\ SameRanking(s, r, {i \in DOMAIN r : r[i].name # ""})

\* A ranking of some of the groups is the ranking of all of them without the others.
LEMMA ViewsSame ==
    ASSUME NEW q, NEW ids, NEW G, Grouping(G, ids), NEW r, Ranking(r, q, G),
           NEW H \in SUBSET G, NEW s, Ranking(s, q, H),
           NEW specified, specified = {k \in DOMAIN r : r[k] \in H}
    PROVE  SameRanking(s, r, specified)
<1>1. ASSUME NEW i \in DOMAIN s PROVE \E k \in specified : s[i] = r[k]
  <2>1. s[i] \in H /\ s[i] \in G
    BY DEF Ranking
  <2>2. PICK k \in DOMAIN r : r[k] = s[i]
    BY <2>1 DEF Ranking
  <2>3. QED
    BY <2>1, <2>2
<1>2. ASSUME NEW k \in specified PROVE \E i \in DOMAIN s : s[i] = r[k]
  <2>1. r[k] \in H
    OBVIOUS
  <2>2. QED
    BY <2>1 DEF Ranking
<1>3. ASSUME NEW i \in DOMAIN s, NEW k \in DOMAIN s, i < k
      PROVE  \E a, b \in specified : a < b /\ s[i] = r[a] /\ s[k] = r[b]
  <2>1. PICK a \in specified : s[i] = r[a]
    BY <1>1
  <2>2. PICK b \in specified : s[k] = r[b]
    BY <1>1
  <2>3. Success!Ahead(q, r[a], r[b])
    BY <1>3, <2>1, <2>2 DEF Ranking
  <2>4. a < b
    BY <2>3 DEF Ranking
  <2>5. QED
    BY <2>1, <2>2, <2>4
<1>4. QED
  BY <1>1, <1>2, <1>3 DEF SameRanking

\* Who has reached a milestone has reached those before it.
LEMMA ViewsMilestones ==
    ASSUME NEW q \in Success!Questions, NEW rates, rates = Success!Rates(q)
    PROVE  rates.interview.count <= rates.response.count /\ rates.response.count <= rates.view.count
<1>1. PICK v, p, w : /\ v = {i \in DOMAIN q : q[i].status \in Success!Viewed}
                     /\ p = {i \in DOMAIN q : q[i].status \in Success!Responded}
                     /\ w = {i \in DOMAIN q : q[i].status \in Success!Interviewed}
  OBVIOUS
<1>2. rates.view.count = Cardinality(v) /\ rates.response.count = Cardinality(p)
        /\ rates.interview.count = Cardinality(w)
  BY <1>1, ViewsRate DEF Success!Rates
<1>3. w \in SUBSET p /\ p \in SUBSET v /\ v \in SUBSET DOMAIN q
  BY <1>1 DEF Success!Viewed, Success!Responded, Success!Interviewed
<1>4. IsFiniteSet(v) /\ IsFiniteSet(p)
  BY <1>3, ViewsQuestion, FS_Subset
<1>5. QED
  BY <1>2, <1>3, <1>4, FS_Subset

LEMMA ViewsTell ==
    ASSUME answered =>
             \E q \in Success!Questions :
               /\ question = q
               /\ answer = [rates      |-> Success!Rates(q),
                            comparison |-> Success!Comparison(q),
                            strategies |-> Success!Strategic(q),
                            windows    |-> Success!Windows(q)]
    PROVE  Success!ViewsAgree
<1>0. ~answered => Success!ViewsAgree
  BY Zenon DEF Success!ViewsAgree
<1> SUFFICES ASSUME answered PROVE Success!ViewsAgree
  BY <1>0
<1>1. PICK q \in Success!Questions :
        /\ question = q
        /\ answer = [rates      |-> Success!Rates(q),
                     comparison |-> Success!Comparison(q),
                     strategies |-> Success!Strategic(q),
                     windows    |-> Success!Windows(q)]
  OBVIOUS
<1>2. PICK rates, r, s : rates = answer.rates /\ r = answer.comparison /\ s = answer.strategies
  OBVIOUS
<1>3. rates = Success!Rates(q) /\ r = Success!Comparison(q) /\ s = Success!Strategic(q)
        /\ answer.windows = Success!Windows(q)
  BY <1>1, <1>2
<1>4. rates.interview.count <= rates.response.count /\ rates.response.count <= rates.view.count
  BY <1>3, ViewsMilestones
<1>5. Success!Partition(answer.windows, Success!Timed(question))
  BY <1>1, <1>3, ViewsWindows
<1>6. PICK G, H, n : /\ G = Success!Groups(q, DOMAIN q) /\ H = Success!Groups(q, Success!Named(q))
                     /\ n = Cardinality(G)
  OBVIOUS
<1>7. Grouping(G, DOMAIN q) /\ Grouping(H, Success!Named(q)) /\ n \in Nat
  <2>1. Success!Named(q) \in SUBSET DOMAIN q /\ DOMAIN q \in SUBSET DOMAIN q
    BY DEF Success!Named
  <2>2. Grouping(G, DOMAIN q)
    BY <1>6, <2>1, ViewsGroups
  <2>3. Grouping(H, Success!Named(q))
    BY <1>6, <2>1, ViewsGroups
  <2>4. QED
    BY <1>6, <2>2, <2>3, FS_CardinalityType DEF Grouping
<1>8. H = {g \in G : g.name # ""}
  BY <1>6, ViewsStrategies
<1>9. Ranking(s, q, H)
  BY <1>3, <1>6, <1>7, ViewsRanked DEF Success!Strategic
<1>10. ASSUME r # <<>> PROVE ComparesAll(r, s, rates)
  <2>1. r = Success!Ranked(q, G) /\ n >= 2
    <3>1. Success!Comparison(q) = IF Success!Cardinality(G) < 2 THEN <<>> ELSE Success!Ranked(q, G)
      BY <1>6 DEF Success!Comparison
    <3>2. ~(n < 2)
      BY <1>3, <1>6, <1>10, <3>1, ViewsCount
    <3>3. r = Success!Ranked(q, G)
      BY <1>3, <1>6, <3>1, <3>2, ViewsCount
    <3>4. QED
      BY <1>7, <3>2, <3>3
  <2>2. Ranking(r, q, G)
    BY <1>7, <2>1, ViewsRanked
  <2>3. DOMAIN r = 1..n /\ 1 \in DOMAIN r /\ n \in DOMAIN r
    BY <1>6, <1>7, <2>1, <2>2 DEF Ranking
  <2>4. Len(r) = n
    <3>1. r \in [1..n -> G]
      BY <1>6, <2>2 DEF Ranking
    <3>2. r \in Seq(G)
      BY <1>7, <3>1
    <3>3. Len(r) \in Nat /\ DOMAIN r = 1..Len(r)
      BY <3>2
    <3>4. QED
      BY ONLY <1>7, <2>3, <3>3
  <2>5. Success!Partition(r, DOMAIN question)
    BY <1>1, <1>7, <2>2, ViewsPartition
  <2>6. rates.response = Success!Rate(q, DOMAIN q, Success!Responded)
    BY <1>3 DEF Success!Rates
  <2>7. \A g : Success!Response(g) = Success!Rate(q, g.members, Success!Responded)
    BY <1>1 DEF Success!Response
  <2>8. ~Success!Higher(rates.response, Success!Response(r[1]))
    BY <1>7, <2>2, <2>3, <2>6, <2>7, ViewsExtremes
  <2>9. ~Success!Higher(Success!Response(r[n]), rates.response)
    BY <1>6, <1>7, <2>2, <2>3, <2>6, <2>7, ViewsExtremes
  <2>10. PICK specified : specified = {j \in DOMAIN r : r[j].name # ""}
    OBVIOUS
  <2>11. specified = {k \in DOMAIN r : r[k] \in H}
    BY <1>8, <2>2, <2>10 DEF Ranking
  <2>12. H \in SUBSET G
    BY <1>8
  <2>13. SameRanking(s, r, specified)
    <3>1. PICK ids : ids = DOMAIN q
      OBVIOUS
    <3>2. Grouping(G, ids)
      BY <1>7, <3>1
    <3>3. QED
      BY <1>9, <2>2, <2>11, <2>12, <3>2, ViewsSame
  <2>14. QED
    BY <2>4, <2>5, <2>8, <2>9, <2>10, <2>13 DEF ComparesAll
<1>11. answer.comparison # <<>> => ComparesAll(answer.comparison, answer.strategies, answer.rates)
  BY <1>2, <1>10
<1>12. /\ answer.rates.interview.count <= answer.rates.response.count
       /\ answer.rates.response.count <= answer.rates.view.count
  BY <1>2, <1>4
<1>13. QED
  BY <1>5, <1>11, <1>12 DEF Success!ViewsAgree, ComparesAll, SameRanking

-----------------------------------------------------------------------------
\* The services side by side.

\* Only a calculator answers, and it answers what it was asked.
AskedInv ==
    /\ part \in Parts /\ answered \in BOOLEAN
    /\ part \notin Calculators => ~answered
    /\ answered =>
         /\ part = "chunks" =>
              \E text \in Cutting!Texts : question = text /\ answer = Cutting!Chunked(text)
         /\ part = "analytics" =>
              \E q \in Success!Questions :
                /\ question = q
                /\ answer = [rates      |-> Success!Rates(q),
                             comparison |-> Success!Comparison(q),
                             strategies |-> Success!Strategic(q),
                             windows    |-> Success!Windows(q)]
         /\ part = "pay" => \E q \in Pay!Questions : question = q /\ answer = Pay!Decoded(q)
         /\ part = "grant" =>
              \E q \in Grant!Questions :
                /\ question = q
                /\ answer = [timeline |-> Grant!Timeline(q),
                             nets |-> [exit \in DOMAIN Grant!Halves |-> Grant!Net(q, exit)]]
         /\ part = "position" =>
              \E q \in Market!Questions :
                question = q /\ answer = <<Market!Percentile(q.pay, q.benchmark)>>
         /\ part = "decision" =>
              \E q \in Decision!Questions :
                LET scores == Decision!Scores(q.offers)
                IN  /\ question = q
                    /\ answer = [leader |-> Decision!Leader(scores, q.weights),
                                 overtakers |-> [c \in Decision!Criteria |->
                                                   Decision!Overtakers(scores, q.weights, c)]]
         /\ part = "plan" =>
              \E q \in Week!Questions :
                /\ question = q
                /\ answer = IF q.restDay THEN Week!RestDay(q) ELSE Week!ActiveDay(q)
         /\ part = "chance" =>
              \E q \in Chance!Questions :
                /\ question = q
                /\ answer = [chance |-> Chance!Adjusted(q),
                             class |-> Chance!Classification(Chance!Adjusted(q))]

\* A calculator answers, once.
Answers ==
    /\ ~answered /\ answered' = TRUE
    /\ part = "chunks" =>
         \E text \in Cutting!Texts : question' = text /\ answer' = Cutting!Chunked(text)
    /\ part = "analytics" =>
         \E q \in Success!Questions :
           /\ question' = q
           /\ answer' = [rates      |-> Success!Rates(q),
                         comparison |-> Success!Comparison(q),
                         strategies |-> Success!Strategic(q),
                         windows    |-> Success!Windows(q)]
    /\ part = "pay" => \E q \in Pay!Questions : question' = q /\ answer' = Pay!Decoded(q)
    /\ part = "grant" =>
         \E q \in Grant!Questions :
           /\ question' = q
           /\ answer' = [timeline |-> Grant!Timeline(q),
                         nets |-> [exit \in DOMAIN Grant!Halves |-> Grant!Net(q, exit)]]
    /\ part = "position" =>
         \E q \in Market!Questions :
           question' = q /\ answer' = <<Market!Percentile(q.pay, q.benchmark)>>
    /\ part = "decision" =>
         \E q \in Decision!Questions :
           LET scores == Decision!Scores(q.offers)
           IN  /\ question' = q
               /\ answer' = [leader |-> Decision!Leader(scores, q.weights),
                             overtakers |-> [c \in Decision!Criteria |->
                                               Decision!Overtakers(scores, q.weights, c)]]
    /\ part = "plan" =>
         \E q \in Week!Questions :
           question' = q /\ answer' = IF q.restDay THEN Week!RestDay(q) ELSE Week!ActiveDay(q)
    /\ part = "chance" =>
         \E q \in Chance!Questions :
           /\ question' = q
           /\ answer' = [chance |-> Chance!Adjusted(q),
                         class |-> Chance!Classification(Chance!Adjusted(q))]

ServicesInv == AskedInv /\ IndexInv /\ CacheInv /\ OutcomeInv /\ DealsInv /\ UsageInv /\ SourcesInv

LEMMA ServicesInit == Init => ServicesInv
<1> SUFFICES ASSUME Init PROVE ServicesInv
  OBVIOUS
<1>1. part \in Parts /\ answered = FALSE
  BY DEF Init, Cutting!Init
<1>2. AskedInv
  BY <1>1 DEF AskedInv
<1>3. IndexInv /\ CacheInv /\ OutcomeInv /\ DealsInv /\ UsageInv /\ SourcesInv
  BY IndexInit, CacheInit, OutcomeInit, DealsInit, UsageInit, SourcesInit DEF Init
<1>4. QED
  BY <1>2, <1>3 DEF ServicesInv

\* A step of Services is one of each part or leaves its variables as they are.
PartsStep ==
    /\ UNCHANGED part
    /\ [Index!Next]_indexVars /\ [Cache!Next]_cacheVars /\ [Outcome!Next]_outcomeVars
    /\ [Deals!Next]_offerVars /\ [Usage!Next]_usageVars /\ [Sources!Next]_sourceVars
    /\ UNCHANGED askedVars \/ (part \in Calculators /\ Answers)

LEMMA StepsOfParts == [Next]_vars => PartsStep
<1> SUFFICES ASSUME [Next]_vars PROVE PartsStep
  OBVIOUS
<1> USE DEF PartsStep
<1>1. CASE UNCHANGED vars
  BY <1>1 DEF vars
<1>2. CASE /\ part = "index" /\ Index!Next
           /\ UNCHANGED <<part, cacheVars, outcomeVars, offerVars, usageVars, sourceVars, askedVars>>
  BY <1>2
<1>3. CASE /\ part = "cache" /\ Cache!Next
           /\ UNCHANGED <<part, indexVars, outcomeVars, offerVars, usageVars, sourceVars, askedVars>>
  BY <1>3
<1>4. CASE /\ part = "outcome" /\ Outcome!Next
           /\ UNCHANGED <<part, indexVars, cacheVars, offerVars, usageVars, sourceVars, askedVars>>
  BY <1>4
<1>5. CASE /\ part = "benchmarks" /\ Deals!Next
           /\ UNCHANGED <<part, indexVars, cacheVars, outcomeVars, usageVars, sourceVars, askedVars>>
  BY <1>5
<1>6. CASE /\ part = "usage" /\ Usage!Next
           /\ UNCHANGED <<part, indexVars, cacheVars, outcomeVars, offerVars, sourceVars, askedVars>>
  BY <1>6
<1>7. CASE /\ part = "sources" /\ Sources!Next
           /\ UNCHANGED <<part, indexVars, cacheVars, outcomeVars, offerVars, usageVars, askedVars>>
  BY <1>7
<1>8. ASSUME UNCHANGED <<part, indexVars, cacheVars, outcomeVars, offerVars, usageVars, sourceVars>>,
             \/ part = "chunks" /\ Cutting!Next
             \/ part = "pay" /\ Pay!Next
             \/ part = "grant" /\ Grant!Next
             \/ part = "position" /\ Market!Next
             \/ part = "decision" /\ Decision!Next
             \/ part = "plan" /\ Week!Next
             \/ part = "analytics" /\ Success!Next
             \/ part = "chance" /\ Chance!Next
      PROVE  PartsStep
  <2>1. part \in Calculators
    BY <1>8 DEF Calculators
  <2>2. ASSUME part = "chunks" /\ Cutting!Next PROVE Answers
    BY <2>2 DEF Answers, Cutting!Next, Cutting!Cut
  <2>3. ASSUME part = "pay" /\ Pay!Next PROVE Answers
    BY <2>3 DEF Answers, Pay!Next, Pay!Decode
  <2>4. ASSUME part = "grant" /\ Grant!Next PROVE Answers
    BY <2>4 DEF Answers, Grant!Next, Grant!Value
  <2>5. ASSUME part = "position" /\ Market!Next PROVE Answers
    BY <2>5 DEF Answers, Market!Next, Market!Position
  <2>6. ASSUME part = "decision" /\ Decision!Next PROVE Answers
    BY <2>6 DEF Answers, Decision!Next, Decision!Decide
  <2>7. ASSUME part = "plan" /\ Week!Next PROVE Answers
    BY <2>7 DEF Answers, Week!Next, Week!Schedule
  <2>8. ASSUME part = "analytics" /\ Success!Next PROVE Answers
    BY <2>8 DEF Answers, Success!Next, Success!Analyze
  <2>9. ASSUME part = "chance" /\ Chance!Next PROVE Answers
    BY <2>9 DEF Answers, Chance!Next, Chance!Predict
  <2>10. Answers
    BY <1>8, <2>2, <2>3, <2>4, <2>5, <2>6, <2>7, <2>8, <2>9
  <2>11. QED
    BY <1>8, <2>1, <2>10
<1>9. QED
  BY <1>1, <1>2, <1>3, <1>4, <1>5, <1>6, <1>7, <1>8 DEF Next

LEMMA AskedStep ==
    ASSUME AskedInv, UNCHANGED part, UNCHANGED askedVars \/ (part \in Calculators /\ Answers)
    PROVE  AskedInv'
<1>1. CASE UNCHANGED askedVars
  BY <1>1 DEF AskedInv, askedVars
<1>2. CASE part \in Calculators /\ Answers
  BY <1>2 DEF AskedInv, Answers
<1>3. QED
  BY <1>1, <1>2

LEMMA ServicesStep == ServicesInv /\ [Next]_vars => ServicesInv'
<1> SUFFICES ASSUME ServicesInv, [Next]_vars PROVE ServicesInv'
  OBVIOUS
<1>1. PartsStep
  BY StepsOfParts
<1>2. AskedInv'
  BY <1>1, AskedStep DEF PartsStep, ServicesInv
<1>3. IndexInv' /\ CacheInv' /\ OutcomeInv'
  BY <1>1, IndexStep, CacheStep, OutcomeStep DEF PartsStep, ServicesInv
<1>4. DealsInv' /\ UsageInv' /\ SourcesInv'
  BY <1>1, DealsStep, UsageStep, SourcesStep DEF PartsStep, ServicesInv
<1>5. QED
  BY <1>2, <1>3, <1>4 DEF ServicesInv

LEMMA ServicesInvariant == Spec => []ServicesInv
<1>1. QED
  BY ServicesInit, ServicesStep, PTL DEF Spec

\* The stores, handlers and tasks of every service have their types, and only a
\* calculator answers.
THEOREM TypeCorrect == Spec => []TypeOK
<1>1. ServicesInv => TypeOK
  <2> SUFFICES ASSUME ServicesInv PROVE TypeOK
    OBVIOUS
  <2>1. part \in Parts /\ answered \in BOOLEAN /\ (part \notin Calculators => ~answered)
    BY DEF ServicesInv, AskedInv
  <2>2. Index!TypeOK /\ Cache!TypeOK /\ Outcome!TypeOK
    BY DEF ServicesInv, IndexInv, CacheInv, OutcomeInv
  <2>3. Deals!TypeOK /\ Usage!TypeOK /\ Sources!TypeOK
    BY UsageTells DEF ServicesInv, DealsInv, SourcesInv
  <2>4. QED
    BY <2>1, <2>2, <2>3 DEF TypeOK
<1>2. QED
  BY <1>1, ServicesInvariant, PTL

\* An index tells the text of its document whatever runs overlap and break
\* (IndexingService).
THEOREM IndexTold == Spec => []IndexTellsText
<1>1. ServicesInv => IndexTellsText
  BY IndexTells DEF ServicesInv, IndexTellsText
<1>2. QED
  BY <1>1, ServicesInvariant, PTL

\* What is served is within the lifetimes of its stores, and the health of the
\* sources tells their checks, whatever requests and tasks overlap
\* (jd_cache_service.py, data_source_health_repository.py and discovery_tasks.py).
THEOREM OnlyFreshServed == Spec => []ServedIsFresh
<1>1. ServicesInv => ServedIsFresh
  BY SourcesTells DEF ServicesInv, CacheInv, ServedIsFresh
<1>2. QED
  BY <1>1, ServicesInvariant, PTL

\* A tracker's status is reached by its transitions and a benchmark is shared by
\* enough users, whatever requests overlap (outcome_service.py and
\* offer_repository.py).
THEOREM OutcomesTold == Spec => []OutcomesAreTold
<1>1. ServicesInv => OutcomesAreTold
  BY OutcomeTells, DealsTells DEF ServicesInv, OutcomesAreTold
<1>2. QED
  BY <1>1, ServicesInvariant, PTL

\* The lines of a breakdown are the pay and a higher package is more in hand, the
\* tranches of a grant are the whole grant, and what calls cost is counted once,
\* whatever workers, days and tasks overlap (locale_service.py,
\* esop_valuation_service.py, cost_tracker.py and cost_tasks.py).
THEOREM FiguresAdded == Spec => []FiguresAddUp
<1>1. ServicesInv => FiguresAddUp
  <2> SUFFICES ASSUME ServicesInv PROVE FiguresAddUp
    OBVIOUS
  <2>1. ASSUME part = "pay" PROVE Pay!PayAddsUp
    <3>1. CASE answered
      <4>1. \E q \in Pay!Questions : question = q /\ answer = Pay!Decoded(q)
        BY <2>1, <3>1 DEF ServicesInv, AskedInv
      <4>2. QED
        BY <4>1, PayTells
    <3>2. CASE ~answered
      BY <3>2 DEF Pay!PayAddsUp
    <3>3. QED
      BY <3>1, <3>2
  <2>2. ASSUME part = "grant" PROVE Grant!GrantAddsUp
    <3>1. answered =>
            \E q \in Grant!Questions :
              /\ question = q
              /\ answer = [timeline |-> Grant!Timeline(q),
                           nets |-> [exit \in DOMAIN Grant!Halves |-> Grant!Net(q, exit)]]
      BY <2>2 DEF ServicesInv, AskedInv
    <3>2. QED
      BY <3>1, GrantTells
  <2>3. Usage!LedgerTellsCalls
    BY UsageTells DEF ServicesInv
  <2>4. QED
    BY <2>1, <2>2, <2>3 DEF FiguresAddUp
<1>2. QED
  BY <1>1, ServicesInvariant, PTL

\* A higher pay never stands lower in the same market, no offer beats the
\* recommended one on all that counts, and a better history has no lower a chance
\* of a reply (market_positioning.py, decision_framework.py and
\* effort_per_chance_engine.py).
THEOREM BetterIsRanked == Spec => []BetterIsNotLower
<1>1. ServicesInv => BetterIsNotLower
  <2> SUFFICES ASSUME ServicesInv PROVE BetterIsNotLower
    OBVIOUS
  <2>1. ASSUME part = "position" PROVE Market!PercentileInOrder
    <3>1. answered =>
            \E q \in Market!Questions :
              question = q /\ answer = <<Market!Percentile(q.pay, q.benchmark)>>
      BY <2>1 DEF ServicesInv, AskedInv
    <3>2. QED
      BY <3>1, MarketTells
  <2>2. ASSUME part = "decision" PROVE Decision!StrongerOfferLeads
    <3>1. answered =>
            \E q \in Decision!Questions :
              LET scores == Decision!Scores(q.offers)
              IN  /\ question = q
                  /\ answer = [leader |-> Decision!Leader(scores, q.weights),
                               overtakers |-> [c \in Decision!Criteria |->
                                                 Decision!Overtakers(scores, q.weights, c)]]
      BY <2>2 DEF ServicesInv, AskedInv
    <3>2. QED
      BY <3>1, DecisionTells
  <2>3. ASSUME part = "chance" PROVE Chance!ChanceFollowsHistory
    <3>1. answered =>
            \E q \in Chance!Questions :
              /\ question = q
              /\ answer = [chance |-> Chance!Adjusted(q),
                           class |-> Chance!Classification(Chance!Adjusted(q))]
      BY <2>3 DEF ServicesInv, AskedInv
    <3>2. QED
      BY <3>1, ChanceTells
  <2>4. QED
    BY <2>1, <2>2, <2>3 DEF BetterIsNotLower
<1>2. QED
  BY <1>1, ServicesInvariant, PTL

\* No two blocks of a planned day overlap, whatever the minutes, the limit, the
\* season and the burnout; an active day uses the time there is and rests
\* (batch_and_breathe_scheduler.py).
THEOREM DayIsFitted == Spec => []DayFits
<1>1. ServicesInv => DayFits
  <2> SUFFICES ASSUME ServicesInv PROVE DayFits
    OBVIOUS
  <2>1. ASSUME part = "plan" PROVE Week!DayFits
    <3>1. answered =>
            \E q \in Week!Questions :
              /\ question = q
              /\ answer = IF q.restDay THEN Week!RestDay(q) ELSE Week!ActiveDay(q)
      BY <2>1 DEF ServicesInv, AskedInv
    <3>2. QED
      BY <3>1, WeekTells
  <2>2. QED
    BY <2>1 DEF DayFits
<1>2. QED
  BY <1>1, ServicesInvariant, PTL

\* Whatever its lines, a text's chunks hold every word of it, under its heading or
\* in windows that overlap; and whatever the trackers, the views of their
\* outcomes agree (chunker.py and success_analytics.py).
THEOREM NothingLost == Spec => []NothingIsLost
<1>1. ServicesInv => NothingIsLost
  <2> SUFFICES ASSUME ServicesInv PROVE NothingIsLost
    OBVIOUS
  <2>1. ASSUME part = "chunks" PROVE Cutting!ChunksCoverText
    <3>1. answered =>
            \E text \in Cutting!Texts : question = text /\ answer = Cutting!Chunked(text)
      BY <2>1 DEF ServicesInv, AskedInv
    <3>2. QED
      BY <3>1, ChunksTell
  <2>2. ASSUME part = "analytics" PROVE Success!ViewsAgree
    <3>1. answered =>
            \E q \in Success!Questions :
              /\ question = q
              /\ answer = [rates      |-> Success!Rates(q),
                           comparison |-> Success!Comparison(q),
                           strategies |-> Success!Strategic(q),
                           windows    |-> Success!Windows(q)]
      BY <2>2 DEF ServicesInv, AskedInv
    <3>2. QED
      BY <3>1, ViewsTell
  <2>3. QED
    BY <2>1, <2>2 DEF NothingIsLost
<1>2. QED
  BY <1>1, ServicesInvariant, PTL
=============================================================================
