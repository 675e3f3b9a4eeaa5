---------------------------- MODULE CoinTheorems ----------------------------
(***************************************************************************)
(* What the proofs about the ledger use of natural numbers, of positions   *)
(* in an order and of the sums of module Coins.  Inductions are over sets: *)
(* the set of the numbers, or of the subsets, of which a claim is true.    *)
(***************************************************************************)
EXTENDS Coins, FiniteSetTheorems, TLAPS

-----------------------------------------------------------------------------
(* Numbers *)

(* A set of natural numbers that is not empty has a least element. *)
LEMMA LeastExists ==
  ASSUME NEW S \in SUBSET Nat, S # {}
  PROVE  \E m \in S : \A n \in S : m <= n
<1> DEFINE R == OpToRel(<, Nat)
<1>1. IsWellFoundedOn(R, Nat)
  BY Zenon, NatLessThanWellFounded
<1>2. \A i, j \in Nat : <<i, j>> \in R <=> i < j
  BY DEF OpToRel
<1> HIDE DEF R
<1>3. PICK m \in S : \A n \in S : ~ (<<n, m>> \in R)
  BY Zenon, <1>1, WFMin
<1>4. ASSUME NEW n \in S PROVE m <= n
  <2>1. n \in Nat /\ m \in Nat
    OBVIOUS
  <2>2. ~ (n < m)
    BY Zenon, <1>2, <1>3, <2>1
  <2>3. QED
    BY <2>1, <2>2
<1>5. QED
  BY <1>4

(* Up to a bound it has a greatest one. *)
LEMMA GreatestExists ==
  ASSUME NEW S \in SUBSET Nat, S # {}, NEW b \in Nat, \A n \in S : n <= b
  PROVE  \E m \in S : \A n \in S : n <= m
<1> DEFINE T == {n \in Nat : \A s \in S : s <= n}
<1>1. PICK m \in T : \A n \in T : m <= n
  <2>1. b \in T /\ T \in SUBSET Nat
    OBVIOUS
  <2> HIDE DEF T
  <2>2. QED
    BY <2>1, LeastExists
<1>2. ASSUME m \notin S PROVE FALSE
  <2>1. PICK s \in S : TRUE
    BY Zenon
  <2>2. \A n \in S : n < m
    BY <1>2
  <2>3. m - 1 \in Nat
    BY <2>1, <2>2
  <2>4. m - 1 \in T
    BY <2>2, <2>3
  <2>5. QED
    BY <1>1, <2>3, <2>4
<1>3. QED
  BY <1>1, <1>2

(* Induction: a set with 0 and with every successor is all of Nat. *)
LEMMA SetOfNumbersInduction ==
  ASSUME NEW G \in SUBSET Nat, 0 \in G, \A n \in G : n + 1 \in G
  PROVE  G = Nat
<1>1. SUFFICES ASSUME Nat \ G # {} PROVE FALSE
  BY Zenon
<1>2. PICK m \in Nat \ G : \A n \in Nat \ G : m <= n
  BY Zenon, <1>1, LeastExists
<1>3. m # 0 /\ m - 1 \in Nat
  BY <1>2
<1>4. m - 1 \in G
  BY <1>2, <1>3
<1>5. QED
  BY <1>2, <1>3, <1>4

(* Induction over finite sets: a family of subsets of S with the empty set *)
(* and, for every member, the sets that have one element more, has S.      *)
LEMMA SubsetsInduction ==
  ASSUME NEW S, IsFiniteSet(S), NEW G \in SUBSET (SUBSET S), {} \in G,
         \A U \in G : \A x \in S \ U : U \cup {x} \in G
  PROVE  S \in G
<1> DEFINE N == {n \in Nat : \E U \in SUBSET S : U \notin G /\ Cardinality(U) = n}
<1>1. \A U \in SUBSET S : IsFiniteSet(U) /\ Cardinality(U) \in Nat
  BY FS_Subset, FS_CardinalityType
<1>2. SUFFICES ASSUME N # {} PROVE FALSE
  BY <1>1
<1>3. PICK m \in N : \A n \in N : m <= n
  <2>1. N \in SUBSET Nat
    OBVIOUS
  <2> HIDE DEF N
  <2>2. QED
    BY <1>2, <2>1, LeastExists
<1>4. PICK U \in SUBSET S : U \notin G /\ Cardinality(U) = m
  OBVIOUS
<1>5. PICK x \in U : TRUE
  BY Zenon, <1>4
<1>6. Cardinality(U \ {x}) = m - 1
  BY <1>1, <1>4, <1>5, FS_RemoveElement
<1>7. U \ {x} \in SUBSET S /\ U = (U \ {x}) \cup {x} /\ x \in S \ (U \ {x})
  BY <1>5
<1>8. U \ {x} \notin G
  BY <1>4, <1>7
<1>9. m - 1 \in Nat
  BY <1>1, <1>6, <1>7
<1>10. m - 1 \in N
  BY <1>6, <1>7, <1>8, <1>9
<1>11. QED
  BY <1>3, <1>9, <1>10

-----------------------------------------------------------------------------
(***************************************************************************)
(* Positions.  `pos` gives the elements of C different positions up to b;  *)
(* the rank of an element is the number of those before it.                *)
(***************************************************************************)
Preceding(C, pos, l) == {m \in C : pos[m] < pos[l]}

Rank(C, pos, l) == Cardinality(Preceding(C, pos, l))

Positions(C, b) == {pos \in [C -> 0 .. b] : \A l, m \in C : pos[l] = pos[m] => l = m}

(* Ranks count finite sets. *)
LEMMA RankType ==
  ASSUME NEW C, IsFiniteSet(C), NEW pos, NEW l
  PROVE  IsFiniteSet({m \in C : pos[m] < pos[l]}) /\ Rank(C, pos, l) \in Nat
<1>1. IsFiniteSet({m \in C : pos[m] < pos[l]})
  BY FS_Subset
<1>2. QED
  BY <1>1, FS_CardinalityType DEF Rank, Preceding

(* A set that is part of another one and lacks an element is smaller. *)
LEMMA PartIsSmaller ==
  ASSUME NEW T, IsFiniteSet(T), NEW S \in SUBSET T, NEW x \in T, x \notin S
  PROVE  Cardinality(S) < Cardinality(T)
<1>1. IsFiniteSet(T \ {x}) /\ Cardinality(T \ {x}) = Cardinality(T) - 1
  BY FS_RemoveElement
<1>2. S \subseteq T \ {x}
  OBVIOUS
<1>3. IsFiniteSet(S) /\ Cardinality(S) <= Cardinality(T \ {x})
  BY <1>1, <1>2, FS_Subset
<1>4. Cardinality(S) \in Nat /\ Cardinality(T) \in Nat
  BY <1>3, FS_CardinalityType
<1>5. QED
  BY <1>1, <1>3, <1>4

(* Later elements have greater ranks. *)
LEMMA RankGrows ==
  ASSUME NEW C, IsFiniteSet(C), NEW b \in Nat, NEW pos \in [C -> 0 .. b],
         NEW l \in C, NEW m \in C, pos[l] < pos[m]
  PROVE  Rank(C, pos, l) < Rank(C, pos, m)
<1> DEFINE S == {x \in C : pos[x] < pos[l]}
           T == {x \in C : pos[x] < pos[m]}
<1>1. S \in SUBSET T /\ l \in T /\ l \notin S
  OBVIOUS
<1>2. IsFiniteSet(T)
  BY RankType
<1>3. Rank(C, pos, l) = Cardinality(S) /\ Rank(C, pos, m) = Cardinality(T)
  BY DEF Rank, Preceding
<1> HIDE DEF S, T
<1>4. QED
  BY <1>1, <1>2, <1>3, PartIsSmaller

(* Ranks are below the number of elements. *)
LEMMA RankBelow ==
  ASSUME NEW C, IsFiniteSet(C), NEW b \in Nat, NEW pos \in [C -> 0 .. b], NEW l \in C
  PROVE  Rank(C, pos, l) < Cardinality(C)
<1>1. {m \in C : pos[m] < pos[l]} \in SUBSET C /\ l \notin {m \in C : pos[m] < pos[l]}
  OBVIOUS
<1>2. QED
  BY <1>1, PartIsSmaller DEF Rank, Preceding

(* Of the elements, one is at the last position. *)
LEMMA LastExists ==
  ASSUME NEW C, C # {}, NEW b \in Nat, NEW pos \in [C -> 0 .. b]
  PROVE  \E l \in C : \A m \in C : pos[m] <= pos[l]
<1> DEFINE P == {pos[m] : m \in C}
<1>1. P \in SUBSET Nat /\ P # {} /\ \A n \in P : n <= b
  OBVIOUS
<1> HIDE DEF P
<1>2. PICK n \in P : \A k \in P : k <= n
  BY Zenon, <1>1, GreatestExists
<1>3. QED
  BY <1>2 DEF P

(* The last of n elements has rank n - 1. *)
LEMMA LastRank ==
  ASSUME NEW C, IsFiniteSet(C), C # {}, NEW b \in Nat, NEW pos \in Positions(C, b)
  PROVE  \E l \in C : Rank(C, pos, l) = Cardinality(C) - 1
<1>1. pos \in [C -> 0 .. b] /\ \A l, m \in C : pos[l] = pos[m] => l = m
  BY DEF Positions
<1>2. PICK l \in C : \A m \in C : pos[m] <= pos[l]
  BY <1>1, LastExists
<1>3. {m \in C : pos[m] < pos[l]} = C \ {l}
  <2>1. ASSUME NEW m \in C, m # l PROVE pos[m] < pos[l]
    BY <1>1, <1>2, <2>1
  <2>2. QED
    BY <1>1, <2>1
<1>4. Cardinality(C \ {l}) = Cardinality(C) - 1
  BY FS_RemoveElement
<1>5. QED
  BY Zenon, <1>3, <1>4 DEF Rank, Preceding

(* No rank is left out: if none is n, all are less. *)
LEMMA RanksFilled ==
  ASSUME NEW C, IsFiniteSet(C), NEW b \in Nat, NEW pos \in Positions(C, b),
         NEW n \in Nat, \A l \in C : Rank(C, pos, l) # n
  PROVE  \A l \in C : Rank(C, pos, l) < n
<1> DEFINE D == {l \in C : Rank(C, pos, l) > n}
           E == C \ D
<1>1. \A l \in C : Rank(C, pos, l) \in Nat
  BY Zenon, RankType
<1>2. SUFFICES ASSUME NEW x \in D PROVE FALSE
  BY <1>1
<1>3. pos \in [C -> 0 .. b] /\ \A l, m \in C : pos[l] = pos[m] => l = m
  BY DEF Positions
<1>4. PICK l \in D : \A m \in D : pos[l] <= pos[m]
  <2> DEFINE P == {pos[m] : m \in D}
  <2>1. P \in SUBSET Nat /\ P # {}
    BY <1>2, <1>3
  <2> HIDE DEF P
  <2>2. PICK k \in P : \A j \in P : k <= j
    BY <2>1, LeastExists
  <2>3. QED
    BY <2>2 DEF P
<1> DEFINE B == {m \in C : pos[m] < pos[l]}
<1>5. B \subseteq C /\ \A m \in B : m \notin D
  BY <1>3, <1>4
<1>6. IsFiniteSet(B) /\ Cardinality(B) = Rank(C, pos, l)
  BY RankType DEF Rank, Preceding
<1>7. B # {}
  <2>1. Cardinality(B) > 0
    BY <1>1, <1>4, <1>6
  <2>2. Cardinality({}) = 0
    BY FS_EmptySet
  <2>3. QED
    BY <2>1, <2>2
<1>8. PICK k \in B : \A m \in B : pos[m] <= pos[k]
  <2>1. [m \in B |-> pos[m]] \in [B -> 0 .. b]
    BY <1>3
  <2> DEFINE q == [m \in B |-> pos[m]]
  <2>2. \A m \in B : q[m] = pos[m]
    OBVIOUS
  <2> HIDE DEF q, B
  <2>3. PICK k \in B : \A m \in B : q[m] <= q[k]
    BY Zenon, <1>7, <2>1, LastExists DEF q
  <2>4. QED
    BY <2>2, <2>3
<1>9. {m \in C : pos[m] < pos[k]} = B \ {k}
  <2>1. ASSUME NEW m \in B, m # k PROVE pos[m] < pos[k]
    BY <1>3, <1>5, <1>8, <2>1
  <2>2. ASSUME NEW m \in C, pos[m] < pos[k] PROVE m \in B \ {k}
    BY <1>3, <1>8, <2>2
  <2>3. QED
    BY <2>1, <2>2
<1>10. Rank(C, pos, k) = Rank(C, pos, l) - 1
  <2> HIDE DEF B
  <2>1. Cardinality(B \ {k}) = Cardinality(B) - 1
    BY Zenon, <1>6, <1>8, FS_RemoveElement
  <2>2. QED
    BY <1>6, <1>9, <2>1 DEF Rank, Preceding
<1>11. k \in C /\ Rank(C, pos, k) \in Nat /\ Rank(C, pos, l) \in Nat
  BY <1>1, <1>5, <1>8
<1>12. Rank(C, pos, k) > n
  BY <1>4, <1>10, <1>11
<1>13. QED
  BY <1>5, <1>8, <1>11, <1>12

(* As many elements have a rank less than n as there are such numbers, if *)
(* there are elements beyond them, and these come later.                  *)
LEMMA FirstRanks ==
  ASSUME NEW C, IsFiniteSet(C), NEW b \in Nat, NEW pos \in Positions(C, b),
         NEW n \in Nat, NEW x \in C, ~(Rank(C, pos, x) < n)
  PROVE  /\ Cardinality({l \in C : Rank(C, pos, l) < n}) = n
         /\ \A l \in C : Rank(C, pos, l) < n => pos[l] < pos[x]
<1>1. pos \in [C -> 0 .. b] /\ \A l, m \in C : pos[l] = pos[m] => l = m
  BY DEF Positions
<1>2. \A l \in C : Rank(C, pos, l) \in Nat
  BY Zenon, RankType
<1>3. PICK k \in C : Rank(C, pos, k) = n
  BY RanksFilled
<1>4. ASSUME NEW l \in C, NEW m \in C, Rank(C, pos, l) < n, ~(Rank(C, pos, m) < n)
      PROVE  pos[l] < pos[m]
  <2>1. ~(pos[m] < pos[l])
    <3>1. pos[m] < pos[l] => Rank(C, pos, m) < Rank(C, pos, l)
      BY <1>1, RankGrows
    <3>2. QED
      BY <1>2, <1>4, <3>1
  <2>2. pos[l] # pos[m]
    BY <1>1, <1>4
  <2>3. pos[l] \in 0 .. b /\ pos[m] \in 0 .. b
    BY <1>1
  <2>4. QED
    BY <2>1, <2>2, <2>3
<1>5. ASSUME NEW l \in C, pos[l] < pos[k] PROVE Rank(C, pos, l) < n
  BY <1>1, <1>3, <1>5, RankGrows
<1>6. ~(Rank(C, pos, k) < n)
  BY <1>3
<1>7. {l \in C : Rank(C, pos, l) < n} = Preceding(C, pos, k)
  BY <1>4, <1>5, <1>6 DEF Preceding
<1>8. Cardinality({l \in C : Rank(C, pos, l) < n}) = n
  BY <1>3, <1>7 DEF Rank
<1>9. QED
  BY <1>4, <1>8

-----------------------------------------------------------------------------
(* Sums *)

(* A finite sum of naturals counts a finite set. *)
LEMMA UnitsFinite ==
  ASSUME NEW S, IsFiniteSet(S), NEW f, \A x \in S : f[x] \in Nat
  PROVE  IsFiniteSet(Units(S, f))
<1> DEFINE T == {{x} \X (1 .. f[x]) : x \in S}
           g == [x \in S |-> {x} \X (1 .. f[x])]
<1>1. g \in Surjection(S, T)
  BY Zenon DEF Surjection
<1>2. IsFiniteSet(T)
  BY <1>1, FS_Surjection
<1>3. ASSUME NEW U \in T PROVE IsFiniteSet(U)
  <2>1. PICK x \in S : U = {x} \X (1 .. f[x])
    BY <1>3
  <2>2. IsFiniteSet({x})
    BY Zenon, FS_Singleton
  <2>3. f[x] \in Int /\ 1 \in Int
    OBVIOUS
  <2>4. IsFiniteSet(1 .. f[x])
    BY <2>3, FS_Interval
  <2>5. QED
    BY <2>1, <2>2, <2>4, FS_Product
<1>4. QED
  BY Zenon, <1>2, <1>3, FS_UNION DEF Units

(* Sums are natural numbers. *)
LEMMA SumType ==
  ASSUME NEW S, IsFiniteSet(S), NEW f, \A x \in S : f[x] \in Nat
  PROVE  SumOver(S, f) \in Nat
BY UnitsFinite, FS_CardinalityType DEF SumOver

(* The empty sum. *)
LEMMA SumEmpty ==
  ASSUME NEW f
  PROVE  SumOver({}, f) = 0
<1>1. Units({}, f) = {}
  BY DEF Units
<1>2. QED
  BY <1>1, FS_EmptySet DEF SumOver

(* The sum over one element. *)
LEMMA SumSingle ==
  ASSUME NEW x, NEW f, f[x] \in Nat
  PROVE  SumOver({x}, f) = f[x]
<1>1. Units({x}, f) = {x} \X (1 .. f[x])
  BY DEF Units
<1>2. IsFiniteSet({x}) /\ Cardinality({x}) = 1
  BY Zenon, FS_Singleton
<1>3. IsFiniteSet(1 .. f[x]) /\ Cardinality(1 .. f[x]) = f[x]
  <2>1. 1 \in Int /\ f[x] \in Int
    OBVIOUS
  <2>2. /\ IsFiniteSet(1 .. f[x])
        /\ Cardinality(1 .. f[x]) = IF 1 > f[x] THEN 0 ELSE f[x] - 1 + 1
    BY Zenon, <2>1, FS_Interval
  <2>3. QED
    BY <2>2
<1>4. Cardinality({x} \X (1 .. f[x])) = 1 * f[x]
  <2> DEFINE I == 1 .. f[x]
  <2>1. IsFiniteSet(I) /\ Cardinality(I) = f[x]
    BY <1>3
  <2> HIDE DEF I
  <2>2. Cardinality({x} \X I) = Cardinality({x}) * Cardinality(I)
    BY <1>2, <2>1, FS_Product
  <2>3. Cardinality({x} \X I) = 1 * f[x]
    BY <1>2, <2>1, <2>2, Zenon
  <2>4. QED
    BY <2>3 DEF I
<1>5. 1 * f[x] = f[x]
  OBVIOUS
<1>6. QED
  BY Zenon, <1>1, <1>4, <1>5 DEF SumOver

(* Only the values on the index set matter. *)
LEMMA SumCong ==
  ASSUME NEW S, NEW f, NEW g, \A x \in S : f[x] = g[x]
  PROVE  SumOver(S, f) = SumOver(S, g)
<1>1. Units(S, f) = Units(S, g)
  BY DEF Units
<1>2. QED
  BY <1>1 DEF SumOver

(* The sum over a disjoint union is the sum of the sums. *)
LEMMA SumSplit ==
  ASSUME NEW S, IsFiniteSet(S), NEW T, IsFiniteSet(T), S \cap T = {},
         NEW f, \A x \in S \cup T : f[x] \in Nat
  PROVE  SumOver(S \cup T, f) = SumOver(S, f) + SumOver(T, f)
<1>1. Units(S \cup T, f) = Units(S, f) \cup Units(T, f)
  BY DEF Units
<1>2. Units(S, f) \cap Units(T, f) = {}
  BY DEF Units
<1>3. IsFiniteSet(Units(S, f)) /\ IsFiniteSet(Units(T, f))
  BY UnitsFinite
<1>4. /\ Cardinality(Units(S, f)) \in Nat
      /\ Cardinality(Units(T, f)) \in Nat
  BY <1>3, FS_CardinalityType
<1>5. Cardinality(Units(S, f) \cup Units(T, f)) =
        Cardinality(Units(S, f)) + Cardinality(Units(T, f)) - Cardinality({})
  BY <1>2, <1>3, FS_Union
<1>6. Cardinality({}) = 0
  BY FS_EmptySet
<1>7. Cardinality(Units(S, f) \cup Units(T, f)) =
        Cardinality(Units(S, f)) + Cardinality(Units(T, f))
  BY <1>4, <1>5, <1>6
<1>8. QED
  BY <1>1, <1>7, Zenon DEF SumOver

(* A part of a sum: what remains is the difference, and is not negative. *)
LEMMA SumRemove ==
  ASSUME NEW S, IsFiniteSet(S), NEW T \in SUBSET S,
         NEW f, \A x \in S : f[x] \in Nat
  PROVE  /\ SumOver(T, f) <= SumOver(S, f)
         /\ SumOver(S \ T, f) = SumOver(S, f) - SumOver(T, f)
<1>1. IsFiniteSet(T) /\ IsFiniteSet(S \ T)
  BY FS_Subset, FS_Difference
<1>2. S = T \cup (S \ T) /\ T \cap (S \ T) = {}
  OBVIOUS
<1>3. SumOver(S, f) = SumOver(T, f) + SumOver(S \ T, f)
  BY <1>1, <1>2, SumSplit
<1>4. SumOver(T, f) \in Nat /\ SumOver(S \ T, f) \in Nat
  BY <1>1, SumType
<1>5. QED
  BY <1>3, <1>4

(* One more element. *)
LEMMA SumAdd ==
  ASSUME NEW S, IsFiniteSet(S), NEW y, y \notin S,
         NEW f, \A x \in S \cup {y} : f[x] \in Nat
  PROVE  SumOver(S \cup {y}, f) = SumOver(S, f) + f[y]
<1>1. IsFiniteSet({y}) /\ S \cap {y} = {}
  BY Zenon, FS_Singleton
<1>2. SumOver(S \cup {y}, f) = SumOver(S, f) + SumOver({y}, f)
  BY <1>1, SumSplit
<1>3. SumOver({y}, f) = f[y]
  BY Zenon, SumSingle
<1>4. QED
  BY <1>2, <1>3

(* The sum of sums, element by element. *)
LEMMA SumPointwise ==
  ASSUME NEW S, IsFiniteSet(S), NEW f, NEW g, NEW h,
         \A x \in S : f[x] \in Nat /\ g[x] \in Nat /\ h[x] = f[x] + g[x]
  PROVE  SumOver(S, h) = SumOver(S, f) + SumOver(S, g)
<1> DEFINE G == {U \in SUBSET S : SumOver(U, h) = SumOver(U, f) + SumOver(U, g)}
<1>1. {} \in G
  BY SumEmpty
<1>2. ASSUME NEW U \in G, NEW x \in S \ U PROVE U \cup {x} \in G
  <2>1. IsFiniteSet(U) /\ U \cup {x} \in SUBSET S
    BY FS_Subset
  <2>2. \A y \in U \cup {x} : f[y] \in Nat /\ g[y] \in Nat /\ h[y] \in Nat
    BY <2>1
  <2>3. /\ SumOver(U \cup {x}, f) = SumOver(U, f) + f[x]
        /\ SumOver(U \cup {x}, g) = SumOver(U, g) + g[x]
        /\ SumOver(U \cup {x}, h) = SumOver(U, h) + h[x]
    BY Zenon, <2>1, <2>2, SumAdd
  <2>4. SumOver(U, f) \in Nat /\ SumOver(U, g) \in Nat
    BY <2>1, <2>2, SumType
  <2>5. SumOver(U, h) = SumOver(U, f) + SumOver(U, g)
    BY <1>2
  <2>6. h[x] = f[x] + g[x] /\ f[x] \in Nat /\ g[x] \in Nat
    OBVIOUS
  <2>7. SumOver(U \cup {x}, h) = SumOver(U \cup {x}, f) + SumOver(U \cup {x}, g)
    BY <2>3, <2>4, <2>5, <2>6
  <2>8. QED
    BY <2>1, <2>7
<1>3. G \in SUBSET (SUBSET S)
  OBVIOUS
<1> HIDE DEF G
<1>4. S \in G
  BY Zenon, <1>1, <1>2, <1>3, SubsetsInduction
<1>5. QED
  BY <1>4 DEF G

(* A common factor of all terms. *)
LEMMA SumScale ==
  ASSUME NEW S, IsFiniteSet(S), NEW n \in Nat, NEW f, NEW h,
         \A x \in S : f[x] \in Nat /\ h[x] = f[x] * n
  PROVE  SumOver(S, h) = SumOver(S, f) * n
<1> DEFINE G == {U \in SUBSET S : SumOver(U, h) = SumOver(U, f) * n}
<1>1. {} \in G
  BY SumEmpty
<1>2. ASSUME NEW U \in G, NEW x \in S \ U PROVE U \cup {x} \in G
  <2>1. IsFiniteSet(U) /\ U \cup {x} \in SUBSET S
    BY FS_Subset
  <2>2. \A y \in U \cup {x} : f[y] \in Nat /\ h[y] \in Nat
    BY <2>1
  <2>3. /\ SumOver(U \cup {x}, f) = SumOver(U, f) + f[x]
        /\ SumOver(U \cup {x}, h) = SumOver(U, h) + h[x]
    BY Zenon, <2>1, <2>2, SumAdd
  <2>4. SumOver(U, f) \in Nat /\ f[x] \in Nat
    BY <2>1, <2>2, SumType
  <2>5. SumOver(U, h) = SumOver(U, f) * n /\ h[x] = f[x] * n
    BY <1>2
  <2>6. \A a, b \in Nat : (a + b) * n = a * n + b * n
    OBVIOUS
  <2>7. SumOver(U \cup {x}, h) = SumOver(U \cup {x}, f) * n
    BY <2>3, <2>4, <2>5, <2>6
  <2>8. QED
    BY <2>1, <2>7
<1>3. G \in SUBSET (SUBSET S)
  OBVIOUS
<1> HIDE DEF G
<1>4. S \in G
  BY Zenon, <1>1, <1>2, <1>3, SubsetsInduction
<1>5. QED
  BY <1>4 DEF G

(* Greater terms, greater sum. *)
LEMMA SumMonotone ==
  ASSUME NEW S, IsFiniteSet(S), NEW f, NEW g,
         \A x \in S : f[x] \in Nat /\ g[x] \in Nat /\ f[x] <= g[x]
  PROVE  SumOver(S, f) <= SumOver(S, g)
<1> DEFINE r == [x \in S |-> g[x] - f[x]]
<1>1. \A x \in S : f[x] \in Nat /\ r[x] \in Nat /\ g[x] = f[x] + r[x]
  OBVIOUS
<1> HIDE DEF r
<1>2. SumOver(S, g) = SumOver(S, f) + SumOver(S, r)
  BY <1>1, SumPointwise
<1>3. SumOver(S, f) \in Nat /\ SumOver(S, r) \in Nat
  BY <1>1, SumType
<1>4. QED
  BY <1>2, <1>3

(* A sum of zeros. *)
LEMMA SumZero ==
  ASSUME NEW S, IsFiniteSet(S), NEW f, \A x \in S : f[x] = 0
  PROVE  SumOver(S, f) = 0
<1>1. SumOver(S, f) = SumOver(S, f) + SumOver(S, f)
  BY SumPointwise
<1>2. SumOver(S, f) \in Nat
  BY SumType
<1>3. \A n \in Nat : n = n + n => n = 0
  OBVIOUS
<1>4. QED
  BY Zenon, <1>1, <1>2, <1>3

(* A sum in groups: the elements of S by the value g gives them in T. *)
LEMMA SumByGroup ==
  ASSUME NEW S, IsFiniteSet(S), NEW T, IsFiniteSet(T),
         NEW f, \A x \in S : f[x] \in Nat, NEW g, \A x \in S : g[x] \in T
  PROVE  SumOver(T, [y \in T |-> SumOver({x \in S : g[x] = y}, f)]) = SumOver(S, f)
<1> DEFINE Of(U) == {x \in S : g[x] \in U}
           F == [y \in T |-> SumOver({x \in S : g[x] = y}, f)]
           G == {U \in SUBSET T : SumOver(U, F) = SumOver(Of(U), f)}
<1>1. {} \in G
  <2>1. Of({}) = {}
    OBVIOUS
  <2>2. QED
    BY <2>1, SumEmpty
<1>2. \A y \in T : F[y] = SumOver({x \in S : g[x] = y}, f) /\ F[y] \in Nat
  <2>1. ASSUME NEW y \in T PROVE SumOver({x \in S : g[x] = y}, f) \in Nat
    <3>1. IsFiniteSet({x \in S : g[x] = y})
      BY FS_Subset
    <3>2. QED
      BY <3>1, SumType
  <2>2. QED
    BY <2>1
<1> HIDE DEF F
<1>3. ASSUME NEW U \in G, NEW y \in T \ U PROVE U \cup {y} \in G
  <2> DEFINE Y == {x \in S : g[x] = y}
             X == Of(U)
  <2>1. /\ Of(U \cup {y}) = X \cup Y /\ X \cap Y = {}
        /\ X \in SUBSET S /\ Y \in SUBSET S /\ U \in SUBSET T /\ U \cup {y} \in SUBSET T
    OBVIOUS
  <2>2. SumOver(U, F) = SumOver(X, f) /\ F[y] = SumOver(Y, f)
    BY <1>2
  <2> HIDE DEF X, Y, Of
  <2>3. IsFiniteSet(U) /\ IsFiniteSet(X) /\ IsFiniteSet(Y)
    BY <2>1, FS_Subset
  <2>4. SumOver(X \cup Y, f) = SumOver(X, f) + SumOver(Y, f)
    BY <2>1, <2>3, SumSplit
  <2>5. SumOver(U \cup {y}, F) = SumOver(U, F) + F[y]
    BY Zenon, <1>2, <2>1, <2>3, SumAdd
  <2>6. SumOver(U \cup {y}, F) = SumOver(Of(U \cup {y}), f)
    BY Zenon, <2>1, <2>2, <2>4, <2>5
  <2>7. QED
    BY <2>1, <2>6
<1>4. G \in SUBSET (SUBSET T)
  OBVIOUS
<1>5. Of(T) = S
  OBVIOUS
<1> HIDE DEF G
<1>6. T \in G
  BY Zenon, <1>1, <1>3, <1>4, SubsetsInduction
<1>7. SumOver(T, F) = SumOver(Of(T), f)
  BY <1>6 DEF G
<1>8. QED
  BY <1>5, <1>7 DEF F

(* Nothing is left of a number from which it is taken. *)
LEMMA MonusOfItself == \A n \in Nat : Monus(n, n) = 0
BY DEF Monus

(* What is left of r falls by x when what is taken, p, grows by x to q. *)
LEMMA MonusPaid ==
  \A r, p, q, x \in Nat :
    q = p + x /\ q <= r => p <= r /\ Monus(r, p) = Monus(r, q) + x
BY DEF Monus

(* The amounts of two payments in turn, the second out of what is left. *)
LEMMA PayInTurn ==
  ASSUME NEW c \in Nat, NEW s \in Nat, NEW x \in Nat
  PROVE  /\ Least(x, Monus(c, s)) \in Nat
         /\ Least(c, s) + Least(x, Monus(c, s)) = Least(c, s + x)
         /\ Monus(c, s) = c - Least(c, s)
BY DEF Least, Monus

(***************************************************************************)
(* A batch that is paid one element after the other out of c, each getting *)
(* what it asks for as long as there is something left, takes the sum of   *)
(* what is asked for, or all of c.                                         *)
(***************************************************************************)
LEMMA SumInTurn ==
  ASSUME NEW S, IsFiniteSet(S), NEW b \in Nat, NEW pos \in Positions(S, b),
         NEW c \in Nat, NEW a, NEW r,
         \A x \in S : /\ a[x] \in Nat
                      /\ r[x] = Least(a[x],
                                      Monus(c, SumOver(Preceding(S, pos, x), a)))
  PROVE  /\ SumOver(S, r) = Least(c, SumOver(S, a))
         /\ Monus(c, SumOver(S, a)) = c - SumOver(S, r)
<1> DEFINE P(n) == {x \in S : pos[x] < n}
           G == {n \in Nat : SumOver(P(n), r) = Least(c, SumOver(P(n), a))}
<1>1. pos \in [S -> 0 .. b] /\ \A x, y \in S : pos[x] = pos[y] => x = y
  BY DEF Positions
<1>2. ASSUME NEW n \in Nat
      PROVE  /\ P(n) \in SUBSET S /\ IsFiniteSet(P(n))
             /\ SumOver(P(n), a) \in Nat
  <2>1. P(n) \in SUBSET S /\ IsFiniteSet(P(n))
    BY FS_Subset
  <2> HIDE DEF P
  <2>2. QED
    BY <2>1, SumType
<1>3. \A x \in S : r[x] = Least(a[x], Monus(c, SumOver(P(pos[x]), a))) /\ pos[x] \in Nat
  BY <1>1 DEF Preceding
<1>4. ASSUME NEW x \in S PROVE r[x] \in Nat
  <2>1. SumOver(P(pos[x]), a) \in Nat /\ a[x] \in Nat
    BY Zenon, <1>2, <1>3
  <2> HIDE DEF P
  <2>2. Least(a[x], Monus(c, SumOver(P(pos[x]), a))) \in Nat
    BY <2>1, PayInTurn, Zenon
  <2>3. QED
    BY <1>3, <2>2
<1>5. 0 \in G
  <2>1. P(0) = {}
    BY <1>1
  <2>2. QED
    BY <2>1, SumEmpty DEF Least
<1>6. ASSUME NEW n \in G PROVE n + 1 \in G
  <2>1. n \in Nat /\ SumOver(P(n), r) = Least(c, SumOver(P(n), a))
    OBVIOUS
  <2>2. CASE \A x \in S : pos[x] # n
    <3>1. P(n + 1) = P(n)
      BY <1>1, <2>2
    <3>2. QED
      BY <2>1, <3>1
  <2>3. ASSUME NEW x \in S, pos[x] = n PROVE n + 1 \in G
    <3>1. P(n + 1) = P(n) \cup {x} /\ x \notin P(n)
      BY <1>1, <2>1, <2>3
    <3>2. /\ \A y \in P(n) \cup {x} : a[y] \in Nat /\ r[y] \in Nat
          /\ IsFiniteSet(P(n)) /\ SumOver(P(n), a) \in Nat
      BY <1>2, <1>4, <2>1
    <3>3. r[x] = Least(a[x], Monus(c, SumOver(P(n), a))) /\ a[x] \in Nat
      BY <1>3, <2>3
    <3> HIDE DEF P
    <3>4. /\ SumOver(P(n) \cup {x}, a) = SumOver(P(n), a) + a[x]
          /\ SumOver(P(n) \cup {x}, r) = SumOver(P(n), r) + r[x]
      BY Zenon, <3>1, <3>2, SumAdd
    <3>5. SumOver(P(n + 1), r) = Least(c, SumOver(P(n + 1), a))
      <4>1. SumOver(P(n + 1), r) = Least(c, SumOver(P(n), a)) + r[x]
        BY Zenon, <2>1, <3>1, <3>4
      <4>2. Least(c, SumOver(P(n), a)) + Least(a[x], Monus(c, SumOver(P(n), a)))
              = Least(c, SumOver(P(n), a) + a[x])
        BY <3>2, <3>3, PayInTurn, Zenon
      <4>3. QED
        BY <3>1, <3>3, <3>4, <4>1, <4>2
    <3>6. QED
      BY <2>1, <3>5
  <2>4. QED
    BY <2>2, <2>3
<1>7. P(b + 1) = S
  BY <1>1
<1> HIDE DEF P
<1>8. G = Nat
  BY Zenon, <1>5, <1>6, SetOfNumbersInduction
<1>9. SumOver(S, r) = Least(c, SumOver(S, a))
  BY <1>7, <1>8
<1>10. SumOver(S, a) \in Nat
  BY SumType
<1>11. QED
  BY <1>9, <1>10, PayInTurn

-----------------------------------------------------------------------------
(* Coins *)

(* The operations on coins yield coins. *)
LEMMA CoinOps ==
  ASSUME NEW c1 \in AllCoins, NEW c2 \in AllCoins, NEW n \in Nat
  PROVE  /\ NoCoins \in AllCoins
         /\ Plus(c1, c2) \in AllCoins
         /\ Minus(c1, c2) \in AllCoins
         /\ LeastOf(c1, c2) \in AllCoins
         /\ Scale(c1, n) \in AllCoins
BY DEF AllCoins, NoCoins, Plus, Minus, LeastOf, Scale, Monus, Least

(* A finite sum of coins is coins. *)
LEMMA SumCoinsType ==
  ASSUME NEW S, IsFiniteSet(S), NEW F, \A x \in S : F[x] \in AllCoins
  PROVE  SumCoins(S, F) \in AllCoins
<1>1. ASSUME NEW d \in Denoms
      PROVE  SumOver(S, [x \in S |-> F[x][d]]) \in Nat
  <2>1. \A x \in S : [y \in S |-> F[y][d]][x] \in Nat
    BY DEF AllCoins
  <2>2. QED
    BY <2>1, SumType
<1>2. QED
  BY <1>1 DEF SumCoins, AllCoins

(* Only the values on the index set matter. *)
LEMMA SumCoinsCong ==
  ASSUME NEW S, NEW F, NEW G, \A x \in S : F[x] = G[x]
  PROVE  SumCoins(S, F) = SumCoins(S, G)
<1>1. ASSUME NEW d \in Denoms
      PROVE  SumOver(S, [x \in S |-> F[x][d]]) = SumOver(S, [x \in S |-> G[x][d]])
  <2>1. [x \in S |-> F[x][d]] = [x \in S |-> G[x][d]]
    OBVIOUS
  <2>2. QED
    BY <2>1
<1>2. QED
  BY <1>1 DEF SumCoins

(* The empty sum of coins. *)
LEMMA SumCoinsEmpty ==
  ASSUME NEW F
  PROVE  SumCoins({}, F) = NoCoins
BY SumEmpty DEF SumCoins, NoCoins

(* Taking the part T out of a sum over S leaves the sum over the rest. *)
LEMMA SumCoinsRemove ==
  ASSUME NEW S, IsFiniteSet(S), NEW T \in SUBSET S,
         NEW F, \A x \in S : F[x] \in AllCoins
  PROVE  /\ Minus(SumCoins(S, F), SumCoins(T, F)) = SumCoins(S \ T, F)
         /\ \A d \in Denoms : SumCoins(T, F)[d] <= SumCoins(S, F)[d]
<1>1. ASSUME NEW d \in Denoms
      PROVE  /\ Monus(SumCoins(S, F)[d], SumCoins(T, F)[d]) = SumCoins(S \ T, F)[d]
             /\ SumCoins(T, F)[d] <= SumCoins(S, F)[d]
  <2> DEFINE f == [x \in S |-> F[x][d]]
             g == [x \in T |-> F[x][d]]
             h == [x \in S \ T |-> F[x][d]]
  <2>1. \A x \in S : f[x] \in Nat
    BY DEF AllCoins
  <2>2. (\A x \in T : g[x] = f[x]) /\ (\A x \in S \ T : h[x] = f[x])
    OBVIOUS
  <2>3. /\ SumCoins(S, F)[d] = SumOver(S, f)
        /\ SumCoins(T, F)[d] = SumOver(T, g)
        /\ SumCoins(S \ T, F)[d] = SumOver(S \ T, h)
    BY DEF SumCoins
  <2> HIDE DEF f, g, h
  <2>4. SumOver(T, g) = SumOver(T, f) /\ SumOver(S \ T, h) = SumOver(S \ T, f)
    BY <2>2, SumCong
  <2>5. /\ SumOver(T, f) <= SumOver(S, f)
        /\ SumOver(S \ T, f) = SumOver(S, f) - SumOver(T, f)
    BY <2>1, SumRemove
  <2>6. IsFiniteSet(T) /\ (\A x \in T : f[x] \in Nat)
    BY <2>1, FS_Subset
  <2>7. SumOver(S, f) \in Nat /\ SumOver(T, f) \in Nat
    BY <2>1, <2>6, SumType
  <2>8. QED
    BY <2>3, <2>4, <2>5, <2>7 DEF Monus
<1>2. QED
  BY Zenon, <1>1 DEF SumCoins, Minus

(* One more term. *)
LEMMA SumCoinsAdd ==
  ASSUME NEW S, IsFiniteSet(S), NEW y, y \notin S,
         NEW F, \A x \in S \cup {y} : F[x] \in AllCoins
  PROVE  SumCoins(S \cup {y}, F) = Plus(SumCoins(S, F), F[y])
<1>1. ASSUME NEW d \in Denoms
      PROVE  SumCoins(S \cup {y}, F)[d] = SumCoins(S, F)[d] + F[y][d]
  <2> DEFINE f == [x \in S \cup {y} |-> F[x][d]]
             g == [x \in S |-> F[x][d]]
  <2>1. \A x \in S \cup {y} : f[x] \in Nat
    BY DEF AllCoins
  <2>2. \A x \in S : g[x] = f[x]
    OBVIOUS
  <2>3. /\ SumCoins(S \cup {y}, F)[d] = SumOver(S \cup {y}, f)
        /\ SumCoins(S, F)[d] = SumOver(S, g)
        /\ F[y][d] = f[y]
    BY DEF SumCoins
  <2> HIDE DEF f, g
  <2>4. SumOver(S, g) = SumOver(S, f)
    BY <2>2, SumCong
  <2>5. IsFiniteSet({y}) /\ S \cap {y} = {}
    BY Zenon, FS_Singleton
  <2>6. SumOver(S \cup {y}, f) = SumOver(S, f) + SumOver({y}, f)
    BY <2>1, <2>5, SumSplit
  <2>7. SumOver({y}, f) = f[y]
    BY <2>1, SumSingle
  <2>8. QED
    BY <2>3, <2>4, <2>6, <2>7
<1>2. QED
  BY Zenon, <1>1 DEF SumCoins, Plus

(* A sum of coins in one denomination. *)
LEMMA SumCoinsAt ==
  ASSUME NEW S, NEW F, NEW d \in Denoms, NEW f, \A x \in S : f[x] = F[x][d]
  PROVE  SumCoins(S, F)[d] = SumOver(S, f)
<1> DEFINE g == [x \in S |-> F[x][d]]
<1>1. SumCoins(S, F)[d] = SumOver(S, g)
  BY DEF SumCoins
<1>2. \A x \in S : g[x] = f[x]
  OBVIOUS
<1> HIDE DEF g
<1>3. QED
  BY <1>1, <1>2, SumCong

(* Coins are equal if they are in every denomination. *)
LEMMA CoinsEqual ==
  ASSUME NEW c1 \in AllCoins, NEW c2 \in AllCoins, \A d \in Denoms : c1[d] = c2[d]
  PROVE  c1 = c2
BY DEF AllCoins

(* The sum of sums of coins. *)
LEMMA SumCoinsPointwise ==
  ASSUME NEW S, IsFiniteSet(S), NEW F, NEW G, NEW H,
         \A x \in S : F[x] \in AllCoins /\ G[x] \in AllCoins /\ H[x] = Plus(F[x], G[x])
  PROVE  SumCoins(S, H) = Plus(SumCoins(S, F), SumCoins(S, G))
<1>1. ASSUME NEW d \in Denoms
      PROVE  SumCoins(S, H)[d] = SumCoins(S, F)[d] + SumCoins(S, G)[d]
  <2> DEFINE f == [x \in S |-> F[x][d]]
             g == [x \in S |-> G[x][d]]
             h == [x \in S |-> H[x][d]]
  <2>1. \A x \in S : f[x] = F[x][d] /\ g[x] = G[x][d] /\ h[x] = H[x][d]
    OBVIOUS
  <2>2. \A x \in S : f[x] \in Nat /\ g[x] \in Nat /\ h[x] = f[x] + g[x]
    BY Zenon DEF AllCoins, Plus
  <2> HIDE DEF f, g, h
  <2>3. SumOver(S, h) = SumOver(S, f) + SumOver(S, g)
    BY <2>2, SumPointwise
  <2>4. /\ SumCoins(S, F)[d] = SumOver(S, f) /\ SumCoins(S, G)[d] = SumOver(S, g)
        /\ SumCoins(S, H)[d] = SumOver(S, h)
    BY <2>1, SumCoinsAt
  <2>5. QED
    BY <2>3, <2>4
<1>2. QED
  BY <1>1 DEF SumCoins, Plus

(* Greater coins, greater sum. *)
LEMMA SumCoinsMonotone ==
  ASSUME NEW S, IsFiniteSet(S), NEW F, NEW G, NEW d \in Denoms,
         \A x \in S : F[x] \in AllCoins /\ G[x] \in AllCoins /\ F[x][d] <= G[x][d]
  PROVE  SumCoins(S, F)[d] <= SumCoins(S, G)[d]
<1> DEFINE f == [x \in S |-> F[x][d]]
           g == [x \in S |-> G[x][d]]
<1>1. \A x \in S : f[x] = F[x][d] /\ g[x] = G[x][d]
  OBVIOUS
<1>2. \A x \in S : f[x] \in Nat /\ g[x] \in Nat /\ f[x] <= g[x]
  BY DEF AllCoins
<1> HIDE DEF f, g
<1>3. SumOver(S, f) <= SumOver(S, g)
  BY <1>2, SumMonotone
<1>4. SumCoins(S, F)[d] = SumOver(S, f) /\ SumCoins(S, G)[d] = SumOver(S, g)
  BY <1>1, SumCoinsAt
<1>5. QED
  BY <1>3, <1>4

(* The elements of S to which g gives the value y, and H as the sums of F  *)
(* over such groups.                                                       *)
Group(S, g, y) == {x \in S : g[x] = y}

SumsByGroup(S, T, F, g, H) ==
  /\ IsFiniteSet(S) /\ IsFiniteSet(T)
  /\ \A x \in S : F[x] \in AllCoins /\ g[x] \in T
  /\ \A y \in T : H[y] = SumCoins(Group(S, g, y), F)

(* A sum of coins in groups. *)
LEMMA SumCoinsByGroup ==
  ASSUME NEW S, NEW T, NEW F, NEW g, NEW H, SumsByGroup(S, T, F, g, H)
  PROVE  SumCoins(T, H) = SumCoins(S, F)
<1> USE DEF SumsByGroup
<1>1. ASSUME NEW d \in Denoms
      PROVE  SumCoins(T, H)[d] = SumCoins(S, F)[d]
  <2> DEFINE f == [x \in S |-> F[x][d]]
             h == [y \in T |-> SumOver({x \in S : g[x] = y}, f)]
  <2>1. \A x \in S : f[x] = F[x][d] /\ f[x] \in Nat
    BY DEF AllCoins
  <2>2. \A y \in T : h[y] = SumOver({x \in S : g[x] = y}, f)
    OBVIOUS
  <2>3. SumOver(T, h) = SumOver(S, f)
    <3> HIDE DEF f
    <3>1. QED
      BY <2>1, SumByGroup
  <2> HIDE DEF f, h
  <2>4. ASSUME NEW y \in T PROVE h[y] = H[y][d]
    <3>1. SumCoins({x \in S : g[x] = y}, F)[d] = SumOver({x \in S : g[x] = y}, f)
      BY <2>1, SumCoinsAt
    <3>2. QED
      BY Zenon, <2>2, <3>1 DEF Group
  <2>5. SumCoins(T, H)[d] = SumOver(T, h) /\ SumCoins(S, F)[d] = SumOver(S, f)
    BY <2>1, <2>4, SumCoinsAt
  <2>6. QED
    BY <2>3, <2>5
<1>2. QED
  BY <1>1 DEF SumCoins

(* A sum with one term that is not zero. *)
LEMMA SumCoinsOne ==
  ASSUME NEW S, IsFiniteSet(S), NEW y \in S, NEW F, F[y] \in AllCoins,
         \A x \in S \ {y} : F[x] = NoCoins
  PROVE  SumCoins(S, F) = F[y]
<1>1. ASSUME NEW d \in Denoms PROVE SumCoins(S, F)[d] = F[y][d]
  <2> DEFINE f == [x \in S |-> F[x][d]]
             R == S \ {y}
  <2>1. (\A x \in S : f[x] = F[x][d]) /\ f[y] \in Nat /\ \A x \in R : f[x] = 0
    BY DEF AllCoins, NoCoins
  <2>2. S = R \cup {y} /\ y \notin R /\ IsFiniteSet(R)
    BY FS_RemoveElement
  <2> HIDE DEF f, R
  <2>3. SumOver(R \cup {y}, f) = SumOver(R, f) + f[y] /\ SumOver(R, f) = 0
    <3>1. \A x \in R \cup {y} : f[x] \in Nat
      BY <2>1
    <3>2. SumOver(R \cup {y}, f) = SumOver(R, f) + f[y]
      BY Zenon, <2>2, <3>1, SumAdd
    <3>3. SumOver(R, f) = 0
      BY <2>1, <2>2, SumZero
    <3>4. QED
      BY <3>2, <3>3
  <2>4. SumCoins(S, F)[d] = SumOver(S, f)
    BY <2>1, SumCoinsAt
  <2>5. QED
    BY <2>1, <2>2, <2>3, <2>4
<1>2. SumCoins(S, F) \in AllCoins
  <2>1. \A x \in S : F[x] \in AllCoins
    BY DEF AllCoins, NoCoins
  <2>2. QED
    BY <2>1, SumCoinsType
<1>3. QED
  BY <1>1, <1>2, CoinsEqual

(* Terms that are zero do not count. *)
LEMMA SumCoinsSupport ==
  ASSUME NEW S, IsFiniteSet(S), NEW T \in SUBSET S, NEW F,
         \A x \in S : F[x] \in AllCoins, \A x \in S \ T : F[x] = NoCoins
  PROVE  SumCoins(S, F) = SumCoins(T, F)
<1>1. IsFiniteSet(T) /\ IsFiniteSet(S \ T)
  BY FS_Subset
<1>2. SumCoins(S, F) \in AllCoins /\ SumCoins(T, F) \in AllCoins
  BY <1>1, SumCoinsType
<1>3. ASSUME NEW d \in Denoms PROVE SumCoins(S \ T, F)[d] = 0
  <2> DEFINE f == [x \in S \ T |-> 0]
  <2>1. \A x \in S \ T : f[x] = F[x][d] /\ f[x] = 0
    BY DEF NoCoins
  <2> HIDE DEF f
  <2>2. SumCoins(S \ T, F)[d] = SumOver(S \ T, f)
    BY <2>1, SumCoinsAt
  <2>3. QED
    BY <1>1, <2>1, <2>2, SumZero
<1>4. /\ Minus(SumCoins(S, F), SumCoins(T, F)) = SumCoins(S \ T, F)
      /\ \A d \in Denoms : SumCoins(T, F)[d] <= SumCoins(S, F)[d]
  BY SumCoinsRemove
<1>5. ASSUME NEW d \in Denoms PROVE SumCoins(S, F)[d] = SumCoins(T, F)[d]
  <2>1. Monus(SumCoins(S, F)[d], SumCoins(T, F)[d]) = 0
    BY <1>3, <1>4 DEF Minus
  <2>2. SumCoins(S, F)[d] \in Nat /\ SumCoins(T, F)[d] \in Nat
    BY <1>2 DEF AllCoins
  <2>3. QED
    BY <1>4, <2>1, <2>2 DEF Monus
<1>6. QED
  BY <1>2, <1>5, CoinsEqual

(* Coins that all accrue for the same time. *)
LEMMA SumCoinsScale ==
  ASSUME NEW S, IsFiniteSet(S), NEW n \in Nat, NEW F, NEW H, NEW d \in Denoms,
         \A x \in S : F[x] \in AllCoins /\ H[x] = Scale(F[x], n)
  PROVE  SumCoins(S, H)[d] = SumCoins(S, F)[d] * n
<1> DEFINE f == [x \in S |-> F[x][d]]
           h == [x \in S |-> H[x][d]]
<1>1. \A x \in S : f[x] = F[x][d] /\ h[x] = H[x][d]
  OBVIOUS
<1>2. \A x \in S : f[x] \in Nat /\ h[x] = f[x] * n
  BY Zenon DEF AllCoins, Scale
<1> HIDE DEF f, h
<1>3. SumOver(S, h) = SumOver(S, f) * n
  BY <1>2, SumScale
<1>4. SumCoins(S, F)[d] = SumOver(S, f) /\ SumCoins(S, H)[d] = SumOver(S, h)
  BY <1>1, SumCoinsAt
<1>5. QED
  BY <1>3, <1>4
=============================================================================
