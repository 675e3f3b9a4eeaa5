------------------------------- MODULE Coins -------------------------------
(***************************************************************************)
(* Amounts of money.  An sdk.Coins value is a function from denominations  *)
(* to natural numbers: the SDK keeps no zero and no negative entries, so   *)
(* an absent denomination is the amount 0.                                 *)
(***************************************************************************)
EXTENDS Naturals, FiniteSets

CONSTANT Denoms      \* the denominations in use

AllCoins == [Denoms -> Nat]

NoCoins == [d \in Denoms |-> 0]

(***************************************************************************)
(* Subtraction that stops at zero, and the smaller of two amounts.         *)
(***************************************************************************)
Monus(a, b) == IF a > b THEN a - b ELSE 0

Least(a, b) == IF b < a THEN b ELSE a

Plus(c1, c2) == [d \in Denoms |-> c1[d] + c2[d]]

Minus(c1, c2) == [d \in Denoms |-> Monus(c1[d], c2[d])]

LeastOf(c1, c2) == [d \in Denoms |-> Least(c1[d], c2[d])]

Scale(c, n) == [d \in Denoms |-> c[d] * n]

(***************************************************************************)
(* The sum of f[x] over the finite set S, f[x] a natural number.  It is    *)
(* counted, one pair per unit: the library's sums are recursive functions, *)
(* about which nothing can be proved without induction over their argument.*)
(***************************************************************************)
Units(S, f) == UNION {{x} \X (1 .. f[x]) : x \in S}

SumOver(S, f) == Cardinality(Units(S, f))

(* The sum of the coins F[x] over S, denomination by denomination.         *)
SumCoins(S, F) == [d \in Denoms |-> SumOver(S, [x \in S |-> F[x][d]])]
=============================================================================
