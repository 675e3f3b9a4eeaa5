------------------------- MODULE SettlementTheorems -------------------------
(***************************************************************************)
(* Proofs about the money that settlements move: that batches, funding and *)
(* the messages of x/manifest account for the whole supply, and that what  *)
(* is reserved for a lease is there.                                       *)
(***************************************************************************)
EXTENDS AccountTheorems, MeterTheorems, Manifest

(* The provers get more time than by default. *)
USE SMTT(30), ZenonT(30)

(* The supply *)

(* There are finitely many balances. *)
LEMMA BalancesFinite == IsFiniteSet(Accounts) /\ IsFiniteSet(Tenants)
BY ManifestAssumption, BillingAssumption, FS_Subset

(* Coins that leave one part of the supply and arrive in the other. *)
LEMMA MovedCoins ==
  ASSUME NEW from \in AllCoins, NEW to \in AllCoins, NEW moved \in AllCoins
  PROVE  /\ Plus(from, Plus(to, moved)) = Plus(Plus(from, moved), to)
         /\ Plus(Plus(from, moved), to) = Plus(Plus(from, to), moved)
         /\ Plus(from, to) \in AllCoins
BY DEF Plus, AllCoins

(* Adding coins, and taking out coins that are there. *)
LEMMA CoinsAdded ==
  ASSUME NEW c1 \in AllCoins, NEW c2 \in AllCoins
  PROVE  /\ Plus(c1, c2) \in AllCoins
         /\ (\A d \in Denoms : c1[d] >= c2[d]) => c1 = Plus(Minus(c1, c2), c2)
BY DEF Plus, Minus, Monus, AllCoins

(* Both parts of the supply are coins. *)
LEMMA SupplyType ==
  ASSUME NEW F \in [Tenants -> AllCoins], NEW G \in [Accounts -> AllCoins]
  PROVE  SumCoins(Tenants, F) \in AllCoins /\ SumCoins(Accounts, G) \in AllCoins
BY BalancesFinite, SumCoinsType

(***************************************************************************)
(* A settled batch moves coins from credit addresses to payout addresses   *)
(* and leaves the supply as it is.                                         *)
(***************************************************************************)
LEMMA SettlementKeepsSupply ==
  ASSUME TypeOK, NEW order, IsBatch(order), PerformSettlement(order)
  PROVE  TotalSupply' = TotalSupply
<1> DEFINE S == DOMAIN order
           X == Transfers(order)
           H == [t \in Tenants |-> SumCoins(OfTenant(order, t), X)]
           P == [l \in S |-> providers[leases[l].provider].payout]
           T == [l \in S |-> leases[l].tenant]
           K == [a \in Accounts |-> SumCoins(Group(S, P, a), X)]
<1>1. S \in SUBSET (1 .. leaseSeq) /\ IsFiniteSet(S)
  BY LeaseSetsFinite DEF IsBatch
<1>2. \A l \in S : X[l] = CalculateTransferAmounts(order, l) /\ X[l] \in AllCoins
  BY <1>1, TransferType DEF Transfers
<1>3. \A l \in S : leases[l].tenant \in Tenants /\ leases[l].provider \in 1 .. providerSeq
  BY <1>1 DEF TypeOK, Lease
<1>4. \A l \in S : T[l] \in Tenants /\ P[l] \in Accounts
  BY <1>3 DEF TypeOK, SkuTypeOK, Provider
<1>5. \A t \in Tenants : OfTenant(order, t) = Group(S, T, t)
  BY DEF OfTenant, Group
<1>6. /\ credit' \in [Tenants -> AllCoins] /\ wallet' \in [Accounts -> AllCoins]
      /\ credit \in [Tenants -> AllCoins] /\ wallet \in [Accounts -> AllCoins]
  BY <1>1, SettlementType DEF TypeOK
<1>7. \A t \in Tenants : credit[t] = Plus(credit'[t], H[t]) /\ H[t] \in AllCoins
  BY TenantPays DEF PerformSettlement, OfTenant
<1>8. ASSUME NEW a \in Accounts PROVE wallet'[a] = Plus(wallet[a], K[a]) /\ K[a] \in AllCoins
  <2> DEFINE U == {l \in S : providers[leases[l].provider].payout = a}
             Y == [l \in U |-> CalculateTransferAmounts(order, l)]
  <2>1. wallet'[a] = Plus(wallet[a], SumCoins(U, Y))
    BY DEF PerformSettlement
  <2>2. U = Group(S, P, a) /\ U \subseteq S
    BY DEF Group
  <2>3. \A l \in U : Y[l] = X[l]
    BY <1>2
  <2>4. K[a] = SumCoins(U, X)
    BY ZenonT(30), <2>2
  <2> HIDE DEF U, Y, X, K
  <2>5. SumCoins(U, Y) = SumCoins(U, X)
    BY <2>3, SumCoinsCong
  <2>6. SumCoins(U, X) \in AllCoins
    <3>1. IsFiniteSet(U)
      BY <1>1, <2>2, FS_Subset
    <3>2. QED
      BY <1>2, <2>2, <3>1, SumCoinsType
  <2>7. QED
    BY <2>1, <2>4, <2>5, <2>6
<1>9. /\ \A t \in Tenants : H[t] = SumCoins(Group(S, T, t), X)
      /\ \A a \in Accounts : K[a] = SumCoins(Group(S, P, a), X)
  BY <1>5
<1> HIDE DEF S, X, H, P, T, K
<1>10. SumCoins(Tenants, H) = SumCoins(S, X) /\ SumCoins(Accounts, K) = SumCoins(S, X)
  <2>1. SumsByGroup(S, Tenants, X, T, H) /\ SumsByGroup(S, Accounts, X, P, K)
    BY <1>1, <1>2, <1>4, <1>9, BalancesFinite DEF SumsByGroup
  <2>2. QED
    BY <2>1, SumCoinsByGroup
<1>11. SumCoins(Tenants, credit) = Plus(SumCoins(Tenants, credit'), SumCoins(S, X))
  BY <1>6, <1>7, <1>10, BalancesFinite, SumCoinsPointwise
<1>12. SumCoins(Accounts, wallet') = Plus(SumCoins(Accounts, wallet), SumCoins(S, X))
  BY <1>6, <1>8, <1>10, BalancesFinite, SumCoinsPointwise
<1>13. SumCoins(S, X) \in AllCoins
  BY ZenonT(30), <1>1, <1>2, SumCoinsType
<1>14. SumCoins(Tenants, credit') \in AllCoins /\ SumCoins(Accounts, wallet) \in AllCoins
  BY <1>6, SupplyType
<1>15. QED
  BY <1>11, <1>12, <1>13, <1>14, MovedCoins DEF TotalSupply

(* The balances G are the balances F, with c more at y. *)
OneBalanceMore(S, F, G, y, c) ==
  /\ IsFiniteSet(S) /\ y \in S /\ c \in AllCoins
  /\ F \in [S -> AllCoins] /\ G \in [S -> AllCoins]
  /\ G[y] = Plus(F[y], c)
  /\ \A x \in S \ {y} : G[x] = F[x]

(* Then their sum is c more. *)
LEMMA OneBalanceGrows ==
  ASSUME NEW S, NEW F, NEW G, NEW y, NEW c, OneBalanceMore(S, F, G, y, c)
  PROVE  SumCoins(S, G) = Plus(SumCoins(S, F), c)
<1> USE DEF OneBalanceMore
<1> DEFINE H == [x \in S |-> IF x = y THEN c ELSE NoCoins]
<1>1. NoCoins \in AllCoins
  BY DEF NoCoins, AllCoins
<1>2. ASSUME NEW x \in S PROVE G[x] = Plus(F[x], H[x]) /\ H[x] \in AllCoins
  <2>1. Plus(F[x], NoCoins) = F[x]
    BY DEF Plus, NoCoins, AllCoins
  <2>2. QED
    BY <1>1, <2>1
<1>3. H[y] = c /\ \A x \in S \ {y} : H[x] = NoCoins
  OBVIOUS
<1> HIDE DEF H
<1>4. SumCoins(S, H) = c
  BY <1>3, SumCoinsOne
<1>5. SumCoins(S, G) = Plus(SumCoins(S, F), SumCoins(S, H))
  <2>1. \A x \in S : F[x] \in AllCoins /\ H[x] \in AllCoins /\ G[x] = Plus(F[x], H[x])
    BY <1>2
  <2>2. QED
    BY <2>1, SumCoinsPointwise
<1>6. QED
  BY <1>4, <1>5

(* A transfer into a credit account leaves the supply as it is. *)
LEMMA FundingKeepsSupply ==
  ASSUME TypeOK, NEW sender \in Accounts, NEW t \in Tenants, NEW d \in Denoms,
         NEW amount \in Nat, wallet[sender][d] >= amount,
         wallet' = [wallet EXCEPT ![sender][d] = @ - amount],
         credit' = [credit EXCEPT ![t][d] = @ + amount]
  PROVE  TotalSupply' = TotalSupply
<1> DEFINE c == [e \in Denoms |-> IF e = d THEN amount ELSE 0]
<1>1. c \in AllCoins
  BY DEF AllCoins
<1>2. /\ credit \in [Tenants -> AllCoins] /\ wallet \in [Accounts -> AllCoins]
      /\ credit' \in [Tenants -> AllCoins] /\ wallet' \in [Accounts -> AllCoins]
  BY DEF TypeOK, AllCoins
<1>3. credit'[t] = Plus(credit[t], c) /\ \A u \in Tenants \ {t} : credit'[u] = credit[u]
  <2>1. /\ credit'[t] = [credit[t] EXCEPT ![d] = @ + amount]
        /\ \A u \in Tenants \ {t} : credit'[u] = credit[u]
    BY <1>2
  <2>2. [credit[t] EXCEPT ![d] = @ + amount] = Plus(credit[t], c)
    <3>1. credit[t] \in [Denoms -> Nat]
      BY <1>2 DEF AllCoins
    <3>2. QED
      BY <3>1 DEF Plus
  <2>3. QED
    BY <2>1, <2>2
<1>4. /\ wallet[sender] = Plus(wallet'[sender], c)
      /\ \A a \in Accounts \ {sender} : wallet[a] = wallet'[a]
  BY <1>2 DEF Plus, AllCoins
<1> HIDE DEF c
<1>5. SumCoins(Tenants, credit') = Plus(SumCoins(Tenants, credit), c)
  <2>1. OneBalanceMore(Tenants, credit, credit', t, c)
    BY <1>1, <1>2, <1>3, BalancesFinite DEF OneBalanceMore
  <2>2. QED
    BY <2>1, OneBalanceGrows
<1>6. SumCoins(Accounts, wallet) = Plus(SumCoins(Accounts, wallet'), c)
  <2>1. OneBalanceMore(Accounts, wallet', wallet, sender, c)
    BY <1>1, <1>2, <1>4, BalancesFinite DEF OneBalanceMore
  <2>2. QED
    BY <2>1, OneBalanceGrows
<1>7. SumCoins(Tenants, credit) \in AllCoins /\ SumCoins(Accounts, wallet') \in AllCoins
  BY ZenonT(30), <1>2, SupplyType
<1> DEFINE A == SumCoins(Tenants, credit)
           B == SumCoins(Accounts, wallet')
<1>8. TotalSupply' = Plus(Plus(A, c), B) /\ TotalSupply = Plus(A, Plus(B, c))
  BY <1>5, <1>6 DEF TotalSupply
<1> HIDE DEF A, B
<1>9. QED
  BY <1>1, <1>7, <1>8, MovedCoins DEF A, B

(* No message of x/billing, and no block, changes the supply. *)
LEMMA BillingKeepsSupply ==
  ASSUME TypeOK, BillingNext PROVE TotalSupply' = TotalSupply
<1>1. CASE UNCHANGED <<credit, wallet>>
  BY <1>1 DEF TotalSupply
<1>2. CASE CreditNext
  <2>1. PICK sender \in Accounts, t \in Tenants, d \in Denoms, amount \in FundAmounts :
          FundCredit(sender, t, d, amount) \/ BankSend(sender, t, d, amount)
    BY <1>2 DEF CreditNext
  <2>2. /\ amount \in Nat /\ wallet[sender][d] >= amount
        /\ wallet' = [wallet EXCEPT ![sender][d] = @ - amount]
        /\ credit' = [credit EXCEPT ![t][d] = @ + amount]
    BY <2>1, BillingAssumption DEF FundCredit, BankSend
  <2>3. QED
    BY ZenonT(30), <2>2, FundingKeepsSupply
<1>3. CASE SettlementNext
  <2>1. PICK order : SettlesBatch(order)
    BY <1>3, SettlementsAreBatches
  <2>2. QED
    BY <2>1, SettlementKeepsSupply DEF SettlesBatch
<1>4. CASE CreationNext
  BY <1>1, <1>4 DEF CreationNext, CreateLease, CreateLeaseForTenant, createLeaseInternal
<1>5. CASE PendingNext
  BY ZenonT(30), <1>1, <1>5 DEF PendingNext, AcknowledgeLease, RejectLease, CancelLease
<1>6. CASE \E sender \in Accounts, p \in ParamChoices : UpdateParams(sender, p)
  BY <1>1, <1>6 DEF UpdateParams
<1>7. CASE \E dt \in TimeSteps : NextBlock(dt)
  BY <1>1, <1>7 DEF NextBlock
<1>8. QED
  BY <1>2, <1>3, <1>4, <1>5, <1>6, <1>7 DEF BillingNext

-----------------------------------------------------------------------------
(* x/manifest *)

(* What a pair of a payout carries is coins, and pairs are finitely many. *)
LEMMA PayoutType ==
  ASSUME NEW pays \in Payouts
  PROVE  /\ DOMAIN pays \subseteq Addresses /\ IsFiniteSet(DOMAIN pays)
         /\ \A address : PaidTo(pays, address) \in AllCoins
         /\ \A coin \in PayoutCoins : Single(coin) \in AllCoins
<1>1. PICK S \in SUBSET PayoutAddresses : pays \in [S -> PayoutCoins]
  BY DEF Payouts
<1>2. \A coin \in PayoutCoins : Single(coin) \in AllCoins
  BY ManifestAssumption DEF Single, AllCoins
<1>3. NoCoins \in AllCoins
  BY DEF NoCoins, AllCoins
<1>4. IsFiniteSet({"wallet"} \X Accounts) /\ IsFiniteSet({"credit"} \X Tenants)
  BY ZenonT(30), BalancesFinite, FS_Singleton, FS_Product
<1>5. IsFiniteSet(Addresses)
  BY ZenonT(30), <1>4, FS_Union DEF Addresses
<1>6. DOMAIN pays = S /\ S \subseteq Addresses
  BY <1>1, ManifestAssumption
<1>7. IsFiniteSet(S)
  BY <1>5, <1>6, FS_Subset
<1>8. QED
  BY <1>1, <1>2, <1>3, <1>6, <1>7 DEF PaidTo

(***************************************************************************)
(* The pairs of a payout to addresses of one kind, as balances of the      *)
(* accounts behind these addresses.                                        *)
(***************************************************************************)
LEMMA PayoutByKind ==
  ASSUME NEW pays \in Payouts, NEW kind, NEW T, IsFiniteSet(T),
         NEW D \in SUBSET DOMAIN pays, D \subseteq {kind} \X T,
         \A x \in (DOMAIN pays) \cap ({kind} \X T) : x \in D
  PROVE  SumCoins(T, [y \in T |-> PaidTo(pays, <<kind, y>>)])
           = SumCoins(D, [a \in DOMAIN pays |-> PaidTo(pays, a)])
<1> DEFINE F == [a \in DOMAIN pays |-> PaidTo(pays, a)]
           H == [y \in T |-> PaidTo(pays, <<kind, y>>)]
           g == [x \in D |-> x[2]]
<1>1. IsFiniteSet(D)
  BY PayoutType, FS_Subset
<1>2. \A x \in D : F[x] = PaidTo(pays, x) /\ F[x] \in AllCoins /\ g[x] \in T
  BY PayoutType
<1>3. ASSUME NEW y \in T PROVE H[y] = SumCoins(Group(D, g, y), F)
  <2>1. CASE <<kind, y>> \in DOMAIN pays
    <3>1. Group(D, g, y) = {<<kind, y>>} /\ <<kind, y>> \in D
      BY <2>1 DEF Group
    <3>2. H[y] = F[<<kind, y>>] /\ F[<<kind, y>>] \in AllCoins
      BY <1>2, <3>1
    <3> HIDE DEF F, H, g
    <3>3. SumCoins({<<kind, y>>}, F) = F[<<kind, y>>]
      BY ZenonT(30), <3>2, FS_Singleton, SumCoinsOne
    <3>4. QED
      BY <3>1, <3>2, <3>3
  <2>2. CASE <<kind, y>> \notin DOMAIN pays
    <3>1. Group(D, g, y) = {} /\ H[y] = NoCoins
      BY <2>2 DEF Group, PaidTo
    <3>2. QED
      BY <3>1, SumCoinsEmpty
  <2>3. QED
    BY <2>1, <2>2
<1> HIDE DEF F, H, g
<1>4. SumsByGroup(D, T, F, g, H)
  BY <1>1, <1>2, <1>3 DEF SumsByGroup
<1>5. QED
  BY <1>4, SumCoinsByGroup DEF F, H

(* A payout adds its total to the supply. *)
LEMMA PayoutMints ==
  ASSUME TypeOK, NEW sender, NEW pays \in Payouts, Payout(sender, pays)
  PROVE  /\ credit' \in [Tenants -> AllCoins] /\ wallet' \in [Accounts -> AllCoins]
         /\ TotalSupply' = Plus(TotalSupply, TotalPayout(pays))
<1> DEFINE D == DOMAIN pays
           F == [a \in D |-> PaidTo(pays, a)]
           W == D \cap ({"wallet"} \X Accounts)
           C == D \ W
           H == [t \in Tenants |-> PaidTo(pays, <<"credit", t>>)]
           K == [a \in Accounts |-> PaidTo(pays, <<"wallet", a>>)]
<1>1. credit \in [Tenants -> AllCoins] /\ wallet \in [Accounts -> AllCoins]
  BY DEF TypeOK
<1>2. /\ \A t \in Tenants : credit'[t] = Plus(credit[t], H[t]) /\ H[t] \in AllCoins
      /\ \A a \in Accounts : wallet'[a] = Plus(wallet[a], K[a]) /\ K[a] \in AllCoins
  BY PayoutType DEF Payout
<1>3. credit' \in [Tenants -> AllCoins] /\ wallet' \in [Accounts -> AllCoins]
  <2> HIDE DEF H, K
  <2>1. \A t \in Tenants : credit'[t] \in AllCoins
    BY <1>1, <1>2, CoinsAdded
  <2>2. \A a \in Accounts : wallet'[a] \in AllCoins
    BY <1>1, <1>2, CoinsAdded
  <2>3. QED
    BY <2>1, <2>2 DEF Payout
<1>4. SumCoins(Accounts, K) = SumCoins(W, F)
  <2>1. W \in SUBSET DOMAIN pays /\ W \subseteq {"wallet"} \X Accounts
    OBVIOUS
  <2>2. \A x \in (DOMAIN pays) \cap ({"wallet"} \X Accounts) : x \in W
    OBVIOUS
  <2>3. QED
    BY <2>1, <2>2, BalancesFinite, PayoutByKind
<1>5. SumCoins(Tenants, H) = SumCoins(C, F)
  <2>1. C \in SUBSET DOMAIN pays /\ C \subseteq {"credit"} \X Tenants
    BY PayoutType DEF Addresses
  <2>2. \A x \in (DOMAIN pays) \cap ({"credit"} \X Tenants) : x \in C
    OBVIOUS
  <2>3. QED
    BY <2>1, <2>2, BalancesFinite, PayoutByKind
<1>6. TotalPayout(pays) = SumCoins(D, F)
  BY DEF TotalPayout
<1>7. IsFiniteSet(D) /\ W \in SUBSET D /\ \A x \in D : F[x] \in AllCoins
  BY PayoutType
<1> HIDE DEF D, F, W, H, K
<1>8. IsFiniteSet(W) /\ IsFiniteSet(C)
  BY <1>7, FS_Subset
<1>9. SumCoins(D, F) \in AllCoins /\ SumCoins(W, F) \in AllCoins /\ SumCoins(C, F) \in AllCoins
  BY <1>7, <1>8, SumCoinsType
<1>10. SumCoins(D, F) = Plus(SumCoins(C, F), SumCoins(W, F))
  <2>1. /\ Minus(SumCoins(D, F), SumCoins(W, F)) = SumCoins(C, F)
        /\ \A d \in Denoms : SumCoins(W, F)[d] <= SumCoins(D, F)[d]
    BY <1>7, SumCoinsRemove
  <2> DEFINE x == SumCoins(D, F)
             y == SumCoins(W, F)
  <2> HIDE DEF x, y
  <2>2. ASSUME x \in AllCoins, y \in AllCoins, \A d \in Denoms : y[d] <= x[d]
        PROVE  x = Plus(Minus(x, y), y)
    BY <2>2 DEF Plus, Minus, Monus, AllCoins
  <2>3. QED
    BY <1>9, <2>1, <2>2 DEF x, y
<1>11. SumCoins(Tenants, credit') = Plus(SumCoins(Tenants, credit), SumCoins(Tenants, H))
  BY <1>1, <1>2, BalancesFinite, SumCoinsPointwise
<1>12. SumCoins(Accounts, wallet') = Plus(SumCoins(Accounts, wallet), SumCoins(Accounts, K))
  BY <1>1, <1>2, BalancesFinite, SumCoinsPointwise
<1>13. SumCoins(Tenants, credit) \in AllCoins /\ SumCoins(Accounts, wallet) \in AllCoins
  BY <1>1, SupplyType
<1> DEFINE A == SumCoins(Tenants, credit)
           B == SumCoins(Accounts, wallet)
           x == SumCoins(C, F)
           y == SumCoins(W, F)
<1>14. TotalSupply' = Plus(Plus(A, x), Plus(B, y)) /\ TotalSupply = Plus(A, B)
  BY <1>4, <1>5, <1>11, <1>12 DEF TotalSupply
<1>15. A \in AllCoins /\ B \in AllCoins /\ x \in AllCoins /\ y \in AllCoins
  BY <1>9, <1>13
<1> HIDE DEF A, B, x, y
<1>16. Plus(Plus(A, x), Plus(B, y)) = Plus(Plus(A, B), Plus(x, y))
  BY <1>15 DEF Plus, AllCoins
<1>17. QED
  BY <1>3, <1>6, <1>10, <1>14, <1>16 DEF x, y

(* A burn takes its coins out of the supply. *)
LEMMA BurnDestroys ==
  ASSUME TypeOK, NEW sender \in Accounts, NEW coins \in AllCoins,
         BurnHeldBalance(sender, coins)
  PROVE  /\ wallet' \in [Accounts -> AllCoins]
         /\ TotalSupply = Plus(TotalSupply', coins)
<1>1. credit \in [Tenants -> AllCoins] /\ wallet \in [Accounts -> AllCoins]
  BY DEF TypeOK
<1>2. Minus(wallet[sender], coins) \in AllCoins
  BY <1>1, CoinOps
<1>3. wallet' \in [Accounts -> AllCoins]
  BY <1>1, <1>2 DEF BurnHeldBalance
<1>4. /\ wallet'[sender] = Minus(wallet[sender], coins)
      /\ \A a \in Accounts \ {sender} : wallet[a] = wallet'[a]
      /\ \A d \in Denoms : wallet[sender][d] >= coins[d]
  BY <1>1 DEF BurnHeldBalance
<1>5. wallet[sender] = Plus(Minus(wallet[sender], coins), coins)
  BY <1>1, <1>4, CoinsAdded
<1>6. OneBalanceMore(Accounts, wallet', wallet, sender, coins)
  BY <1>1, <1>3, <1>4, <1>5, BalancesFinite DEF OneBalanceMore
<1>7. SumCoins(Accounts, wallet) = Plus(SumCoins(Accounts, wallet'), coins)
  BY <1>6, OneBalanceGrows
<1>8. SumCoins(Tenants, credit) \in AllCoins /\ SumCoins(Accounts, wallet') \in AllCoins
  BY <1>1, <1>3, SupplyType
<1> DEFINE A == SumCoins(Tenants, credit)
           B == SumCoins(Accounts, wallet')
<1>9. TotalSupply = Plus(A, Plus(B, coins)) /\ TotalSupply' = Plus(A, B)
  BY <1>7 DEF TotalSupply, BurnHeldBalance
<1> HIDE DEF A, B
<1>10. QED
  BY <1>3, <1>8, <1>9, MovedCoins DEF A, B

(* The ledger with x/manifest keeps its types. *)
LEMMA LedgerNextTypeOK == TypeOK /\ [LedgerNext]_vars => TypeOK'
<1> SUFFICES ASSUME TypeOK, [LedgerNext]_vars PROVE TypeOK'
  OBVIOUS
<1>1. CASE BillingNext /\ UNCHANGED skuVars
  BY <1>1, NextTypeOK DEF Next
<1>2. CASE ManifestNext /\ UNCHANGED skuVars
  <2>1. /\ credit' \in [Tenants -> AllCoins] /\ wallet' \in [Accounts -> AllCoins]
        /\ UNCHANGED <<now, params, leaseSeq, leases, accounts, paid>>
    <3>1. CASE \E sender \in Accounts, pays \in Payouts : Payout(sender, pays)
      <4>1. PICK sender \in Accounts, pays \in Payouts : Payout(sender, pays)
        BY <3>1
      <4>2. QED
        BY <4>1, PayoutMints DEF Payout
    <3>2. CASE \E sender \in Accounts, coin \in PayoutCoins :
                 BurnHeldBalance(sender, Single(coin))
      <4>1. PICK sender \in Accounts, coin \in PayoutCoins :
                 BurnHeldBalance(sender, Single(coin))
        BY <3>2
      <4>2. Single(coin) \in AllCoins
        BY ManifestAssumption DEF Single, AllCoins
      <4>3. QED
        BY ZenonT(30), <4>1, <4>2, BurnDestroys DEF BurnHeldBalance, TypeOK
    <3>3. QED
      BY <1>2, <3>1, <3>2 DEF ManifestNext
  <2>2. Lease' = Lease /\ SkuTypeOK'
    BY <1>2 DEF skuVars, Lease, TypeOK, SkuTypeOK
  <2>3. QED
    BY <2>1, <2>2 DEF TypeOK
<1>3. CASE UNCHANGED vars
  BY <1>3, NextTypeOK
<1>4. QED
  BY <1>1, <1>2, <1>3 DEF LedgerNext

(***************************************************************************)
(* Money is conserved, for any number of accounts, leases and providers    *)
(* and any batch: what settlements take from the credit addresses is what  *)
(* the payout addresses get, and only the authority's payouts and burns    *)
(* change the supply, by the coins they name.                              *)
(***************************************************************************)
THEOREM SupplyAlwaysAccounted == LedgerSpec => SupplyAccounted
<1> DEFINE Accounted ==
      \/ TotalSupply' = TotalSupply
      \/ \E pays \in Payouts :
           /\ Payout(Authority, pays)
           /\ TotalSupply' = Plus(TotalSupply, TotalPayout(pays))
      \/ \E coin \in PayoutCoins :
           /\ BurnHeldBalance(Authority, Single(coin))
           /\ TotalSupply = Plus(TotalSupply', Single(coin))
<1>1. ASSUME TypeOK, [LedgerNext]_vars PROVE Accounted \/ UNCHANGED vars
  <2>1. CASE BillingNext
    BY <1>1, <2>1, BillingKeepsSupply
  <2>2. ASSUME NEW sender \in Accounts, NEW pays \in Payouts, Payout(sender, pays)
        PROVE  Accounted
    BY <1>1, <2>2, PayoutMints DEF Payout
  <2>3. ASSUME NEW sender \in Accounts, NEW coin \in PayoutCoins,
               BurnHeldBalance(sender, Single(coin))
        PROVE  Accounted
    <3>1. Single(coin) \in AllCoins /\ sender = Authority
      BY <2>3, ManifestAssumption DEF Single, AllCoins, BurnHeldBalance
    <3>2. QED
      BY <1>1, <2>3, <3>1, BurnDestroys
  <2>4. QED
    BY <1>1, <2>1, <2>2, <2>3 DEF LedgerNext, ManifestNext
<1>2. TypeOK /\ [LedgerNext]_vars => [Accounted]_vars
  BY <1>1
<1>3. QED
  BY InitTypeOK, LedgerNextTypeOK, <1>2, PTL DEF LedgerSpec, SupplyAccounted

-----------------------------------------------------------------------------
(* What is reserved is there *)

(* ReservationsCovered for one tenant. *)
Covered(t) ==
  (\A l \in LeasesOf(t) : WithinReservation(l)) =>
    \A d \in Denoms : Unspent(LiveLeasesOf(t))[d] <= credit[t][d]

(* No step changes the terms of a lease or brings one back to life. *)
LEMMA TermsStay ==
  ASSUME MeterInv, leaseSeq' = leaseSeq, \A l \in 1 .. leaseSeq : LeaseStep(l),
         NEW t \in Tenants
  PROVE  TermsKept /\ LeasesOf(t)' = LeasesOf(t) /\ LiveLeasesOf(t)' \subseteq LiveLeasesOf(t)
<1>1. ASSUME NEW l \in 1 .. leaseSeq
      PROVE  /\ leases'[l].tenant = leases[l].tenant
             /\ leases'[l].rates = leases[l].rates
             /\ leases'[l].minDur = leases[l].minDur
             /\ leases'[l].state \in {"PENDING", "ACTIVE"} =>
                  leases[l].state \in {"PENDING", "ACTIVE"}
  <2>1. LeaseStep(l) /\ leases[l] \in Lease
    BY DEF MeterInv, TypeOK
  <2>2. CASE Untouched(l)
    BY <2>2 DEF Untouched
  <2>3. CASE Acknowledged(l) \/ Metered(l)
    BY ZenonT(30), <2>1, <2>3 DEF Acknowledged, Metered, Lease
  <2>4. CASE \E state \in {"REJECTED", "EXPIRED"} : Dropped(l, state)
    BY <2>1, <2>4 DEF Dropped, Lease
  <2>5. CASE \E exhausted \in BOOLEAN : Ended(l, exhausted)
    BY <2>1, <2>5 DEF Ended, Closed, Lease
  <2>6. QED
    BY <2>1, <2>2, <2>3, <2>4, <2>5 DEF LeaseStep
<1>2. TermsKept
  BY <1>1 DEF TermsKept
<1>3. QED
  BY <1>1, <1>2 DEF LeasesOf, LiveLeasesOf

(***************************************************************************)
(* A step in which the leases of a tenant pay x, and the credit of the     *)
(* tenant loses no more than what the live ones among them pay.            *)
(***************************************************************************)
LEMMA CoveredKept ==
  ASSUME AccountInv, TypeOK', TermsKept, NEW t \in Tenants,
         LeasesOf(t)' = LeasesOf(t), LiveLeasesOf(t)' \subseteq LiveLeasesOf(t),
         NEW x,
         \A l \in LeasesOf(t) : x[l] \in AllCoins /\ paid'[l] = Plus(paid[l], x[l]),
         \A d \in Denoms :
           credit[t][d] <= credit'[t][d] + SumCoins(LiveLeasesOf(t), x)[d],
         Covered(t)
  PROVE  Covered(t)'
<1> DEFINE L == LiveLeasesOf(t)
           M == LiveLeasesOf(t)'
           R == [l \in LeasesOf(t) |-> GetLeaseReservationAmount(leases[l])]
           U == [l \in L |-> Minus(GetLeaseReservationAmount(leases[l]), paid[l])]
           V == [l \in L |-> Minus(GetLeaseReservationAmount(leases[l]), paid'[l])]
           N == [l \in M |-> Minus(GetLeaseReservationAmount(leases[l])', paid'[l])]
<1> SUFFICES ASSUME \A l \in LeasesOf(t) : WithinReservation(l)', NEW d \in Denoms
             PROVE  (Unspent(LiveLeasesOf(t))')[d] <= credit'[t][d]
  BY DEF Covered
<1>1. /\ TypeOK /\ LeasesOf(t) \subseteq 1 .. leaseSeq /\ leaseSeq' = leaseSeq
      /\ L \in SUBSET LeasesOf(t) /\ M \in SUBSET L
  BY DEF AccountInv, LeasesOf, LiveLeasesOf, TermsKept
<1>2. \A l \in LeasesOf(t) : /\ R[l] = GetLeaseReservationAmount(leases[l])
                             /\ R[l] = GetLeaseReservationAmount(leases[l])'
                             /\ R[l] \in AllCoins
  BY <1>1, ReservationKept, LeaseAmounts
<1>3. \A l \in LeasesOf(t) : paid[l] \in AllCoins /\ paid'[l] \in AllCoins
  BY <1>1 DEF TypeOK
<1>4. \A l \in LeasesOf(t) : \A e \in Denoms : paid'[l][e] <= R[l][e]
  BY <1>2 DEF WithinReservation
<1> HIDE DEF R
<1>5. ASSUME NEW l \in LeasesOf(t), NEW e \in Denoms
      PROVE  /\ paid[l][e] <= R[l][e]
             /\ Monus(R[l][e], paid[l][e]) = Monus(R[l][e], paid'[l][e]) + x[l][e]
  <2>1. /\ paid[l][e] \in Nat /\ paid'[l][e] \in Nat /\ x[l][e] \in Nat /\ R[l][e] \in Nat
        /\ paid'[l][e] = paid[l][e] + x[l][e]
    BY ZenonT(30), <1>2, <1>3 DEF AllCoins, Plus
  <2>2. paid'[l][e] <= R[l][e]
    BY ZenonT(30), <1>4
  <2>3. QED
    BY ZenonT(30), <2>1, <2>2, MonusPaid
<1>6. Unspent(L)[d] <= credit[t][d]
  BY ZenonT(30), <1>2, <1>5 DEF Covered, WithinReservation
<1>7. Unspent(L) = SumCoins(L, U) /\ Unspent(LiveLeasesOf(t))' = SumCoins(M, N)
  BY ZenonT(30) DEF Unspent
<1>8. \A l \in L : /\ V[l] = Minus(R[l], paid'[l]) /\ U[l] = Minus(R[l], paid[l])
                   /\ V[l] \in AllCoins /\ U[l] \in AllCoins /\ x[l] \in AllCoins
  BY ZenonT(30), <1>1, <1>2, <1>3, CoinOps
<1>9. \A l \in M : N[l] = V[l]
  BY ZenonT(30), <1>1, <1>2
<1> HIDE DEF U, V, N
<1>10. ASSUME NEW l \in L PROVE U[l] = Plus(V[l], x[l])
  <2>1. \A e \in Denoms : U[l][e] = V[l][e] + x[l][e]
    BY ZenonT(30), <1>1, <1>5, <1>8 DEF Minus
  <2>2. QED
    BY ZenonT(30), <1>8, <2>1 DEF Plus, AllCoins
<1>11. IsFiniteSet(L) /\ IsFiniteSet(M)
  BY ZenonT(30), <1>1, LeaseSetsFinite
<1> HIDE DEF L, M
<1>12. SumCoins(L, U) = Plus(SumCoins(L, V), SumCoins(L, x))
  BY <1>8, <1>10, <1>11, SumCoinsPointwise
<1>13. SumCoins(M, V)[d] <= SumCoins(L, V)[d]
  BY ZenonT(30), <1>1, <1>8, <1>11, SumCoinsRemove
<1>14. SumCoins(M, N) = SumCoins(M, V)
  BY ZenonT(30), <1>9, SumCoinsCong
<1>15. /\ SumCoins(L, V) \in AllCoins /\ SumCoins(L, x) \in AllCoins
       /\ SumCoins(M, V) \in AllCoins
  BY ZenonT(30), <1>1, <1>8, <1>11, SumCoinsType
<1>16. credit[t] \in AllCoins /\ credit'[t] \in AllCoins
  BY <1>1 DEF TypeOK
<1>17. SumCoins(L, U)[d] = SumCoins(L, V)[d] + SumCoins(L, x)[d]
  BY <1>12 DEF Plus
<1>18. credit[t][d] <= credit'[t][d] + SumCoins(L, x)[d]
  BY DEF L
<1>19. QED
  BY <1>6, <1>7, <1>13, <1>14, <1>15, <1>16, <1>17, <1>18 DEF AllCoins

(* A step in which no lease pays anything and no credit is taken. *)
LEMMA QuietCovered ==
  ASSUME AccountInv, MeterInv, TypeOK', leaseSeq' = leaseSeq, paid' = paid,
         \A l \in 1 .. leaseSeq : LeaseStep(l), NEW t \in Tenants,
         \A d \in Denoms : credit[t][d] <= credit'[t][d], Covered(t)
  PROVE  Covered(t)'
<1> DEFINE x == [l \in LeasesOf(t) |-> NoCoins]
<1>1. TermsKept /\ LeasesOf(t)' = LeasesOf(t) /\ LiveLeasesOf(t)' \subseteq LiveLeasesOf(t)
  BY TermsStay
<1>2. /\ LiveLeasesOf(t) \in SUBSET (1 .. leaseSeq) /\ LeasesOf(t) \subseteq 1 .. leaseSeq
      /\ LiveLeasesOf(t) \subseteq LeasesOf(t)
  BY DEF LeasesOf, LiveLeasesOf
<1>3. IsFiniteSet(LiveLeasesOf(t))
  BY <1>2, LeaseSetsFinite DEF AccountInv
<1>4. NoCoins \in AllCoins
  BY DEF NoCoins, AllCoins
<1>5. \A l \in LeasesOf(t) : x[l] \in AllCoins /\ paid'[l] = Plus(paid[l], x[l])
  <2>1. \A l \in LeasesOf(t) : paid[l] \in [Denoms -> Nat]
    BY <1>2 DEF AccountInv, TypeOK, AllCoins
  <2>2. \A l \in LeasesOf(t) : Plus(paid[l], NoCoins) = paid[l]
    BY <2>1 DEF Plus, NoCoins
  <2>3. QED
    BY <1>4, <2>2
<1>6. SumCoins(LiveLeasesOf(t), x) \in AllCoins
  BY <1>2, <1>3, <1>4, SumCoinsType
<1>7. credit[t] \in AllCoins /\ credit'[t] \in AllCoins
  BY DEF AccountInv, TypeOK
<1> HIDE DEF x
<1>8. \A d \in Denoms : credit[t][d] <= credit'[t][d] + SumCoins(LiveLeasesOf(t), x)[d]
  BY <1>6, <1>7 DEF AllCoins
<1>9. QED
  BY <1>1, <1>5, <1>8, CoveredKept

(* A settled batch. *)
LEMMA SettlementCovered ==
  ASSUME AccountInv, MeterInv, TypeOK', leaseSeq' = leaseSeq,
         \A l \in 1 .. leaseSeq : LeaseStep(l),
         NEW order, IsBatch(order), PerformSettlement(order),
         NEW t \in Tenants, Covered(t)
  PROVE  Covered(t)'
<1> DEFINE A == LeasesOf(t)
           L == LiveLeasesOf(t)
           O == OfTenant(order, t)
           X == Transfers(order)
           x == [l \in A |-> IF l \in DOMAIN order THEN X[l] ELSE NoCoins]
<1>1. TermsKept /\ LeasesOf(t)' = LeasesOf(t) /\ LiveLeasesOf(t)' \subseteq LiveLeasesOf(t)
  BY TermsStay
<1>2. /\ TypeOK /\ A \in SUBSET (1 .. leaseSeq) /\ L \in SUBSET A
      /\ DOMAIN order \subseteq 1 .. leaseSeq
  BY DEF AccountInv, LeasesOf, LiveLeasesOf, IsBatch
<1>3. O = A \cap DOMAIN order
  BY <1>2 DEF OfTenant, LeasesOf
<1>4. IsFiniteSet(A) /\ NoCoins \in AllCoins
  BY <1>2, LeaseSetsFinite DEF NoCoins, AllCoins
<1>5. \A l \in DOMAIN order : X[l] = CalculateTransferAmounts(order, l) /\ X[l] \in AllCoins
  BY <1>2, TransferType DEF Transfers
<1>6. \A l \in A : /\ x[l] \in AllCoins
                   /\ l \in DOMAIN order => x[l] = X[l]
                   /\ l \notin DOMAIN order => x[l] = NoCoins
  BY <1>4, <1>5
<1> HIDE DEF x
<1>7. \A l \in A : paid'[l] = Plus(paid[l], x[l])
  <2>1. \A l \in A : paid[l] \in [Denoms -> Nat]
    BY <1>2 DEF TypeOK, AllCoins
  <2>2. \A l \in A : Plus(paid[l], NoCoins) = paid[l]
    BY <2>1 DEF Plus, NoCoins
  <2>3. QED
    BY ZenonT(30), <1>2, <1>5, <1>6, <2>2 DEF PerformSettlement
<1>8. SumCoins(A, x) = SumCoins(O, x) /\ SumCoins(O, x) = SumCoins(O, X)
  <2>1. O \in SUBSET A /\ \A l \in A \ O : x[l] = NoCoins
    BY ZenonT(30), <1>3, <1>6
  <2>2. \A l \in O : x[l] = X[l]
    BY <1>3, <1>6
  <2> HIDE DEF A, O, X
  <2>3. QED
    BY <1>4, <1>6, <2>1, <2>2, SumCoinsSupport, SumCoinsCong
<1>9. SumCoins(A, x) = SumCoins(L, x)
  <2>1. ASSUME NEW l \in A \ L PROVE x[l] = NoCoins
    <3>1. leases[l].state # "ACTIVE"
      BY DEF LiveLeasesOf
    <3>2. QED
      BY ZenonT(30), <1>2, <1>5, <1>6, <3>1, OnlyActiveAccrues
  <2> HIDE DEF A, L
  <2>2. QED
    BY ZenonT(30), <1>2, <1>4, <1>6, <2>1, SumCoinsSupport
<1>10. /\ credit[t] = Plus(Minus(credit[t], Demands(O)), SumCoins(O, X))
       /\ SumCoins(O, X) \in AllCoins /\ Minus(credit[t], Demands(O)) \in AllCoins
  BY <1>2, TenantPays
<1>11. credit'[t] = Minus(credit[t], Demands(O))
  BY ZenonT(30) DEF PerformSettlement, OfTenant
<1>12. \A d \in Denoms : credit[t][d] = credit'[t][d] + SumCoins(L, x)[d]
  BY <1>8, <1>9, <1>10, <1>11 DEF Plus
<1>13. \A d \in Denoms : credit[t][d] <= credit'[t][d] + SumCoins(L, x)[d]
  <2>1. credit[t] \in AllCoins
    BY <1>2 DEF TypeOK
  <2>2. \A d \in Denoms : credit[t][d] \in Nat
    BY <2>1 DEF AllCoins
  <2>3. QED
    BY <1>12, <2>2
<1>14. QED
  BY <1>1, <1>6, <1>7, <1>13, CoveredKept

(* What is left of the reservations is at most what is reserved. *)
LEMMA UnspentReserved ==
  ASSUME AccountInv, NEW t \in Tenants, NEW d \in Denoms
  PROVE  /\ Unspent(LiveLeasesOf(t)) \in AllCoins /\ accounts[t].reserved \in AllCoins
         /\ Unspent(LiveLeasesOf(t))[d] <= accounts[t].reserved[d]
<1> DEFINE L == LiveLeasesOf(t)
           R == [l \in L |-> GetLeaseReservationAmount(leases[l])]
           U == [l \in L |-> Minus(GetLeaseReservationAmount(leases[l]), paid[l])]
<1>1. TypeOK /\ L \in SUBSET (1 .. leaseSeq)
  BY DEF AccountInv, LeasesOf, LiveLeasesOf
<1>2. IsFiniteSet(L)
  BY <1>1, LeaseSetsFinite
<1>3. \A l \in L : R[l] \in AllCoins /\ paid[l] \in AllCoins /\ U[l] = Minus(R[l], paid[l])
  BY <1>1, LeaseAmounts DEF TypeOK
<1>4. Unspent(L) = SumCoins(L, U) /\ accounts[t].reserved = SumCoins(L, R)
  BY DEF Unspent, AccountInv, ReservationsMatch, Reservations
<1> HIDE DEF L, R, U
<1>5. \A l \in L : R[l] \in AllCoins /\ U[l] \in AllCoins /\ U[l][d] <= R[l][d]
  <2>1. \A c1, c2 \in AllCoins : Minus(c1, c2) \in AllCoins /\ Minus(c1, c2)[d] <= c1[d]
    BY DEF Minus, Monus, AllCoins
  <2>2. QED
    BY <1>3, <2>1
<1>6. SumCoins(L, U)[d] <= SumCoins(L, R)[d]
  BY <1>2, <1>5, SumCoinsMonotone
<1>7. SumCoins(L, U) \in AllCoins /\ SumCoins(L, R) \in AllCoins
  BY <1>2, <1>5, SumCoinsType
<1>8. QED
  BY <1>4, <1>6, <1>7 DEF L

(* Creation: the credit that is not reserved covers the new reservation. *)
LEMMA CreationCovered ==
  ASSUME AccountInv, TypeOK', NEW t \in Tenants, NEW p,
         NEW n \in Nat, NEW items \in [1 .. n -> Item],
         createLeaseInternal(t, p, items), NEW u \in Tenants, Covered(u)
  PROVE  Covered(u)'
<1> DEFINE rates == TotalRatesPerSecond(items)
           reservation == CalculateLeaseReservationFromRates(rates, params.minDur)
<1>y. PICK y : y = leaseSeq + 1
  OBVIOUS
<1>1. /\ leaseSeq' = y
      /\ leases' = Extend(leases, y, NewLease(t, p, rates))
      /\ paid' = Extend(paid, y, NoCoins)
      /\ credit' = credit /\ params' = params
      /\ \A d \in Denoms : GetAvailableCredit(t)[d] >= reservation[d]
  BY <1>y DEF createLeaseInternal
<1>2. /\ TypeOK
      /\ leaseSeq \in Nat /\ leases \in [1 .. leaseSeq -> Lease]
      /\ paid \in [1 .. leaseSeq -> AllCoins] /\ credit[u] \in AllCoins
      /\ params.minDur \in Nat /\ ValidParams(params)
  BY DEF AccountInv, TypeOK, Params
<1> HIDE DEF rates, reservation
<1>3. /\ 1 .. leaseSeq' = (1 .. leaseSeq) \cup {y} /\ y \notin 1 .. leaseSeq
      /\ leases'[y].tenant = t /\ leases'[y].state = "PENDING"
      /\ leases'[y].rates = rates /\ leases'[y].minDur = params.minDur
      /\ paid'[y] = NoCoins
      /\ \A l \in 1 .. leaseSeq : leases'[l] = leases[l] /\ paid'[l] = paid[l]
  <2>1. 1 .. leaseSeq' = (1 .. leaseSeq) \cup {y} /\ y \notin 1 .. leaseSeq
    BY <1>y, <1>1, <1>2
  <2>2. leases'[y] = NewLease(t, p, rates) /\ paid'[y] = NoCoins
    BY <1>y, <1>1, <1>2 DEF Extend
  <2>3. \A l \in 1 .. leaseSeq : leases'[l] = leases[l] /\ paid'[l] = paid[l]
    BY <1>y, <1>1, <1>2 DEF Extend
  <2>4. QED
    BY <2>1, <2>2, <2>3 DEF NewLease
<1>p. params' = params
  BY <1>1
<1>4. \A l \in 1 .. leaseSeq :
        GetLeaseReservationAmount(leases[l])' = GetLeaseReservationAmount(leases[l])
  BY <1>p, <1>3 DEF GetLeaseReservationAmount
<1>5. GetLeaseReservationAmount(leases[y])' = reservation
  BY <1>p, <1>3 DEF GetLeaseReservationAmount, reservation
<1>6. reservation \in AllCoins
  BY ZenonT(30), <1>2, RatesType, CoinOps
  DEF reservation, rates, CalculateLeaseReservationFromRates
<1> DEFINE L == LiveLeasesOf(u)
           U == [l \in L |-> Minus(GetLeaseReservationAmount(leases[l]), paid[l])]
<1>7. L \in SUBSET (1 .. leaseSeq) /\ LeasesOf(u) \subseteq 1 .. leaseSeq
  BY DEF LeasesOf, LiveLeasesOf
<1>8. Unspent(L) = SumCoins(L, U)
  BY DEF Unspent
<1>9. \A l \in L : /\ U[l] = Minus(GetLeaseReservationAmount(leases[l])', paid'[l])
                   /\ U[l] \in AllCoins
  BY <1>2, <1>3, <1>4, <1>7, LeaseAmounts, CoinOps
<1>10. \A l \in LeasesOf(u) : WithinReservation(l)' = WithinReservation(l)
  BY ZenonT(30), <1>3, <1>4, <1>7 DEF WithinReservation
<1>11. CASE u # t
  <2>1. LeasesOf(u)' = LeasesOf(u) /\ LiveLeasesOf(u)' = LiveLeasesOf(u)
    BY ZenonT(30), <1>3, <1>11 DEF LeasesOf, LiveLeasesOf
  <2> DEFINE N == [l \in L |-> Minus(GetLeaseReservationAmount(leases[l])', paid'[l])]
  <2>2. Unspent(L)' = SumCoins(L, N)
    BY ZenonT(30), <2>1 DEF Unspent
  <2>3. \A l \in L : U[l] = N[l]
    BY ZenonT(30), <1>9
  <2> HIDE DEF U, N
  <2>4. SumCoins(L, U) = SumCoins(L, N)
    BY <2>3, SumCoinsCong
  <2>5. QED
    BY ZenonT(30), <1>1, <1>8, <1>10, <2>1, <2>2, <2>4 DEF Covered
<1>12. CASE u = t
  <2>1. LeasesOf(u)' = LeasesOf(u) \cup {y} /\ LiveLeasesOf(u)' = L \cup {y} /\ y \notin L
    BY ZenonT(30), <1>3, <1>7, <1>12 DEF LeasesOf, LiveLeasesOf
  <2> DEFINE N == [l \in L \cup {y} |->
                     Minus(GetLeaseReservationAmount(leases[l])', paid'[l])]
  <2>2. Unspent(L)' = SumCoins(L \cup {y}, N)
    BY ZenonT(30), <2>1 DEF Unspent
  <2>3. N[y] = reservation
    <3>1. N[y] = Minus(reservation, NoCoins)
      BY <1>3, <1>5
    <3>2. Minus(reservation, NoCoins) = reservation
      BY <1>6 DEF Minus, Monus, NoCoins, AllCoins
    <3>3. QED
      BY ZenonT(30), <3>1, <3>2
  <2>4. \A l \in L : U[l] = N[l] /\ N[l] \in AllCoins
    BY <1>9
  <2>5. IsFiniteSet(L)
    BY <1>2, <1>7, LeaseSetsFinite
  <2> HIDE DEF U, N
  <2>6. SumCoins(L \cup {y}, N) = Plus(SumCoins(L, N), reservation)
    <3>1. \A l \in L \cup {y} : N[l] \in AllCoins
      BY <1>6, <2>3, <2>4
    <3>2. SumCoins(L \cup {y}, N) = Plus(SumCoins(L, N), N[y])
      BY <2>1, <2>5, <3>1, SumCoinsAdd
    <3>3. QED
      BY <2>3, <3>2
  <2>7. SumCoins(L, U) = SumCoins(L, N)
    BY <2>4, SumCoinsCong
  <2>8. ASSUME NEW d \in Denoms, Unspent(L)[d] <= credit[u][d]
        PROVE  Unspent(L)[d] + reservation[d] <= credit[u][d]
    <3>1. /\ Unspent(L) \in AllCoins /\ accounts[t].reserved \in AllCoins
          /\ Unspent(L)[d] <= accounts[t].reserved[d]
      BY <1>12, UnspentReserved
    <3>2. Monus(credit[u][d], accounts[t].reserved[d]) >= reservation[d]
      BY <1>1, <1>12 DEF GetAvailableCredit, Minus
    <3>3. /\ Unspent(L)[d] \in Nat /\ accounts[t].reserved[d] \in Nat
          /\ reservation[d] \in Nat /\ credit[u][d] \in Nat
      BY <1>2, <1>6, <3>1 DEF AllCoins
    <3>4. QED
      BY <2>8, <3>1, <3>2, <3>3 DEF Monus
  <2>9. \A d \in Denoms : (Unspent(L)')[d] = Unspent(L)[d] + reservation[d]
    BY <1>8, <2>2, <2>6, <2>7 DEF Plus
  <2>10. QED
    BY ZenonT(30), <1>1, <1>10, <2>1, <2>8, <2>9 DEF Covered
<1>13. QED
  BY <1>11, <1>12

(* The invariants that coverage needs, and coverage itself, together. *)
CoverInv == AccountInv /\ MeterInv /\ ReservationsCovered

(* Every message and every block keeps the reservations covered. *)
LEMMA BillingCovered ==
  ASSUME CoverInv, TypeOK', BillingNext, UNCHANGED skuVars, NEW t \in Tenants
  PROVE  Covered(t)'
<1>1. /\ AccountInv /\ MeterInv /\ Covered(t) /\ TypeOK
      /\ [Next]_vars
  BY DEF CoverInv, ReservationsCovered, Covered, Next, AccountInv
<1>2. /\ \A l \in 1 .. leaseSeq : LeaseStep(l)
      /\ credit \in [Tenants -> AllCoins]
  BY <1>1, LeaseSteps DEF TypeOK
<1>3. ASSUME UNCHANGED <<leaseSeq, paid, credit>> PROVE Covered(t)'
  <2>1. \A d \in Denoms : credit[t][d] <= credit'[t][d]
    BY <1>2, <1>3 DEF AllCoins
  <2>2. QED
    BY <1>1, <1>2, <1>3, <2>1, QuietCovered
<1>4. CASE CreditNext
  <2>1. PICK sender \in Accounts, u \in Tenants, d \in Denoms, amount \in FundAmounts :
          FundCredit(sender, u, d, amount) \/ BankSend(sender, u, d, amount)
    BY <1>4 DEF CreditNext
  <2>2. /\ amount \in Nat /\ UNCHANGED <<leaseSeq, paid>>
        /\ credit' = [credit EXCEPT ![u][d] = @ + amount]
    BY <2>1, BillingAssumption DEF FundCredit, BankSend
  <2>3. \A e \in Denoms : credit[t][e] <= credit'[t][e]
    BY <1>2, <2>2 DEF AllCoins
  <2>4. QED
    BY <1>1, <1>2, <2>2, <2>3, QuietCovered
<1>5. CASE CreationNext
  <2>1. PICK u \in Tenants, p \in 1 .. providerSeq, n \in 1 .. params.maxItems :
          \E items \in [1 .. n -> Item] : createLeaseInternal(u, p, items)
    BY <1>5 DEF CreationNext, CreateLease, CreateLeaseForTenant
  <2>2. n \in Nat
    BY <2>1
  <2>3. QED
    BY <1>1, <2>1, <2>2, CreationCovered
<1>6. CASE PendingNext
  <2>1. UNCHANGED <<leaseSeq, paid, credit>>
    BY ZenonT(30), <1>6 DEF PendingNext, AcknowledgeLease, RejectLease, CancelLease
  <2>2. QED
    BY <1>3, <2>1
<1>7. CASE SettlementNext
  <2>1. PICK order : SettlesBatch(order)
    BY <1>1, <1>7, SettlementsAreBatches
  <2>2. QED
    BY <1>1, <1>2, <2>1, SettlementCovered DEF SettlesBatch
<1>8. CASE \E sender \in Accounts, p \in ParamChoices : UpdateParams(sender, p)
  BY <1>3, <1>8 DEF UpdateParams
<1>9. CASE \E dt \in TimeSteps : NextBlock(dt)
  BY <1>3, <1>9 DEF NextBlock
<1>10. QED
  BY <1>4, <1>5, <1>6, <1>7, <1>8, <1>9 DEF BillingNext

(* The inductive step, changes of the catalogue included. *)
LEMMA NextCoverInv == CoverInv /\ [Next]_vars => CoverInv'
<1> SUFFICES ASSUME CoverInv, [Next]_vars PROVE CoverInv'
  OBVIOUS
<1>1. AccountInv' /\ MeterInv'
  BY NextAccountInv, NextMeterInv DEF CoverInv
<1>2. TypeOK'
  BY <1>1 DEF AccountInv
<1>3. CASE BillingNext /\ UNCHANGED skuVars
  <2>1. \A t \in Tenants : Covered(t)'
    BY <1>2, <1>3, BillingCovered
  <2>2. QED
    BY <1>1, <2>1 DEF CoverInv, ReservationsCovered, Covered
<1>4. CASE UNCHANGED billingVars
  <2>1. ReservationsCovered' = ReservationsCovered
    BY <1>4 DEF billingVars, ReservationsCovered, LeasesOf, LiveLeasesOf,
       WithinReservation, Unspent, GetLeaseReservationAmount
  <2>2. QED
    BY <1>1, <2>1 DEF CoverInv
<1>5. QED
  BY <1>3, <1>4 DEF Next, vars

(* A new ledger has no lease to cover. *)
LEMMA InitCoverInv == Init => CoverInv
<1>1. Init => ReservationsCovered
  <2> SUFFICES ASSUME Init, NEW t \in Tenants, NEW d \in Denoms
               PROVE  Unspent(LiveLeasesOf(t))[d] <= credit[t][d]
    BY DEF ReservationsCovered
  <2>1. LiveLeasesOf(t) = {}
    BY DEF Init, BillingInit, LiveLeasesOf, LeasesOf
  <2>2. Unspent(LiveLeasesOf(t)) = NoCoins
    BY <2>1, SumCoinsEmpty DEF Unspent
  <2>3. credit[t] \in AllCoins
    BY InitTypeOK DEF TypeOK
  <2>4. QED
    BY <2>2, <2>3 DEF NoCoins, AllCoins
<1>2. QED
  BY <1>1, InitAccountInv, InitMeterInv DEF CoverInv

(***************************************************************************)
(* For any number of tenants, leases and batches: while no lease of a      *)
(* tenant was charged more than its own reservation, the tenant's credit   *)
(* covers what every live lease has left of its reservation.               *)
(***************************************************************************)
THEOREM ReservationsAlwaysCovered == Spec => []ReservationsCovered
<1>1. CoverInv => ReservationsCovered
  BY DEF CoverInv
<1>2. QED
  BY <1>1, InitCoverInv, NextCoverInv, PTL DEF Spec

-----------------------------------------------------------------------------
(* Overdue leases expire in turn *)

(* A block that passes over an overdue lease takes as many as it may, all  *)
(* of them pending leases that were created before.                        *)
LEMMA ExpiringBefore ==
  ASSUME TypeOK, NEW l \in 1 .. leaseSeq, Overdue(l), l \notin ExpiringLeases
  PROVE  /\ Cardinality(ExpiringLeases) = MaxPendingLeaseExpirationsPerBlock
         /\ ExpiringLeases \subseteq PendingBefore(l)
<1> DEFINE O   == {m \in 1 .. leaseSeq : Overdue(m)}
           pos == [m \in O |-> m]
           Max == MaxPendingLeaseExpirationsPerBlock
<1>1. O \in SUBSET (1 .. leaseSeq) /\ l \in O /\ leaseSeq \in Nat /\ Max \in Nat
  BY BillingAssumption DEF TypeOK
<1>2. IsFiniteSet(O)
  BY <1>1, LeaseSetsFinite
<1>3. pos \in Positions(O, leaseSeq)
  BY <1>1 DEF Positions
<1>4. \A k \in O : {m \in O : m < k} = {m \in O : pos[m] < pos[k]} /\ pos[k] = k
  OBVIOUS
<1>5. ExpiringLeases = {k \in O : Cardinality({m \in O : m < k}) < Max}
  BY DEF ExpiringLeases
<1>6. \A k \in O : Overdue(k)
  OBVIOUS
<1> HIDE DEF O, pos, Max
<1>7. \A k \in O : Cardinality({m \in O : m < k}) = Rank(O, pos, k)
  BY <1>4 DEF Rank, Preceding
<1>8. ExpiringLeases = {k \in O : Rank(O, pos, k) < Max}
  BY <1>5, <1>7
<1>9. ~(Rank(O, pos, l) < Max)
  BY <1>1, <1>8
<1>10. /\ Cardinality({k \in O : Rank(O, pos, k) < Max}) = Max
       /\ \A k \in O : Rank(O, pos, k) < Max => pos[k] < pos[l]
  BY <1>1, <1>2, <1>3, <1>9, FirstRanks
<1>11. \A k \in ExpiringLeases : k \in O /\ k < l /\ leases[k].state = "PENDING"
  <2>1. \A k \in ExpiringLeases : k \in O /\ pos[k] < pos[l]
    BY <1>8, <1>10
  <2>2. \A k \in O : leases[k].state = "PENDING"
    BY <1>6 DEF Overdue
  <2>3. QED
    BY ZenonT(30), <1>1, <1>4, <2>1, <2>2
<1>12. \A k \in ExpiringLeases : k \in 1 .. l - 1
  <2>1. \A k \in 1 .. leaseSeq : k < l => k \in 1 .. l - 1
    BY <1>1
  <2>2. QED
    BY ZenonT(30), <1>1, <1>11, <2>1
<1>13. ExpiringLeases \subseteq PendingBefore(l)
  BY <1>11, <1>12 DEF PendingBefore
<1>14. QED
  BY <1>8, <1>10, <1>13 DEF Max

(* What a block leaves of the leases: every lease it collects expires, for *)
(* its tenant has an account.                                              *)
LEMMA BlockExpires ==
  ASSUME AccountInv, NEW dt, NextBlock(dt), NEW m \in 1 .. leaseSeq
  PROVE  leases'[m].state = IF m \in ExpiringLeases THEN "EXPIRED" ELSE leases[m].state
<1> DEFINE S == {k \in ExpiringLeases : accounts[leases[k].tenant].exists}
<1>1. leases[m] \in Lease
  BY DEF AccountInv, TypeOK
<1>2. m \in LeasesOf(leases[m].tenant) /\ leases[m].tenant \in Tenants
  BY <1>1 DEF LeasesOf, Lease
<1>3. accounts[leases[m].tenant].exists
  BY <1>2 DEF AccountInv, CountsMatch
<1>4. m \in S <=> m \in ExpiringLeases
  BY <1>3
<1>5. DropPending(S, "EXPIRED")
  BY DEF NextBlock
<1> HIDE DEF S
<1>6. leases'[m] = IF m \in S THEN [leases[m] EXCEPT !.state = "EXPIRED", !.endedAt = now]
                              ELSE leases[m]
  BY ZenonT(30), <1>5 DEF DropPending
<1>7. QED
  BY <1>1, <1>4, <1>6 DEF Lease

(* A block expires an overdue lease or moves it ahead. *)
LEMMA BlockServes ==
  ASSUME AccountInv, NEW dt, NextBlock(dt), NEW l \in 1 .. leaseSeq, Overdue(l)
  PROVE  \/ leases'[l].state = "EXPIRED"
         \/ Cardinality(PendingBefore(l)') + MaxPendingLeaseExpirationsPerBlock
              <= Cardinality(PendingBefore(l))
<1>1. CASE l \in ExpiringLeases
  BY <1>1, BlockExpires
<1>2. CASE l \notin ExpiringLeases
  <2> DEFINE P == PendingBefore(l)
             E == ExpiringLeases
  <2>1. TypeOK /\ leaseSeq \in Nat
    BY DEF AccountInv, TypeOK
  <2>2. Cardinality(E) = MaxPendingLeaseExpirationsPerBlock /\ E \in SUBSET P
    BY <1>2, <2>1, ExpiringBefore
  <2>3. 1 .. l - 1 \subseteq 1 .. leaseSeq
    BY <2>1
  <2>4. P \in SUBSET (1 .. leaseSeq)
    BY <2>3 DEF PendingBefore
  <2>5. IsFiniteSet(P)
    BY <2>1, <2>4, LeaseSetsFinite
  <2>6. PendingBefore(l)' = P \ E
    BY <2>3, BlockExpires DEF PendingBefore
  <2> HIDE DEF P, E
  <2>7. P \cap E = E
    BY <2>2
  <2>8. Cardinality(P \ E) = Cardinality(P) - Cardinality(E)
    BY ZenonT(30), <2>5, <2>7, FS_Difference
  <2>9. Cardinality(P) \in Nat
    BY <2>5, FS_CardinalityType
  <2>10. QED
    BY <2>2, <2>6, <2>8, <2>9, BillingAssumption DEF P
<1>3. QED
  BY <1>1, <1>2

(* No step makes a lease PENDING that was there before. *)
LEMMA PendingOnce ==
  ASSUME MeterInv, NEW m \in 1 .. leaseSeq, LeaseStep(m), leases'[m].state = "PENDING"
  PROVE  leases[m].state = "PENDING"
<1>1. leases[m] \in Lease
  BY DEF MeterInv, TypeOK
<1>2. CASE Untouched(m)
  BY <1>2 DEF Untouched
<1>3. CASE Acknowledged(m) \/ \E state \in {"REJECTED", "EXPIRED"} : Dropped(m, state)
  BY <1>3 DEF Acknowledged, Dropped
<1>4. CASE Metered(m)
  BY <1>1, <1>4 DEF Metered, Lease
<1>5. ASSUME NEW exhausted \in BOOLEAN, Ended(m, exhausted) PROVE FALSE
  BY <1>1, <1>5 DEF Ended, Closed, Lease
<1>6. QED
  BY <1>2, <1>3, <1>4, <1>5 DEF LeaseStep

(***************************************************************************)
(* EndBlocker starves no lease, whatever the number of leases, the limit   *)
(* per block and the messages in between: with n pending leases before it, *)
(* an overdue lease is served after n blocks at the latest.  This is what  *)
(* OverdueExpires rests on besides the fairness of blocks.                 *)
(***************************************************************************)
THEOREM ExpiryAlwaysInTurn == Spec => ExpiryInTurn
<1> DEFINE InTurn ==
      \A l \in 1 .. leaseSeq :
        Overdue(l) =>
          /\ PendingBefore(l)' \subseteq PendingBefore(l)
          /\ (\E dt \in TimeSteps : NextBlock(dt)) =>
               \/ leases'[l].state = "EXPIRED"
               \/ Cardinality(PendingBefore(l)') + MaxPendingLeaseExpirationsPerBlock
                    <= Cardinality(PendingBefore(l))
<1>1. ASSUME AccountInv, MeterInv, [Next]_vars, NEW l \in 1 .. leaseSeq
      PROVE  PendingBefore(l)' \subseteq PendingBefore(l)
  <2>1. \A m \in 1 .. l - 1 : m \in 1 .. leaseSeq
    BY <1>1 DEF MeterInv, TypeOK
  <2>2. \A m \in 1 .. leaseSeq : LeaseStep(m)
    BY <1>1, LeaseSteps
  <2>3. \A m \in 1 .. l - 1 : leases'[m].state = "PENDING" => leases[m].state = "PENDING"
    BY ZenonT(30), <1>1, <2>1, <2>2, PendingOnce
  <2>4. QED
    BY <2>3 DEF PendingBefore
<1>2. AccountInv /\ MeterInv /\ [Next]_vars => [InTurn]_vars
  BY <1>1, BlockServes
<1>3. QED
  BY <1>2, InitAccountInv, NextAccountInv, InitMeterInv, NextMeterInv, PTL
  DEF Spec, ExpiryInTurn

-----------------------------------------------------------------------------
(* Tenants may close their leases *)

(***************************************************************************)
(* The conditions of CloseLease hold for the tenant of an ACTIVE lease and *)
(* that lease alone: TenantCanClose without ENABLED, which the effects of  *)
(* CloseLease, being assignments, do not restrict.                         *)
(***************************************************************************)
TenantMayClose ==
  \A l \in 1 .. leaseSeq :
    leases[l].state = "ACTIVE" => CloseAllowed(leases[l].tenant, {l})

(***************************************************************************)
(* Whatever happened to its provider, to the SKUs and to the parameters,   *)
(* an ACTIVE lease can be closed by its tenant: the account is there, and  *)
(* the settlement time is not ahead of the clock.                          *)
(***************************************************************************)
THEOREM TenantAlwaysMayClose == Spec => []TenantMayClose
<1>1. ASSUME AccountInv, MeterInv, NEW l \in 1 .. leaseSeq, leases[l].state = "ACTIVE"
      PROVE  CloseAllowed(leases[l].tenant, {l})
  <2>1. leases[l].tenant \in Tenants /\ l \in LeasesOf(leases[l].tenant)
    BY <1>1 DEF AccountInv, TypeOK, Lease, LeasesOf
  <2>2. accounts[leases[l].tenant].exists
    BY <1>1, <2>1 DEF AccountInv, CountsMatch
  <2>3. NotSettledInFuture(leases[l])
    BY <1>1 DEF MeterInv, SettlementTimes, NotSettledInFuture
  <2>4. Cardinality({l}) = 1
    BY FS_Singleton
  <2>5. ValidBatch({l})
    BY <2>4, BillingAssumption DEF ValidBatch
  <2>6. ClosedBy(leases[l].tenant, leases[l]) \in {"authority", "tenant"}
    BY DEF ClosedBy
  <2>7. QED
    BY <1>1, <2>2, <2>3, <2>5, <2>6 DEF CloseAllowed
<1>2. AccountInv /\ MeterInv => TenantMayClose
  BY <1>1 DEF TenantMayClose
<1>3. QED
  BY <1>2, InitAccountInv, NextAccountInv, InitMeterInv, NextMeterInv, PTL DEF Spec

-----------------------------------------------------------------------------
(* The ledger beside x/manifest *)

(* What is kept when the authority mints and burns meanwhile. *)
LedgerInv == CoverInv /\ ChargesBounded /\ ChargesExact /\ OnlyClosedExhausted

(* A payout or a burn touches no lease and takes no credit. *)
LEMMA ManifestTakesNoCredit ==
  ASSUME TypeOK, ManifestNext
  PROVE  /\ UNCHANGED <<now, params, leaseSeq, leases, accounts, paid>>
         /\ \A t \in Tenants, d \in Denoms : credit[t][d] <= credit'[t][d]
<1>0. \A t \in Tenants : credit[t] \in AllCoins
  BY DEF TypeOK
<1>1. ASSUME NEW sender \in Accounts, NEW pays \in Payouts, Payout(sender, pays),
             NEW t \in Tenants, NEW d \in Denoms
      PROVE  credit[t][d] <= credit'[t][d]
  <2>1. credit'[t] = Plus(credit[t], PaidTo(pays, <<"credit", t>>))
    BY <1>1 DEF Payout
  <2>2. PaidTo(pays, <<"credit", t>>) \in AllCoins
    BY PayoutType
  <2>3. credit[t][d] \in Nat /\ PaidTo(pays, <<"credit", t>>)[d] \in Nat
    BY <1>0, <2>2 DEF AllCoins
  <2>4. credit'[t][d] = credit[t][d] + PaidTo(pays, <<"credit", t>>)[d]
    BY <2>1 DEF Plus
  <2>5. QED
    BY <2>3, <2>4
<1>2. ASSUME NEW sender \in Accounts, NEW coins, BurnHeldBalance(sender, coins),
             NEW t \in Tenants, NEW d \in Denoms
      PROVE  credit[t][d] <= credit'[t][d]
  BY <1>0, <1>2 DEF BurnHeldBalance, AllCoins
<1>3. UNCHANGED <<now, params, leaseSeq, leases, accounts, paid>>
  BY DEF ManifestNext, Payout, BurnHeldBalance
<1>4. QED
  BY <1>1, <1>2, <1>3 DEF ManifestNext

(* Payouts and burns keep the invariants. *)
LEMMA ManifestKeeps ==
  ASSUME LedgerInv, TypeOK', ManifestNext, UNCHANGED skuVars
  PROVE  LedgerInv'
<1>1. AccountInv /\ MeterInv /\ TypeOK
  BY DEF LedgerInv, CoverInv, AccountInv
<1>2. /\ UNCHANGED <<now, params, leaseSeq, leases, accounts, paid>>
      /\ \A t \in Tenants, d \in Denoms : credit[t][d] <= credit'[t][d]
  BY <1>1, ManifestTakesNoCredit
<1>3. AccountInv'
  BY <1>1, <1>2, QuietKeeps
<1>4. MeterInv'
  BY <1>1, <1>2 DEF MeterInv, SettlementTimes
<1>5. ASSUME NEW t \in Tenants PROVE Covered(t)'
  <2>1. \A l \in 1 .. leaseSeq : LeaseStep(l)
    BY <1>2 DEF LeaseStep, Untouched
  <2>2. Covered(t)
    BY DEF LedgerInv, CoverInv, ReservationsCovered, Covered
  <2>3. QED
    BY <1>1, <1>2, <2>1, <2>2, QuietCovered
<1>6. ReservationsCovered'
  BY <1>5 DEF ReservationsCovered, Covered
<1>7. ChargesBounded' /\ ChargesExact' /\ OnlyClosedExhausted'
  BY <1>2 DEF LedgerInv, ChargesBounded, ChargesExact, OnlyClosedExhausted
<1>8. QED
  BY <1>3, <1>4, <1>6, <1>7 DEF LedgerInv, CoverInv

(* Every step of the ledger and of x/manifest keeps them. *)
LEMMA NextLedgerInv == LedgerInv /\ [LedgerNext]_vars => LedgerInv'
<1> SUFFICES ASSUME LedgerInv, [LedgerNext]_vars PROVE LedgerInv'
  OBVIOUS
<1>1. TypeOK'
  BY LedgerNextTypeOK DEF LedgerInv, CoverInv, AccountInv
<1>2. CASE [Next]_vars
  <2>1. CoverInv' /\ MeterInv /\ MeterInv'
    BY <1>2, NextCoverInv DEF LedgerInv, CoverInv
  <2>2. ChargesBounded'
    BY <1>2, <2>1, NextChargesBounded DEF LedgerInv
  <2>3. ChargesExact' /\ OnlyClosedExhausted'
    BY <1>2, <2>1, NextChargesExact DEF LedgerInv
  <2>4. QED
    BY <2>1, <2>2, <2>3 DEF LedgerInv
<1>3. CASE ManifestNext /\ UNCHANGED skuVars
  BY <1>1, <1>3, ManifestKeeps
<1>4. QED
  BY <1>2, <1>3 DEF LedgerNext, Next

(* The invariants that a new ledger begins with. *)
LEMMA InitLedgerInv == Init => LedgerInv
<1> SUFFICES ASSUME Init PROVE LedgerInv
  OBVIOUS
<1>1. CoverInv
  BY InitCoverInv
<1>2. QED
  BY <1>1 DEF LedgerInv, Init, BillingInit, ChargesBounded, ChargesExact,
     OnlyClosedExhausted

(***************************************************************************)
(* The credit accounts, the charges and the coverage of the reservations   *)
(* stay right while the authority mints coins into credit addresses and    *)
(* wallets and burns coins it has earned.                                  *)
(***************************************************************************)
THEOREM LedgerAlwaysSafe ==
  LedgerSpec => [](/\ ReservationsMatch /\ CountsMatch /\ SettlementTimes
                   /\ ChargesBounded /\ ChargesExact /\ ReservationsCovered)
<1>1. LedgerInv => /\ ReservationsMatch /\ CountsMatch /\ SettlementTimes
                   /\ ChargesBounded /\ ChargesExact /\ ReservationsCovered
  BY DEF LedgerInv, CoverInv, AccountInv, MeterInv
<1>2. QED
  BY <1>1, InitLedgerInv, NextLedgerInv, PTL DEF LedgerSpec

-----------------------------------------------------------------------------
(* The limits per tenant *)

(* The parameters that can come into force. *)
ParamsInForce == ParamChoices \cup {GenesisParams}

(***************************************************************************)
(* What max_leases_per_tenant and max_pending_leases_per_tenant amount to. *)
(* createLeaseInternal compares each count with its own limit, and an      *)
(* acknowledgement compares nothing: pending leases may all turn active.   *)
(* A tenant can so have more active leases than max_leases_per_tenant, but *)
(* never as many leases, active and pending, as the two limits together.   *)
(* The limits are those in force at the latest creation, hence the \E.     *)
(***************************************************************************)
LiveLeasesBounded ==
  \A t \in Tenants :
    /\ \E q \in ParamsInForce : Cardinality(InState(t, "PENDING")) <= q.maxPending
    /\ \E q \in ParamsInForce : Cardinality(LiveLeasesOf(t)) < q.maxLeases + q.maxPending

LimitInv == params \in ParamsInForce /\ LiveLeasesBounded

(* Every count is at least zero, every limit on active leases above it. *)
LEMMA LimitsPositive ==
  ASSUME NEW q \in ParamsInForce, ValidParams(q)
  PROVE  q.maxLeases \in Nat /\ q.maxPending \in Nat /\ 0 < q.maxLeases
<1>1. q \in Params
  BY BillingAssumption DEF ParamsInForce
<1>2. QED
  BY <1>1 DEF Params, ValidParams

(* The counts of an account in terms of its tenant's leases. *)
LiveCounted ==
  \A t \in Tenants :
    /\ IsFiniteSet(InState(t, "PENDING")) /\ IsFiniteSet(LiveLeasesOf(t))
    /\ accounts[t].active \in Nat /\ accounts[t].pending \in Nat
    /\ Cardinality(InState(t, "PENDING")) = accounts[t].pending
    /\ Cardinality(LiveLeasesOf(t)) = accounts[t].active + accounts[t].pending

(* Of a tenant's leases, the live ones are the pending and the active ones. *)
LEMMA LiveCount == AccountInv => LiveCounted
<1> SUFFICES ASSUME AccountInv, NEW t \in Tenants
             PROVE  /\ IsFiniteSet(InState(t, "PENDING")) /\ IsFiniteSet(LiveLeasesOf(t))
                    /\ accounts[t].active \in Nat /\ accounts[t].pending \in Nat
                    /\ Cardinality(InState(t, "PENDING")) = accounts[t].pending
                    /\ Cardinality(LiveLeasesOf(t)) = accounts[t].active + accounts[t].pending
  BY DEF LiveCounted
<1>1. /\ InState(t, "PENDING") \in SUBSET (1 .. leaseSeq)
      /\ InState(t, "ACTIVE") \in SUBSET (1 .. leaseSeq)
      /\ LiveLeasesOf(t) \in SUBSET (1 .. leaseSeq)
  BY DEF InState, LiveLeasesOf, LeasesOf
<1>2. TypeOK
  BY DEF AccountInv
<1>3. \A S \in SUBSET (1 .. leaseSeq) : IsFiniteSet(S)
  BY <1>2, LeaseSetsFinite
<1>4. /\ IsFiniteSet(InState(t, "PENDING")) /\ IsFiniteSet(InState(t, "ACTIVE"))
      /\ IsFiniteSet(LiveLeasesOf(t))
  BY <1>1, <1>3
<1>5. /\ LiveLeasesOf(t) = InState(t, "ACTIVE") \cup InState(t, "PENDING")
      /\ InState(t, "ACTIVE") \cap InState(t, "PENDING") = {}
  BY DEF LiveLeasesOf, InState, LeasesOf
<1>6. /\ accounts[t].active = Cardinality(InState(t, "ACTIVE"))
      /\ accounts[t].pending = Cardinality(InState(t, "PENDING"))
  BY DEF AccountInv, CountsMatch
<1>7. /\ Cardinality(InState(t, "ACTIVE")) \in Nat
      /\ Cardinality(InState(t, "PENDING")) \in Nat
  BY <1>4, FS_CardinalityType
<1>8. Cardinality(LiveLeasesOf(t)) =
        Cardinality(InState(t, "ACTIVE")) + Cardinality(InState(t, "PENDING"))
  <2>1. Cardinality(InState(t, "ACTIVE") \cap InState(t, "PENDING")) = 0
    BY <1>5, FS_EmptySet
  <2>2. Cardinality(InState(t, "ACTIVE") \cup InState(t, "PENDING")) =
          Cardinality(InState(t, "ACTIVE")) + Cardinality(InState(t, "PENDING"))
            - Cardinality(InState(t, "ACTIVE") \cap InState(t, "PENDING"))
    BY Zenon, <1>4, FS_Union
  <2>3. QED
    BY <1>5, <1>7, <2>1, <2>2
<1>9. QED
  BY <1>4, <1>6, <1>7, <1>8

(* The same after a step. *)
LEMMA LiveCountedNext == AccountInv' => LiveCounted'
BY LiveCount, PTL

(* One more below each limit stays below both together. *)
LEMMA OneMoreWithin ==
  ASSUME NEW a \in Nat, NEW b \in Nat, NEW m \in Nat, NEW n \in Nat, a < m, b < n
  PROVE  b + 1 <= n /\ a + (b + 1) < m + n
OBVIOUS

(* A creation stays within the limits that it has read. *)
LEMMA CreationWithinLimits ==
  ASSUME AccountInv, AccountInv', params \in ParamsInForce,
         NEW t \in Tenants, NEW p, NEW items, createLeaseInternal(t, p, items),
         NEW u \in Tenants
  PROVE  \/ u # t /\ accounts'[u] = accounts[u]
         \/ /\ Cardinality(InState(u, "PENDING")') <= params.maxPending
            /\ Cardinality(LiveLeasesOf(u)') < params.maxLeases + params.maxPending
<1>1. /\ accounts \in [Tenants -> CreditAccount] /\ ValidParams(params)
  BY DEF AccountInv, TypeOK
<1>2. PICK reservation :
        accounts' = [accounts EXCEPT ![t] = AddPending(accounts[t], reservation)]
  BY ZenonT(30) DEF createLeaseInternal
<1>3. accounts[t].active < params.maxLeases /\ accounts[t].pending < params.maxPending
  BY ZenonT(30) DEF createLeaseInternal
<1>4. CASE u # t
  BY <1>1, <1>2, <1>4
<1>5. CASE u = t
  <2>1. accounts'[t].pending = accounts[t].pending + 1 /\ accounts'[t].active = accounts[t].active
    <3>1. accounts'[t] = AddPending(accounts[t], reservation) /\ accounts[t] \in CreditAccount
      BY <1>1, <1>2
    <3>2. QED
      BY Zenon, <3>1 DEF AddPending, CreditAccount
  <2>2. accounts[t].active \in Nat /\ accounts[t].pending \in Nat
    BY LiveCount DEF LiveCounted
  <2>3. /\ Cardinality(InState(t, "PENDING")') = accounts'[t].pending
        /\ Cardinality(LiveLeasesOf(t)') = accounts'[t].active + accounts'[t].pending
    BY LiveCountedNext DEF LiveCounted
  <2>4. params.maxLeases \in Nat /\ params.maxPending \in Nat
    BY <1>1, LimitsPositive
  <2>5. /\ accounts[t].pending + 1 <= params.maxPending
        /\ accounts[t].active + (accounts[t].pending + 1) < params.maxLeases + params.maxPending
    BY ZenonT(30), <1>3, <2>2, <2>4, OneMoreWithin
  <2>6. QED
    BY ZenonT(30), <1>5, <2>1, <2>3, <2>5
<1>6. QED
  BY <1>4, <1>5

(* Less than what is within a limit is within it. *)
LEMMA FewerWithin ==
  ASSUME NEW a \in Nat, NEW b \in Nat, NEW m \in Nat, a <= b
  PROVE  (b <= m => a <= m) /\ (b < m => a < m)
OBVIOUS

(* No other step gives a tenant a lease, or one more to be answered. *)
LEMMA LiveLeasesOnlyLeave ==
  ASSUME AccountInv, MeterInv, leaseSeq' = leaseSeq,
         \A l \in 1 .. leaseSeq : LeaseStep(l), NEW t \in Tenants
  PROVE  /\ Cardinality(InState(t, "PENDING")') <= Cardinality(InState(t, "PENDING"))
         /\ Cardinality(LiveLeasesOf(t)') <= Cardinality(LiveLeasesOf(t))
<1>1. LeasesOf(t)' = LeasesOf(t) /\ LiveLeasesOf(t)' \subseteq LiveLeasesOf(t)
  BY TermsStay
<1>2. \A l \in 1 .. leaseSeq : leases'[l].state = "PENDING" => leases[l].state = "PENDING"
  BY ZenonT(30), PendingOnce
<1>3. InState(t, "PENDING")' \subseteq InState(t, "PENDING")
  BY <1>1, <1>2 DEF InState, LeasesOf
<1>4. IsFiniteSet(InState(t, "PENDING")) /\ IsFiniteSet(LiveLeasesOf(t))
  BY LiveCount DEF LiveCounted
<1>5. QED
  BY <1>1, <1>3, <1>4, FS_Subset

(* Every step keeps the limits. *)
LEMMA NextLimitInv ==
  AccountInv /\ MeterInv /\ AccountInv' /\ LimitInv /\ [Next]_vars => LimitInv'
<1> SUFFICES ASSUME AccountInv, MeterInv, AccountInv', LimitInv, [Next]_vars
             PROVE  LimitInv'
  OBVIOUS
<1>1. /\ params \in ParamsInForce
      /\ \A t \in Tenants :
           /\ \E q \in ParamsInForce : Cardinality(InState(t, "PENDING")) <= q.maxPending
           /\ \E q \in ParamsInForce :
                Cardinality(LiveLeasesOf(t)) < q.maxLeases + q.maxPending
  BY DEF LimitInv, LiveLeasesBounded
<1>2. \A l \in 1 .. leaseSeq : LeaseStep(l)
  BY LeaseSteps
<1>3. CASE BillingNext /\ CreationNext
  <2>1. PICK t \in Tenants, p \in 1 .. providerSeq, n \in 1 .. params.maxItems :
          \E items \in [1 .. n -> Item] : createLeaseInternal(t, p, items)
    BY <1>3 DEF CreationNext, CreateLease, CreateLeaseForTenant
  <2>2. PICK items : createLeaseInternal(t, p, items)
    BY <2>1
  <2>3. params' = params
    BY ZenonT(30), <2>2 DEF createLeaseInternal
  <2>4. ASSUME NEW u \in Tenants
        PROVE  /\ \E q \in ParamsInForce :
                    Cardinality(InState(u, "PENDING")') <= q.maxPending
               /\ \E q \in ParamsInForce :
                    Cardinality(LiveLeasesOf(u)') < q.maxLeases + q.maxPending
    <3>1. CASE accounts'[u] = accounts[u]
      <4>1. /\ Cardinality(InState(u, "PENDING")) = accounts[u].pending
            /\ Cardinality(LiveLeasesOf(u)) = accounts[u].active + accounts[u].pending
        BY LiveCount DEF LiveCounted
      <4>2. /\ Cardinality(InState(u, "PENDING")') = accounts'[u].pending
            /\ Cardinality(LiveLeasesOf(u)') = accounts'[u].active + accounts'[u].pending
        BY LiveCountedNext DEF LiveCounted
      <4>3. QED
        BY Zenon, <1>1, <3>1, <4>1, <4>2
    <3>2. CASE /\ Cardinality(InState(u, "PENDING")') <= params.maxPending
               /\ Cardinality(LiveLeasesOf(u)') < params.maxLeases + params.maxPending
      BY Zenon, <1>1, <3>2
    <3>3. QED
      BY Zenon, <1>1, <2>2, <3>1, <3>2, CreationWithinLimits
  <2>5. QED
    BY Zenon, <1>1, <2>3, <2>4 DEF LimitInv, LiveLeasesBounded, ParamsInForce
<1>4. CASE leaseSeq' = leaseSeq /\ params' \in ParamsInForce
  <2>1. ASSUME NEW u \in Tenants
        PROVE  /\ \E q \in ParamsInForce :
                    Cardinality(InState(u, "PENDING")') <= q.maxPending
               /\ \E q \in ParamsInForce :
                    Cardinality(LiveLeasesOf(u)') < q.maxLeases + q.maxPending
    <3>1. /\ Cardinality(InState(u, "PENDING")') <= Cardinality(InState(u, "PENDING"))
          /\ Cardinality(LiveLeasesOf(u)') <= Cardinality(LiveLeasesOf(u))
      BY Zenon, <1>2, <1>4, LiveLeasesOnlyLeave
    <3>2. /\ Cardinality(InState(u, "PENDING")) \in Nat /\ Cardinality(LiveLeasesOf(u)) \in Nat
      BY LiveCount, FS_CardinalityType DEF LiveCounted
    <3>3. Cardinality(InState(u, "PENDING")') \in Nat /\ Cardinality(LiveLeasesOf(u)') \in Nat
      <4>1. IsFiniteSet(InState(u, "PENDING")') /\ IsFiniteSet(LiveLeasesOf(u)')
        BY LiveCountedNext DEF LiveCounted
      <4>2. QED
        BY <4>1, FS_CardinalityType
    <3>4. \A q \in ParamsInForce : q.maxLeases \in Nat /\ q.maxPending \in Nat
      BY BillingAssumption DEF ParamsInForce, Params
    <3>5. PICK q \in ParamsInForce : Cardinality(InState(u, "PENDING")) <= q.maxPending
      BY <1>1
    <3>6. PICK r \in ParamsInForce :
            Cardinality(LiveLeasesOf(u)) < r.maxLeases + r.maxPending
      BY <1>1
    <3>7. Cardinality(InState(u, "PENDING")') <= q.maxPending
      BY ZenonT(30), <3>1, <3>2, <3>3, <3>4, <3>5, FewerWithin
    <3>8. Cardinality(LiveLeasesOf(u)') < r.maxLeases + r.maxPending
      <4>1. r.maxLeases + r.maxPending \in Nat
        BY <3>4
      <4>2. QED
        BY ZenonT(30), <3>1, <3>2, <3>3, <3>6, <4>1, FewerWithin
    <3>9. QED
      BY Zenon, <3>7, <3>8
  <2>2. QED
    BY Zenon, <1>4, <2>1 DEF LimitInv, LiveLeasesBounded, ParamsInForce
<1>5. CASE BillingNext /\ ~CreationNext
  <2>1. CASE \E sender \in Accounts, p \in ParamChoices : UpdateParams(sender, p)
    BY <1>4, <2>1 DEF UpdateParams, ParamsInForce
  <2>2. CASE CreditNext
    BY <1>1, <1>4, <2>2 DEF CreditNext, FundCredit, BankSend
  <2>3. CASE PendingNext
    <3>1. UNCHANGED <<leaseSeq, params>>
      BY ZenonT(30), <2>3 DEF PendingNext, AcknowledgeLease, RejectLease, CancelLease
    <3>2. QED
      BY <1>1, <1>4, <3>1
  <2>4. CASE SettlementNext
    <3>1. UNCHANGED <<leaseSeq, params>>
      BY ZenonT(30), <2>4 DEF SettlementNext, CloseLease, withdrawFromLeases,
         withdrawFromProvider, SettleAndClose
    <3>2. QED
      BY <1>1, <1>4, <3>1
  <2>5. CASE \E dt \in TimeSteps : NextBlock(dt)
    BY <1>1, <1>4, <2>5 DEF NextBlock
  <2>6. QED
    BY <1>5, <2>1, <2>2, <2>3, <2>4, <2>5 DEF BillingNext
<1>6. CASE UNCHANGED billingVars
  BY <1>1, <1>4, <1>6 DEF billingVars
<1>7. QED
  BY <1>3, <1>5, <1>6 DEF Next, vars

(***************************************************************************)
(* For any sequence of parameter changes: a tenant has no more leases      *)
(* waiting for an answer than some max_pending_leases_per_tenant, and      *)
(* fewer live ones than some max_leases_per_tenant and                     *)
(* max_pending_leases_per_tenant together.                                 *)
(***************************************************************************)
THEOREM LiveLeasesAlwaysBounded == Spec => []LiveLeasesBounded
<1>1. Init => LimitInv
  <2> SUFFICES ASSUME Init PROVE LimitInv
    OBVIOUS
  <2>1. params \in ParamsInForce /\ ValidParams(params)
    BY BillingAssumption DEF Init, BillingInit, ParamsInForce
  <2>2. /\ params.maxLeases \in Nat /\ params.maxPending \in Nat /\ 0 < params.maxLeases
    BY <2>1, LimitsPositive
  <2>3. \A t \in Tenants : InState(t, "PENDING") = {} /\ LiveLeasesOf(t) = {}
    BY DEF Init, BillingInit, InState, LiveLeasesOf, LeasesOf
  <2>4. Cardinality({}) = 0
    BY FS_EmptySet
  <2>5. 0 <= params.maxPending /\ 0 < params.maxLeases + params.maxPending
    BY <2>2
  <2>6. QED
    BY ZenonT(30), <2>1, <2>3, <2>4, <2>5 DEF LimitInv, LiveLeasesBounded
<1>2. LimitInv => LiveLeasesBounded
  BY DEF LimitInv
<1>3. QED
  BY <1>1, <1>2, NextLimitInv, InitAccountInv, NextAccountInv, InitMeterInv, NextMeterInv,
     PTL DEF Spec
=============================================================================
