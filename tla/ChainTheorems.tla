--------------------------- MODULE ChainTheorems ----------------------------
(***************************************************************************)
(* Proofs about the catalogue (modules Sku and SkuGenesis), and that the   *)
(* variables of the ledger (module Chain) are well formed, for every number*)
(* of tenants, providers and leases, every genesis and every choice of     *)
(* parameters.                                                             *)
(***************************************************************************)
EXTENDS Chain, SkuGenesis, CoinTheorems

(* The provers get more time than by default. *)
USE SMTT(30), ZenonT(30)

(* The catalogue *)

(* The imported catalogue is well formed. *)
LEMMA SkuInitTypeOK == SkuInit => SkuTypeOK
<1> SUFFICES ASSUME SkuInit PROVE SkuTypeOK
  OBVIOUS
<1>1. providerSeq \in Nat /\ skuSeq \in Nat
  BY SkuAssumption DEF SkuInit
<1>2. providers \in [1 .. providerSeq -> Provider]
  BY SkuAssumption DEF SkuInit
<1>3. skus \in [1 .. skuSeq -> SKU(providerSeq)]
  BY SkuAssumption DEF SkuInit
<1>4. QED
  BY <1>1, <1>2, <1>3, SkuAssumption DEF SkuInit, SkuTypeOK

(* Every handler of x/sku leaves the catalogue well formed. *)
LEMMA SkuNextTypeOK == SkuTypeOK /\ SkuNext => SkuTypeOK'
<1> SUFFICES ASSUME SkuTypeOK, SkuNext PROVE SkuTypeOK'
  OBVIOUS
<1>1. ASSUME NEW sender \in Accounts, NEW addr \in Accounts, NEW payout \in Accounts,
             CreateProvider(sender, addr, payout)
      PROVE  SkuTypeOK'
  <2>1. providers' \in [1 .. providerSeq' -> Provider]
    BY <1>1 DEF CreateProvider, Extend, SkuTypeOK, Provider, SKU
  <2>2. skus' \in [1 .. skuSeq' -> SKU(providerSeq')]
    BY <1>1 DEF CreateProvider, SkuTypeOK, Provider, SKU
  <2>3. /\ providerSeq' \in Nat /\ skuSeq' \in Nat
        /\ skuAllowed' \in SUBSET Accounts
        /\ \A s \in 1 .. skuSeq' :
             ValidatePriceAndUnit(skus'[s].amount, skus'[s].unit)
    BY <1>1 DEF CreateProvider, SkuTypeOK
  <2>4. QED
    BY <2>1, <2>2, <2>3 DEF SkuTypeOK
<1>2. ASSUME NEW sender \in Accounts, NEW p \in 1 .. providerSeq,
             NEW addr \in Accounts, NEW payout \in Accounts, NEW active \in BOOLEAN,
             UpdateProvider(sender, p, addr, payout, active)
      PROVE  SkuTypeOK'
  BY <1>2 DEF UpdateProvider, SkuTypeOK, Provider, SKU
<1>3. ASSUME NEW sender \in Accounts, NEW p \in 1 .. providerSeq,
             NEW limit \in 0 .. MaxDeactivateSKULimit,
             DeactivateProvider(sender, p, limit)
      PROVE  SkuTypeOK'
  <2>1. providers' \in [1 .. providerSeq' -> Provider]
    BY Zenon, <1>3 DEF DeactivateProvider, SkuTypeOK, Provider, SKU
  <2>2. skus' \in [1 .. skuSeq' -> SKU(providerSeq')]
    BY Zenon, <1>3 DEF DeactivateProvider, SkuTypeOK, Provider, SKU
  <2>3. \A s \in 1 .. skuSeq : /\ skus'[s].amount = skus[s].amount
                               /\ skus'[s].unit = skus[s].unit
    BY <1>3 DEF DeactivateProvider, SkuTypeOK, Provider, SKU
  <2>4. QED
    BY <1>3, <2>1, <2>2, <2>3 DEF DeactivateProvider, SkuTypeOK
<1>4. ASSUME NEW sender \in Accounts, NEW p \in 1 .. providerSeq,
             NEW unit \in PriceUnits, NEW denom \in Denoms, NEW amount \in Prices,
             CreateSKU(sender, p, unit, denom, amount)
      PROVE  SkuTypeOK'
  <2>1. skus' \in [1 .. skuSeq' -> SKU(providerSeq')]
    BY <1>4, SkuAssumption DEF CreateSKU, Extend, SkuTypeOK, Provider, SKU
  <2>2. \A s \in 1 .. skuSeq' :
          ValidatePriceAndUnit(skus'[s].amount, skus'[s].unit)
    BY <1>4 DEF CreateSKU, Extend, SkuTypeOK, Provider, SKU
  <2>3. /\ providerSeq' \in Nat /\ skuSeq' \in Nat
        /\ skuAllowed' \in SUBSET Accounts
        /\ providers' \in [1 .. providerSeq' -> Provider]
    BY <1>4 DEF CreateSKU, SkuTypeOK
  <2>4. QED
    BY <2>1, <2>2, <2>3 DEF SkuTypeOK
<1>5. ASSUME NEW sender \in Accounts, NEW s \in 1 .. skuSeq,
             NEW p \in 1 .. providerSeq,
             NEW unit \in PriceUnits, NEW denom \in Denoms, NEW amount \in Prices,
             NEW active \in BOOLEAN,
             UpdateSKU(sender, s, p, unit, denom, amount, active)
      PROVE  SkuTypeOK'
  <2>1. skus' \in [1 .. skuSeq' -> SKU(providerSeq')]
    BY <1>5, SkuAssumption DEF UpdateSKU, AcceptedUpdate, SkuTypeOK, Provider, SKU
  <2>2. QED
    BY <1>5, <2>1 DEF UpdateSKU, AcceptedUpdate, SkuTypeOK
<1>6. ASSUME NEW sender \in Accounts, NEW s \in 1 .. skuSeq, DeactivateSKU(sender, s)
      PROVE  SkuTypeOK'
  BY Zenon, <1>6 DEF DeactivateSKU, SkuTypeOK, Provider, SKU
<1>7. ASSUME NEW sender \in Accounts, NEW allowed \in SUBSET Accounts,
             UpdateSkuParams(sender, allowed)
      PROVE  SkuTypeOK'
  BY <1>7 DEF UpdateSkuParams, SkuTypeOK, Provider, SKU
<1>8. QED
  BY <1>1, <1>2, <1>3, <1>4, <1>5, <1>6, <1>7 DEF SkuNext

(* A step that leaves the catalogue alone leaves it well formed. *)
LEMMA SkuStutterTypeOK == SkuTypeOK /\ UNCHANGED skuVars => SkuTypeOK'
BY DEF SkuTypeOK, skuVars

(***************************************************************************)
(* Whatever messages are sent, the catalogue stays well formed: every SKU  *)
(* has a provider and a price that is exact and not zero per second.       *)
(***************************************************************************)
THEOREM SkuTypeCorrect == SkuSpec => []SkuTypeOK
<1>1. SkuTypeOK /\ [SkuNext]_skuVars => SkuTypeOK'
  BY SkuNextTypeOK, SkuStutterTypeOK
<1>2. QED
  BY SkuInitTypeOK, <1>1, PTL DEF SkuSpec

(***************************************************************************)
(* No message undoes a cascade: while a provider stays inactive, the set   *)
(* of its active SKUs does not grow.                                       *)
(***************************************************************************)
THEOREM CascadeSafe == SkuSpec => CascadeNeverUndone
<1> DEFINE Shrinks(p) ==
      ~providers[p].active /\ ~providers'[p].active
        => ActiveSKUsByProvider(p)' \subseteq ActiveSKUsByProvider(p)
<1>1. ASSUME SkuTypeOK, SkuNext, NEW p \in 1 .. providerSeq
      PROVE  Shrinks(p)
  <2> SUFFICES ASSUME ~providers[p].active, ~providers'[p].active,
                      NEW s \in 1 .. skuSeq', skus'[s].provider = p, skus'[s].active
               PROVE  s \in 1 .. skuSeq /\ skus[s].provider = p /\ skus[s].active
    BY DEF ActiveSKUsByProvider
  <2>1. ASSUME NEW q \in 1 .. providerSeq, NEW limit, NEW sender,
               DeactivateProvider(sender, q, limit)
        PROVE  s \in 1 .. skuSeq /\ skus[s].provider = p /\ skus[s].active
    BY <1>1, <2>1 DEF DeactivateProvider, SkuTypeOK, Provider, SKU
  <2>2. ASSUME NEW sender, NEW q \in 1 .. providerSeq, NEW unit, NEW denom, NEW amount,
               CreateSKU(sender, q, unit, denom, amount)
        PROVE  s \in 1 .. skuSeq /\ skus[s].provider = p /\ skus[s].active
    BY <1>1, <2>2 DEF CreateSKU, Extend, SkuTypeOK, Provider, SKU
  <2>3. ASSUME NEW sender, NEW r \in 1 .. skuSeq, NEW q \in 1 .. providerSeq,
               NEW unit, NEW denom, NEW amount, NEW active \in BOOLEAN,
               UpdateSKU(sender, r, q, unit, denom, amount, active)
        PROVE  s \in 1 .. skuSeq /\ skus[s].provider = p /\ skus[s].active
    BY <1>1, <2>3 DEF UpdateSKU, AcceptedUpdate, SkuTypeOK, Provider, SKU
  <2>4. ASSUME NEW sender, NEW r \in 1 .. skuSeq, DeactivateSKU(sender, r)
        PROVE  s \in 1 .. skuSeq /\ skus[s].provider = p /\ skus[s].active
    BY <1>1, <2>4 DEF DeactivateSKU, SkuTypeOK, Provider, SKU
  <2>5. ASSUME skus' = skus, skuSeq' = skuSeq
        PROVE  s \in 1 .. skuSeq /\ skus[s].provider = p /\ skus[s].active
    BY <2>5
  <2>6. SkuNext
    BY <1>1
  <2>7. QED
    BY Zenon, <2>6, <2>1, <2>2, <2>3, <2>4, <2>5
    DEF SkuNext, CreateProvider, UpdateProvider, UpdateSkuParams
<1>2. SkuTypeOK /\ [SkuNext]_skuVars
        => [\A p \in 1 .. providerSeq : Shrinks(p)]_skuVars
  BY <1>1
<1>3. QED
  BY SkuTypeCorrect, <1>2, PTL DEF SkuSpec, CascadeNeverUndone

-----------------------------------------------------------------------------
(* The SKUs that one call of a cascade reaches are the ones of low rank. *)
LEMMA CascadeByRank ==
  ASSUME SkuTypeOK, NEW p, NEW n
  PROVE  /\ IsFiniteSet(ActiveSKUsByProvider(p))
         /\ [s \in ActiveSKUsByProvider(p) |-> s]
              \in Positions(ActiveSKUsByProvider(p), skuSeq)
         /\ IterateActiveSKUsByProvider(p, n) =
              {s \in ActiveSKUsByProvider(p) :
                 Rank(ActiveSKUsByProvider(p), [r \in ActiveSKUsByProvider(p) |-> r], s) < n}
<1> DEFINE A == ActiveSKUsByProvider(p)
           pos == [s \in A |-> s]
<1>1. A \subseteq 1 .. skuSeq /\ skuSeq \in Nat
  BY DEF ActiveSKUsByProvider, SkuTypeOK
<1>2. IsFiniteSet(A)
  <2>1. IsFiniteSet(1 .. skuSeq)
    BY <1>1, FS_Interval
  <2>2. QED
    BY <1>1, <2>1, FS_Subset
<1>3. pos \in Positions(A, skuSeq)
  BY <1>1 DEF Positions
<1>4. \A s \in A : {r \in A : r < s} = {r \in A : pos[r] < pos[s]}
  OBVIOUS
<1>5. IterateActiveSKUsByProvider(p, n) = {s \in A : Cardinality({r \in A : r < s}) < n}
  BY DEF IterateActiveSKUsByProvider
<1> HIDE DEF A, pos
<1>6. \A s \in A : Cardinality({r \in A : r < s}) = Rank(A, pos, s)
  BY <1>4 DEF Rank, Preceding
<1>7. QED
  BY <1>2, <1>3, <1>5, <1>6 DEF A, pos

(* One call takes the active SKUs of low rank from the provider. *)
LEMMA CascadeCall ==
  ASSUME SkuTypeOK, NEW p, NEW limit \in Nat, NEW sender,
         DeactivateProvider(sender, p, limit)
  PROVE  LET A   == ActiveSKUsByProvider(p)
             pos == [s \in A |-> s]
         IN  /\ EffectiveLimit(limit) \in Nat
             /\ skuSeq \in Nat /\ IsFiniteSet(A) /\ pos \in Positions(A, skuSeq)
             /\ A' = A \ {s \in A : Rank(A, pos, s) < EffectiveLimit(limit)}
<1> DEFINE A == ActiveSKUsByProvider(p)
           n == EffectiveLimit(limit)
           batch == IterateActiveSKUsByProvider(p, n)
           pos == [s \in A |-> s]
<1>1. n \in Nat
  BY SkuAssumption DEF EffectiveLimit
<1>2. /\ skuSeq' = skuSeq
      /\ skus' = [s \in 1 .. skuSeq |->
                    IF s \in batch THEN [skus[s] EXCEPT !.active = FALSE] ELSE skus[s]]
  BY DEF DeactivateProvider
<1> HIDE DEF n, batch
<1>3. A' = A \ batch
  <2>1. ASSUME NEW s \in 1 .. skuSeq
        PROVE  /\ skus'[s].provider = skus[s].provider
               /\ skus'[s].active <=> skus[s].active /\ s \notin batch
    BY <1>2 DEF SkuTypeOK, SKU
  <2>2. QED
    BY <1>2, <2>1 DEF ActiveSKUsByProvider
<1>4. /\ IsFiniteSet(A) /\ pos \in Positions(A, skuSeq)
      /\ batch = {s \in A : Rank(A, pos, s) < n}
  BY CascadeByRank DEF batch
<1>5. skuSeq \in Nat
  BY DEF SkuTypeOK
<1>6. QED
  BY <1>1, <1>3, <1>4, <1>5 DEF n

(***************************************************************************)
(* For every limit and every number of SKUs, the response of a deactivation*)
(* says has_more exactly if the call leaves the provider active SKUs.      *)
(***************************************************************************)
THEOREM HasMoreAlwaysTruthful == SkuSpec => HasMoreIsTruthful
<1> DEFINE Truthful ==
      \A p \in 1 .. providerSeq, limit \in 0 .. MaxDeactivateSKULimit, sender \in Accounts :
        DeactivateProvider(sender, p, limit)
          => (HasMoreSKUs(p, limit) <=> ActiveSKUsByProvider(p)' # {})
<1>1. ASSUME SkuTypeOK, NEW p \in 1 .. providerSeq,
             NEW limit \in 0 .. MaxDeactivateSKULimit, NEW sender,
             DeactivateProvider(sender, p, limit)
      PROVE  HasMoreSKUs(p, limit) <=> ActiveSKUsByProvider(p)' # {}
  <2> DEFINE A == ActiveSKUsByProvider(p)
             n == EffectiveLimit(limit)
             pos == [s \in A |-> s]
             batch == {s \in A : Rank(A, pos, s) < n}
  <2>1. n \in Nat
    BY <1>1, SkuAssumption DEF EffectiveLimit
  <2>3. A' = A \ batch
    BY <1>1, CascadeCall
  <2>4. /\ IsFiniteSet(A) /\ pos \in Positions(A, skuSeq)
        /\ batch = {s \in A : Rank(A, pos, s) < n}
    BY <1>1, CascadeCall
  <2>5. pos \in [A -> 0 .. skuSeq] /\ skuSeq \in Nat
    BY <1>1, <2>4 DEF Positions, SkuTypeOK
  <2> HIDE DEF batch
  <2>6. HasMoreSKUs(p, limit) <=> Cardinality(A) > n
    BY DEF HasMoreSKUs, n
  <2> HIDE DEF A, n, pos
  <2>7. Cardinality(A) \in Nat
    BY <2>4, FS_CardinalityType
  <2>8. ASSUME NEW s \in A \ batch PROVE Cardinality(A) > n
    <3>1. Rank(A, pos, s) < Cardinality(A) /\ Rank(A, pos, s) \in Nat
      BY Zenon, <2>4, <2>5, RankBelow, RankType
    <3>2. ~(Rank(A, pos, s) < n)
      BY <2>4
    <3>3. QED
      BY <2>1, <2>7, <3>1, <3>2
  <2>9. ASSUME Cardinality(A) > n PROVE A \ batch # {}
    <3>1. A # {}
      BY <2>1, <2>9, FS_EmptySet
    <3>2. PICK s \in A : Rank(A, pos, s) = Cardinality(A) - 1
      BY <2>4, <2>5, <3>1, LastRank
    <3>3. ~(Rank(A, pos, s) < n)
      BY <2>1, <2>7, <2>9, <3>2
    <3>4. QED
      BY <2>4, <3>3
  <2>10. QED
    BY <2>3, <2>6, <2>8, <2>9 DEF A
<1>2. SkuTypeOK /\ [SkuNext]_skuVars => [Truthful]_skuVars
  BY <1>1
<1>3. QED
  BY SkuTypeCorrect, <1>2, PTL DEF SkuSpec, HasMoreIsTruthful

(***************************************************************************)
(* For every limit, every number of SKUs and every history, a call of a    *)
(* cascade that leaves active SKUs has deactivated as many as its limit.   *)
(* This is what CascadeCompletes rests on besides repeating the call.      *)
(***************************************************************************)
THEOREM CascadeAlwaysAdvances == SkuSpec => CascadeAdvances
<1> DEFINE Advances ==
      \A p \in 1 .. providerSeq, limit \in 0 .. MaxDeactivateSKULimit, sender \in Accounts :
        DeactivateProvider(sender, p, limit) /\ ActiveSKUsByProvider(p)' # {}
          => Cardinality(ActiveSKUsByProvider(p)') + EffectiveLimit(limit)
               = Cardinality(ActiveSKUsByProvider(p))
<1>1. ASSUME SkuTypeOK, NEW p \in 1 .. providerSeq,
             NEW limit \in 0 .. MaxDeactivateSKULimit, NEW sender,
             DeactivateProvider(sender, p, limit), ActiveSKUsByProvider(p)' # {}
      PROVE  Cardinality(ActiveSKUsByProvider(p)') + EffectiveLimit(limit)
               = Cardinality(ActiveSKUsByProvider(p))
  <2> DEFINE A == ActiveSKUsByProvider(p)
             n == EffectiveLimit(limit)
             pos == [s \in A |-> s]
             batch == {s \in A : Rank(A, pos, s) < n}
  <2>1. /\ n \in Nat /\ skuSeq \in Nat /\ IsFiniteSet(A) /\ pos \in Positions(A, skuSeq)
        /\ A' = A \ batch
    BY <1>1, CascadeCall
  <2>2. PICK x \in A : x \notin batch
    BY <1>1, <2>1
  <2> HIDE DEF A, n, pos
  <2>3. Cardinality(batch) = n
    <3>1. ~(Rank(A, pos, x) < n)
      BY <2>2
    <3>2. /\ Cardinality({s \in A : Rank(A, pos, s) < n}) = n
          /\ \A s \in A : Rank(A, pos, s) < n => pos[s] < pos[x]
      BY <2>1, <2>2, <3>1, FirstRanks
    <3>3. QED
      BY <3>2
  <2>4. batch \subseteq A /\ IsFiniteSet(batch) /\ A \cap batch = batch
    BY <2>1, FS_Subset
  <2> HIDE DEF batch
  <2>5. Cardinality(A \ batch) = Cardinality(A) - Cardinality(A \cap batch)
    BY Zenon, <2>1, <2>4, FS_Difference
  <2>6. Cardinality(A) \in Nat
    BY <2>1, FS_CardinalityType
  <2>7. QED
    BY <2>1, <2>3, <2>4, <2>5, <2>6 DEF A, n
<1>2. SkuTypeOK /\ [SkuNext]_skuVars => [Advances]_skuVars
  BY <1>1
<1>3. QED
  BY SkuTypeCorrect, <1>2, PTL DEF SkuSpec, CascadeAdvances

(***************************************************************************)
(* The catalogue can be restarted from the export of any state it reaches. *)
(***************************************************************************)
THEOREM SkuRestartAlwaysRestores == SkuSpec => []SkuRestartRestoresState
<1>1. SkuTypeOK => SkuRestartRestoresState
  <2> SUFFICES ASSUME SkuTypeOK PROVE SkuRestartRestoresState
    OBVIOUS
  <2>1. ASSUME NEW s \in 1 .. skuSeq
        PROVE  /\ skus[s].provider \in 1 .. providerSeq
               /\ skus[s].unit \in PriceUnits
    BY DEF SkuTypeOK, SKU
  <2>2. ValidateSkuGenesis(ExportSkuGenesis)
    BY <2>1 DEF SkuTypeOK, ValidateSkuGenesis, ExportSkuGenesis
  <2>3. QED
    BY <2>2 DEF SkuRestartRestoresState, InitSkuGenesis, ExportSkuGenesis, skuVars
<1>2. QED
  BY SkuTypeCorrect, <1>1, PTL

-----------------------------------------------------------------------------
(* The ledger *)

(* The leases are finitely many, and so is every set of them. *)
LEMMA LeaseSetsFinite ==
  ASSUME TypeOK, NEW S \in SUBSET (1 .. leaseSeq)
  PROVE  IsFiniteSet(S) /\ Cardinality(S) \in Nat
<1>1. IsFiniteSet(1 .. leaseSeq)
  BY FS_Interval DEF TypeOK
<1>2. QED
  BY Zenon, <1>1, FS_Subset, FS_CardinalityType

(* Whole seconds of a number of ticks. *)
LEMMA SecondsType ==
  ASSUME NEW n \in Nat
  PROVE  Seconds(n) \in Nat
BY BillingAssumption DEF Seconds

(* Reservations, accruals and demands are coins. *)
LEMMA LeaseAmounts ==
  ASSUME TypeOK, NEW l \in 1 .. leaseSeq
  PROVE  /\ GetLeaseReservationAmount(leases[l]) \in AllCoins
         /\ Elapsed(leases[l]) \in Nat
         /\ CalculateTotalAccruedForLease(leases[l]) \in AllCoins
         /\ Demand(leases[l]) \in AllCoins
<1>1. /\ leases[l] \in Lease
      /\ leases[l].rates \in AllCoins
      /\ leases[l].minDur \in Nat
      /\ credit[leases[l].tenant] \in AllCoins
      /\ params.minDur \in Nat
  BY DEF TypeOK, Lease, Params
<1>2. GetLeaseReservationAmount(leases[l]) \in AllCoins
  BY <1>1, CoinOps DEF GetLeaseReservationAmount, CalculateLeaseReservationFromRates
<1>3. Elapsed(leases[l]) \in Nat
  <2>1. SettleTime(leases[l]) \in Nat /\ leases[l].lastSettledAt \in Nat
    BY <1>1 DEF SettleTime, TypeOK, Lease
  <2>2. QED
    BY <2>1 DEF Elapsed, Monus
<1>4. CalculateTotalAccruedForLease(leases[l]) \in AllCoins
  BY Zenon, <1>1, <1>3, SecondsType, CoinOps DEF CalculateTotalAccruedForLease
<1>5. Demand(leases[l]) \in AllCoins
  BY <1>1, <1>4 DEF Demand, AllCoins
<1>6. QED
  BY <1>2, <1>3, <1>4, <1>5

(* Sums over sets of leases are coins. *)
LEMMA LeaseSums ==
  ASSUME TypeOK, NEW S \in SUBSET (1 .. leaseSeq)
  PROVE  Reservations(S) \in AllCoins /\ Demands(S) \in AllCoins
<1>1. IsFiniteSet(S)
  BY LeaseSetsFinite
<1>2. \A l \in S : [m \in S |-> GetLeaseReservationAmount(leases[m])][l] \in AllCoins
  BY LeaseAmounts
<1>3. \A l \in S : [m \in S |-> Demand(leases[m])][l] \in AllCoins
  BY LeaseAmounts
<1>4. Reservations(S) \in AllCoins
  BY Zenon, <1>1, <1>2, SumCoinsType DEF Reservations
<1>5. Demands(S) \in AllCoins
  BY Zenon, <1>1, <1>3, SumCoinsType DEF Demands
<1>6. QED
  BY <1>4, <1>5

(* What a batch transfers for one of its leases is coins. *)
LEMMA TransferType ==
  ASSUME TypeOK, NEW order, DOMAIN order \subseteq 1 .. leaseSeq,
         NEW l \in DOMAIN order
  PROVE  /\ BalanceFor(order, l) \in AllCoins
         /\ CalculateTransferAmounts(order, l) \in AllCoins
<1>1. Before(order, l) \in SUBSET (1 .. leaseSeq)
  BY DEF Before
<1>2. credit[leases[l].tenant] \in AllCoins
  BY DEF TypeOK, Lease
<1>3. BalanceFor(order, l) \in AllCoins
  BY <1>1, <1>2, LeaseSums, CoinOps DEF BalanceFor
<1>4. QED
  BY <1>3, LeaseAmounts, CoinOps DEF CalculateTransferAmounts

(* The transfers of a batch leave balances that are coins. *)
LEMMA SettlementType ==
  ASSUME TypeOK, NEW order, DOMAIN order \subseteq 1 .. leaseSeq,
         PerformSettlement(order)
  PROVE  /\ credit' \in [Tenants -> AllCoins]
         /\ wallet' \in [Accounts -> AllCoins]
         /\ paid' \in [1 .. leaseSeq -> AllCoins]
<1>1. credit' \in [Tenants -> AllCoins]
  <2>1. ASSUME NEW t \in Tenants
        PROVE  Minus(credit[t], Demands({l \in DOMAIN order : leases[l].tenant = t}))
                 \in AllCoins
    <3>1. credit[t] \in AllCoins
      BY DEF TypeOK
    <3>2. {l \in DOMAIN order : leases[l].tenant = t} \in SUBSET (1 .. leaseSeq)
      OBVIOUS
    <3>3. QED
      BY <3>1, <3>2, LeaseSums, CoinOps
  <2>2. QED
    BY <2>1 DEF PerformSettlement
<1>2. wallet' \in [Accounts -> AllCoins]
  <2>1. ASSUME NEW a \in Accounts,
               NEW S, S = {l \in DOMAIN order : providers[leases[l].provider].payout = a}
        PROVE  Plus(wallet[a], SumCoins(S, [l \in S |-> CalculateTransferAmounts(order, l)]))
                 \in AllCoins
    <3>1. wallet[a] \in AllCoins
      BY DEF TypeOK
    <3>2. S \in SUBSET (1 .. leaseSeq) /\ S \subseteq DOMAIN order
      BY <2>1
    <3>3. IsFiniteSet(S)
      BY <3>2, LeaseSetsFinite
    <3>4. \A l \in S : [m \in S |-> CalculateTransferAmounts(order, m)][l] \in AllCoins
      BY <3>2, TransferType
    <3>5. SumCoins(S, [l \in S |-> CalculateTransferAmounts(order, l)]) \in AllCoins
      BY <3>3, <3>4, SumCoinsType
    <3>6. QED
      BY <3>1, <3>5, CoinOps
  <2>2. QED
    BY <2>1 DEF PerformSettlement
<1>3. paid' \in [1 .. leaseSeq -> AllCoins]
  <2>1. ASSUME NEW l \in 1 .. leaseSeq
        PROVE  (IF l \in DOMAIN order
                THEN Plus(paid[l], CalculateTransferAmounts(order, l)) ELSE paid[l])
                 \in AllCoins
    BY TransferType, CoinOps DEF TypeOK
  <2>2. QED
    BY <2>1 DEF PerformSettlement
<1>4. QED
  BY <1>1, <1>2, <1>3

-----------------------------------------------------------------------------
(* Type correctness *)

(* Genesis is well typed. *)
LEMMA InitTypeOK == Init => TypeOK
<1> SUFFICES ASSUME Init PROVE TypeOK
  OBVIOUS
<1>1. SkuTypeOK
  BY SkuInitTypeOK DEF Init
<1>2. accounts \in [Tenants -> CreditAccount]
  BY DEF Init, BillingInit, CreditAccount, AllCoins, NoCoins
<1>3. leases \in [1 .. leaseSeq -> Lease] /\ paid \in [1 .. leaseSeq -> AllCoins]
  BY DEF Init, BillingInit
<1>4. QED
  BY <1>1, <1>2, <1>3, BillingAssumption DEF Init, BillingInit, TypeOK

(* The part of TypeOK about the billing module's own variables. *)
BillingTypeOK ==
  /\ now \in Nat
  /\ params \in Params /\ ValidParams(params)
  /\ leaseSeq \in Nat
  /\ leases \in [1 .. leaseSeq -> Lease]
  /\ accounts \in [Tenants -> CreditAccount]
  /\ credit \in [Tenants -> AllCoins]
  /\ wallet \in [Accounts -> AllCoins]
  /\ paid \in [1 .. leaseSeq -> AllCoins]

(* Transfers into a credit account. *)
LEMMA CreditTypeOK ==
  ASSUME TypeOK, UNCHANGED skuVars,
         NEW sender \in Accounts, NEW t \in Tenants, NEW d \in Denoms,
         NEW amount \in FundAmounts,
         FundCredit(sender, t, d, amount) \/ BankSend(sender, t, d, amount)
  PROVE  BillingTypeOK'
<1>1. amount \in Nat
  BY BillingAssumption
<1>2. wallet' = [wallet EXCEPT ![sender][d] = @ - amount] /\ wallet[sender][d] >= amount
  BY DEF FundCredit, BankSend
<1>3. wallet' \in [Accounts -> AllCoins]
  BY <1>1, <1>2 DEF TypeOK, AllCoins
<1>4. credit' = [credit EXCEPT ![t][d] = @ + amount]
  BY DEF FundCredit, BankSend
<1>5. credit' \in [Tenants -> AllCoins]
  BY <1>1, <1>4 DEF TypeOK, AllCoins
<1>6. accounts' = [accounts EXCEPT ![t].exists = TRUE] \/ accounts' = accounts
  BY DEF FundCredit, BankSend
<1>7. accounts' \in [Tenants -> CreditAccount]
  BY Zenon, <1>6 DEF TypeOK, CreditAccount
<1>8. UNCHANGED <<now, params, leaseSeq, leases, paid, providerSeq>>
  BY DEF FundCredit, BankSend, skuVars
<1>9. QED
  BY Zenon, <1>3, <1>5, <1>7, <1>8 DEF TypeOK, BillingTypeOK, Lease

(* The three ways in which a credit account record is rewritten. *)
LEMMA AccountUpdates ==
  ASSUME NEW a \in CreditAccount, NEW n \in Nat, NEW m \in Nat, NEW c \in AllCoins
  PROVE  /\ [a EXCEPT !.pending = n, !.reserved = c] \in CreditAccount
         /\ [a EXCEPT !.active = n, !.reserved = c] \in CreditAccount
         /\ [a EXCEPT !.pending = n, !.active = m] \in CreditAccount
BY Zenon DEF CreditAccount

(* The rate of an item is a natural number, and so is the rate of a lease. *)
LEMMA RatesType ==
  ASSUME TypeOK, NEW n \in Nat, NEW items \in [1 .. n -> Item]
  PROVE  TotalRatesPerSecond(items) \in AllCoins
<1>1. ASSUME NEW d \in Denoms, NEW i \in 1 .. n
      PROVE  ItemRate(items[i], d) \in Nat
  <2>1. items[i].sku \in 1 .. skuSeq /\ items[i].quantity \in Nat
    BY Zenon, BillingAssumption DEF Item
  <2>2. skus[items[i].sku].amount \in Nat
    BY <2>1 DEF TypeOK, SkuTypeOK, SKU
  <2>3. RatePerSecond(skus[items[i].sku]) \in Nat
    BY <2>2 DEF RatePerSecond, CalculatePricePerSecond, divisorForUnit
  <2>4. QED
    BY <2>1, <2>3 DEF ItemRate
<1>2. DOMAIN items = 1 .. n /\ IsFiniteSet(1 .. n)
  BY FS_Interval
<1>3. ASSUME NEW d \in Denoms
      PROVE  SumOver(DOMAIN items, [i \in DOMAIN items |-> ItemRate(items[i], d)]) \in Nat
  <2>1. \A x \in 1 .. n : [i \in 1 .. n |-> ItemRate(items[i], d)][x] \in Nat
    BY <1>1
  <2>2. QED
    BY <1>2, <2>1, SumType
<1>4. QED
  BY <1>3 DEF TotalRatesPerSecond, AllCoins

(* Lease creation. *)
LEMMA CreationTypeOK ==
  ASSUME TypeOK, UNCHANGED skuVars,
         NEW t \in Tenants, NEW p \in 1 .. providerSeq, NEW n \in Nat,
         NEW items \in [1 .. n -> Item], createLeaseInternal(t, p, items)
  PROVE  BillingTypeOK'
<1> DEFINE rates == TotalRatesPerSecond(items)
           reservation == CalculateLeaseReservationFromRates(rates, params.minDur)
<1>1. params.minDur \in Nat /\ leaseSeq \in Nat /\ now \in Nat
  BY DEF TypeOK, Params
<1>2. rates \in AllCoins
  BY RatesType
<1>3. reservation \in AllCoins
  BY <1>1, <1>2, CoinOps DEF CalculateLeaseReservationFromRates
<1>4. /\ leaseSeq' = leaseSeq + 1
      /\ leases' = Extend(leases, leaseSeq + 1, NewLease(t, p, rates))
      /\ paid' = Extend(paid, leaseSeq + 1, NoCoins)
      /\ accounts' = [accounts EXCEPT ![t] = AddPending(accounts[t], reservation)]
      /\ UNCHANGED <<now, params, credit, wallet, providerSeq>>
  BY DEF createLeaseInternal, skuVars
<1> HIDE DEF rates, reservation
<1>5. NewLease(t, p, rates) \in Lease
  BY <1>1, <1>2 DEF NewLease, Lease, LeaseStates
<1>6. leases' \in [1 .. leaseSeq' -> Lease]
  BY <1>1, <1>4, <1>5 DEF TypeOK, Extend
<1>7. paid' \in [1 .. leaseSeq' -> AllCoins]
  BY <1>1, <1>4 DEF TypeOK, Extend, AllCoins, NoCoins
<1>8. accounts' \in [Tenants -> CreditAccount]
  <2>1. /\ accounts[t] \in CreditAccount
        /\ accounts[t].pending + 1 \in Nat
        /\ accounts[t].reserved \in AllCoins
    BY DEF TypeOK, CreditAccount
  <2>2. Plus(accounts[t].reserved, reservation) \in AllCoins
    BY <1>3, <2>1, CoinOps
  <2>3. AddPending(accounts[t], reservation) \in CreditAccount
    BY Zenon, <2>1, <2>2, AccountUpdates DEF AddPending
  <2>4. QED
    BY <1>4, <2>3 DEF TypeOK
<1>9. Lease' = Lease
  BY <1>4 DEF Lease
<1>10. QED
  BY <1>1, <1>4, <1>6, <1>7, <1>8, <1>9 DEF TypeOK, BillingTypeOK

(* The account of a tenant, some of whose leases end or are acknowledged. *)
LEMMA AccountsType ==
  ASSUME TypeOK, NEW t \in Tenants, NEW S \in SUBSET (1 .. leaseSeq)
  PROVE  /\ EndActive(accounts[t], S) \in CreditAccount
         /\ EndPending(accounts[t], S) \in CreditAccount
         /\ [accounts[t] EXCEPT !.pending = Monus(@, Cardinality(S)),
                                !.active = @ + Cardinality(S)] \in CreditAccount
<1>1. /\ accounts[t] \in CreditAccount
      /\ accounts[t].active \in Nat /\ accounts[t].pending \in Nat
      /\ accounts[t].reserved \in AllCoins
  BY DEF TypeOK, CreditAccount
<1>2. Cardinality(S) \in Nat
  BY LeaseSetsFinite
<1>3. /\ Monus(accounts[t].active, Cardinality(S)) \in Nat
      /\ Monus(accounts[t].pending, Cardinality(S)) \in Nat
      /\ accounts[t].active + Cardinality(S) \in Nat
  BY <1>1, <1>2 DEF Monus
<1>4. Minus(accounts[t].reserved, Reservations(S)) \in AllCoins
  BY <1>1, LeaseSums, CoinOps
<1>5. QED
  BY Zenon, <1>1, <1>3, <1>4, AccountUpdates DEF EndActive, EndPending

(* The ways in which a lease record is rewritten. *)
LEMMA LeaseUpdates ==
  ASSUME TypeOK, NEW l \in 1 .. leaseSeq, NEW state \in LeaseStates,
         NEW exhausted \in BOOLEAN
  PROVE  /\ [leases[l] EXCEPT !.state = state, !.endedAt = now] \in Lease
         /\ [leases[l] EXCEPT !.state = "ACTIVE", !.acknowledgedAt = now,
                              !.lastSettledAt = now] \in Lease
         /\ [leases[l] EXCEPT !.lastSettledAt = SettleTime(leases[l])] \in Lease
         /\ Closed(leases[l], exhausted) \in Lease
<1>1. leases[l] \in Lease /\ now \in Nat
  BY DEF TypeOK
<1>2. SettleTime(leases[l]) \in Nat
  BY <1>1 DEF SettleTime, Lease
<1>3. [leases[l] EXCEPT !.state = state, !.endedAt = now] \in Lease
  BY Zenon, <1>1 DEF Lease
<1>4. [leases[l] EXCEPT !.state = "ACTIVE", !.acknowledgedAt = now,
                        !.lastSettledAt = now] \in Lease
  BY Zenon, <1>1 DEF Lease, LeaseStates
<1>5. [leases[l] EXCEPT !.lastSettledAt = SettleTime(leases[l])] \in Lease
  BY <1>1, <1>2 DEF Lease
<1>6. Closed(leases[l], exhausted) \in Lease
  BY Zenon, <1>1 DEF Closed, Lease, LeaseStates
<1>7. QED
  BY <1>3, <1>4, <1>5, <1>6

(* Acknowledgement. *)
LEMMA AcknowledgeTypeOK ==
  ASSUME TypeOK, UNCHANGED skuVars, NEW sender, NEW p,
         NEW S \in SUBSET (1 .. leaseSeq), AcknowledgeLease(sender, p, S)
  PROVE  BillingTypeOK'
<1>1. leases' \in [1 .. leaseSeq -> Lease]
  <2>1. \A l \in 1 .. leaseSeq :
          (IF l \in S
           THEN [leases[l] EXCEPT !.state = "ACTIVE", !.acknowledgedAt = now,
                                  !.lastSettledAt = now]
           ELSE leases[l]) \in Lease
    BY Zenon, LeaseUpdates DEF LeaseStates, TypeOK
  <2>2. QED
    BY Zenon, <2>1 DEF AcknowledgeLease
<1>2. accounts' \in [Tenants -> CreditAccount]
  <2>1. ASSUME NEW t \in Tenants
        PROVE  [accounts[t] EXCEPT !.pending = Monus(@, Cardinality(S \cap LeasesOf(t))),
                                   !.active = @ + Cardinality(S \cap LeasesOf(t))]
                 \in CreditAccount
    <3>1. S \cap LeasesOf(t) \in SUBSET (1 .. leaseSeq)
      BY Zenon
    <3>2. QED
      BY Zenon, <3>1, AccountsType
  <2>2. QED
    BY Zenon, <2>1 DEF AcknowledgeLease
<1>3. UNCHANGED <<now, params, leaseSeq, credit, wallet, paid, providerSeq>>
  BY Zenon DEF AcknowledgeLease, skuVars
<1>4. Lease' = Lease
  BY <1>3 DEF Lease
<1>5. QED
  BY <1>1, <1>2, <1>3, <1>4 DEF TypeOK, BillingTypeOK

(* Rejection, cancellation and expiration. *)
LEMMA DropPendingType ==
  ASSUME TypeOK, NEW S \in SUBSET (1 .. leaseSeq), NEW state \in LeaseStates,
         DropPending(S, state)
  PROVE  leases' \in [1 .. leaseSeq -> Lease] /\ accounts' \in [Tenants -> CreditAccount]
<1>1. \A l \in 1 .. leaseSeq :
        (IF l \in S THEN [leases[l] EXCEPT !.state = state, !.endedAt = now]
                    ELSE leases[l]) \in Lease
  BY Zenon, LeaseUpdates DEF TypeOK
<1>2. ASSUME NEW t \in Tenants
      PROVE  EndPending(accounts[t], S \cap LeasesOf(t)) \in CreditAccount
  <2>1. S \cap LeasesOf(t) \in SUBSET (1 .. leaseSeq)
    BY Zenon
  <2>2. QED
    BY Zenon, <2>1, AccountsType
<1>3. QED
  BY Zenon, <1>1, <1>2 DEF DropPending

(* A step that drops pending leases keeps the types. *)
LEMMA DropTypeOK ==
  ASSUME TypeOK, UNCHANGED skuVars, NEW S \in SUBSET (1 .. leaseSeq),
         NEW state \in LeaseStates, DropPending(S, state),
         now' \in Nat, UNCHANGED <<params, leaseSeq, credit, wallet, paid>>
  PROVE  BillingTypeOK'
<1>1. Lease' = Lease
  BY DEF Lease, skuVars
<1>2. leases' \in [1 .. leaseSeq -> Lease] /\ accounts' \in [Tenants -> CreditAccount]
  BY Zenon, DropPendingType
<1>3. QED
  BY <1>1, <1>2 DEF TypeOK, BillingTypeOK

(* Closing and withdrawing. *)
LEMMA SettledTypeOK ==
  ASSUME TypeOK, UNCHANGED skuVars, NEW order, DOMAIN order \subseteq 1 .. leaseSeq,
         PerformSettlement(order), leases' \in [1 .. leaseSeq -> Lease],
         NEW C \in SUBSET (1 .. leaseSeq),
         accounts' = [t \in Tenants |-> EndActive(accounts[t], C \cap LeasesOf(t))],
         UNCHANGED <<now, params, leaseSeq>>
  PROVE  BillingTypeOK'
<1>1. Lease' = Lease
  BY DEF Lease, skuVars
<1>2. ASSUME NEW t \in Tenants
      PROVE  EndActive(accounts[t], C \cap LeasesOf(t)) \in CreditAccount
  <2>1. C \cap LeasesOf(t) \in SUBSET (1 .. leaseSeq)
    BY Zenon
  <2>2. QED
    BY Zenon, <2>1, AccountsType
<1>3. accounts' \in [Tenants -> CreditAccount]
  BY <1>2
<1>4. /\ credit' \in [Tenants -> AllCoins]
      /\ wallet' \in [Accounts -> AllCoins]
      /\ paid' \in [1 .. leaseSeq -> AllCoins]
  BY SettlementType
<1>5. QED
  BY <1>1, <1>3, <1>4 DEF TypeOK, BillingTypeOK

(* So does a close. *)
LEMMA CloseTypeOK ==
  ASSUME TypeOK, UNCHANGED skuVars, NEW sender, NEW order,
         DOMAIN order \subseteq 1 .. leaseSeq, CloseLease(sender, order)
  PROVE  BillingTypeOK'
<1>1. \A l \in DOMAIN order : ShouldAutoCloseLease(order, l) \in BOOLEAN
  BY DEF ShouldAutoCloseLease
<1>2. \A l \in 1 .. leaseSeq :
        (IF l \in DOMAIN order THEN Closed(leases[l], ShouldAutoCloseLease(order, l))
                               ELSE leases[l]) \in Lease
  BY Zenon, <1>1, LeaseUpdates DEF TypeOK, LeaseStates
<1>3. leases' \in [1 .. leaseSeq -> Lease]
  BY <1>2 DEF CloseLease
<1>4. QED
  BY Zenon, <1>3, SettledTypeOK DEF CloseLease

(* So does a withdrawal, whichever leases it closes. *)
LEMMA WithdrawTypeOK ==
  ASSUME TypeOK, UNCHANGED skuVars, NEW order, DOMAIN order \subseteq 1 .. leaseSeq,
         NEW C \in SUBSET (1 .. leaseSeq), NEW W, SettleAndClose(order, C, W)
  PROVE  BillingTypeOK'
<1>1. \A l \in 1 .. leaseSeq :
        (CASE l \in C -> Closed(leases[l], TRUE)
           [] l \in W \ C -> [leases[l] EXCEPT !.lastSettledAt = SettleTime(leases[l])]
           [] OTHER -> leases[l]) \in Lease
  BY Zenon, LeaseUpdates DEF TypeOK, LeaseStates
<1>2. leases' \in [1 .. leaseSeq -> Lease]
  BY Zenon, <1>1 DEF SettleAndClose
<1>3. QED
  BY Zenon, <1>2, SettledTypeOK DEF SettleAndClose

(* Every message of x/billing, and every block. *)
LEMMA BillingNextTypeOK == TypeOK /\ BillingNext /\ UNCHANGED skuVars => BillingTypeOK'
<1> SUFFICES ASSUME TypeOK, BillingNext, UNCHANGED skuVars PROVE BillingTypeOK'
  OBVIOUS
<1>1. CASE CreditNext
  BY <1>1, CreditTypeOK DEF CreditNext
<1>2. CASE CreationNext
  <2>1. PICK t \in Tenants, p \in 1 .. providerSeq, n \in 1 .. params.maxItems :
          \E items \in [1 .. n -> Item] : createLeaseInternal(t, p, items)
    BY <1>2 DEF CreationNext, CreateLease, CreateLeaseForTenant
  <2>2. n \in Nat
    BY <2>1
  <2>3. QED
    BY <2>1, <2>2, CreationTypeOK
<1>3. CASE PendingNext
  <2>1. PICK S \in SUBSET (1 .. leaseSeq) :
          \/ \E sender \in Accounts, p \in 1 .. providerSeq :
               AcknowledgeLease(sender, p, S) \/ RejectLease(sender, p, S)
          \/ \E t \in Tenants : CancelLease(t, S)
    BY <1>3 DEF PendingNext
  <2>2. ASSUME NEW sender, NEW p, AcknowledgeLease(sender, p, S) PROVE BillingTypeOK'
    BY <2>2, AcknowledgeTypeOK
  <2>3. ASSUME /\ DropPending(S, "REJECTED")
               /\ UNCHANGED <<now, params, leaseSeq, credit, wallet, paid>>
        PROVE  BillingTypeOK'
    <3>1. now' \in Nat /\ "REJECTED" \in LeaseStates
      BY <2>3 DEF TypeOK, LeaseStates
    <3>2. QED
      BY <2>3, <3>1, DropTypeOK
  <2>4. QED
    BY <2>1, <2>2, <2>3 DEF RejectLease, CancelLease
<1>4. CASE SettlementNext
  <2>1. ASSUME NEW sender, NEW S \in SUBSET (1 .. leaseSeq), NEW order \in Orders(S),
               CloseLease(sender, order)
        PROVE  BillingTypeOK'
    <3>1. DOMAIN order \subseteq 1 .. leaseSeq
      BY DEF Orders
    <3>2. QED
      BY <2>1, <3>1, CloseTypeOK
  <2>2. ASSUME NEW sender, NEW S \in SUBSET (1 .. leaseSeq), NEW order \in Orders(S),
               NEW p, withdrawFromLeases(sender, p, order)
        PROVE  BillingTypeOK'
    <3>1. DOMAIN order \subseteq 1 .. leaseSeq
      BY DEF Orders
    <3>2. PICK W : SettleAndClose(order,
                     {l \in DOMAIN order : ShouldAutoCloseLease(order, l)}, W)
      BY Zenon, <2>2 DEF withdrawFromLeases
    <3>3. {l \in DOMAIN order : ShouldAutoCloseLease(order, l)} \in SUBSET (1 .. leaseSeq)
      BY <3>1
    <3>4. QED
      BY <3>1, <3>2, <3>3, WithdrawTypeOK
  <2>3. ASSUME NEW sender, NEW p, NEW limit, withdrawFromProvider(sender, p, limit)
        PROVE  BillingTypeOK'
    <3> DEFINE order == CollectLeases(p, EffectiveWithdrawLimit(limit))
    <3>1. PICK W : SettleAndClose(order,
                     {l \in DOMAIN order : ShouldAutoCloseLease(order, l)}, W)
      BY <2>3 DEF withdrawFromProvider
    <3>2. DOMAIN order \subseteq 1 .. leaseSeq
      BY DEF CollectLeases, WithdrawCandidates
    <3> HIDE DEF order
    <3>3. {l \in DOMAIN order : ShouldAutoCloseLease(order, l)} \in SUBSET (1 .. leaseSeq)
      BY <3>2
    <3>4. QED
      BY <3>1, <3>2, <3>3, WithdrawTypeOK
  <2>4. QED
    BY <1>4, <2>1, <2>2, <2>3 DEF SettlementNext
<1>5. ASSUME NEW sender, NEW p \in ParamChoices, UpdateParams(sender, p)
      PROVE  BillingTypeOK'
  <2>1. params' \in Params /\ ValidParams(params')
    BY <1>5, BillingAssumption DEF UpdateParams
  <2>2. UNCHANGED <<now, leaseSeq, leases, accounts, credit, wallet, paid>>
    BY <1>5 DEF UpdateParams
  <2>3. Lease' = Lease
    BY DEF skuVars, Lease
  <2>4. QED
    BY <2>1, <2>2, <2>3 DEF TypeOK, BillingTypeOK
<1>6. ASSUME NEW dt \in TimeSteps, NextBlock(dt)
      PROVE  BillingTypeOK'
  <2>1. now' \in Nat
    BY <1>6, BillingAssumption DEF NextBlock, TypeOK
  <2>2. {l \in ExpiringLeases : accounts[leases[l].tenant].exists}
          \in SUBSET (1 .. leaseSeq)
    BY DEF ExpiringLeases
  <2>3. "EXPIRED" \in LeaseStates
    BY DEF LeaseStates
  <2>4. QED
    BY <1>6, <2>1, <2>2, <2>3, DropTypeOK DEF NextBlock
<1>7. QED
  BY <1>1, <1>2, <1>3, <1>4, <1>5, <1>6 DEF BillingNext

(* No handler of x/sku deletes a provider. *)
LEMMA ProvidersStay ==
  ASSUME SkuTypeOK, SkuNext PROVE providerSeq' \in Nat /\ providerSeq <= providerSeq'
<1>1. providerSeq' = providerSeq + 1 \/ providerSeq' = providerSeq
  BY Zenon DEF SkuNext, CreateProvider, UpdateProvider, DeactivateProvider,
         CreateSKU, UpdateSKU, DeactivateSKU, UpdateSkuParams
<1>2. QED
  BY <1>1 DEF SkuTypeOK

(* A lease remains well formed when the catalogue changes. *)
LEMMA CatalogueTypeOK ==
  ASSUME TypeOK, SkuNext, UNCHANGED billingVars PROVE BillingTypeOK'
<1>1. 1 .. providerSeq \subseteq 1 .. providerSeq'
  BY ProvidersStay DEF TypeOK, SkuTypeOK
<1>2. Lease \subseteq Lease'
  BY <1>1 DEF Lease
<1>3. leases' \in [1 .. leaseSeq' -> Lease']
  BY <1>2 DEF TypeOK, billingVars
<1>4. UNCHANGED <<now, params, leaseSeq, accounts, credit, wallet, paid>>
  BY DEF billingVars
<1>5. QED
  BY <1>3, <1>4 DEF TypeOK, BillingTypeOK

(* Every step keeps the types. *)
LEMMA NextTypeOK == TypeOK /\ [Next]_vars => TypeOK'
<1> SUFFICES ASSUME TypeOK, [Next]_vars PROVE TypeOK'
  OBVIOUS
<1>1. SkuTypeOK'
  BY SkuNextTypeOK, SkuStutterTypeOK DEF TypeOK, Next, vars
<1>2. BillingTypeOK'
  <2>1. CASE BillingNext /\ UNCHANGED skuVars
    BY <2>1, BillingNextTypeOK
  <2>2. CASE SkuNext /\ UNCHANGED billingVars
    BY <2>2, CatalogueTypeOK
  <2>3. CASE UNCHANGED vars
    <3>1. UNCHANGED <<now, params, leaseSeq, leases, accounts, credit, wallet, paid>>
      BY <2>3 DEF vars, billingVars
    <3>2. Lease' = Lease
      BY <2>3 DEF vars, skuVars, Lease
    <3>3. QED
      BY <3>1, <3>2 DEF TypeOK, BillingTypeOK
  <2>4. QED
    BY <2>1, <2>2, <2>3 DEF Next
<1>3. QED
  BY <1>1, <1>2 DEF TypeOK, BillingTypeOK

(***************************************************************************)
(* Whatever messages are sent and however they are batched, every lease,   *)
(* account and balance stays well formed; in particular no settlement,     *)
(* release or decrement makes an amount or a count negative.               *)
(***************************************************************************)
THEOREM TypeCorrect == Spec => []TypeOK
BY InitTypeOK, NextTypeOK, PTL DEF Spec
=============================================================================
