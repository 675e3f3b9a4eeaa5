------------------------------ MODULE Queries ------------------------------
(***************************************************************************)
(* Queries of x/billing that compute an answer from the state: what can be *)
(* withdrawn, what is available, how long the credit will last.  They      *)
(* settle nothing; the properties relate an answer to what the messages do *)
(* in the state it was given in.                                           *)
(***************************************************************************)
EXTENDS Chain

CONSTANTS
  DefaultProviderWithdrawableQueryLimit, MaxProviderWithdrawableQueryLimit,
  MaxCreditEstimateLeases

(* Mutant: what is reserved is held back from the provider. *)
WithdrawableFromAvailable(l) ==
  LeastOf(CalculateTotalAccruedForLease(leases[l]), GetAvailableCredit(leases[l].tenant))

(* Nothing is reported after an overflow; SettleTime leaves a lease that   *)
(* was never acknowledged without any time to charge.                      *)
CalculateWithdrawableForLease(l) ==
  IF AccrualOverflows(leases[l]) THEN NoCoins
  ELSE LeastOf(CalculateTotalAccruedForLease(leases[l]), credit[leases[l].tenant])

WithdrawableAmount(l) == CalculateWithdrawableForLease(l)

LeasesByProvider(p) == {l \in 1 .. leaseSeq : leases[l].provider = p}

(* The first leases of the provider in any state, up to the limit. *)
QueriedLeases(p, limit) ==
  LET C == LeasesByProvider(p)
      n == IF limit = 0 THEN DefaultProviderWithdrawableQueryLimit
                        ELSE Least(limit, MaxProviderWithdrawableQueryLimit)
  IN  {l \in C : Cardinality({m \in C : m < l}) < n}

ProviderWithdrawable(p, limit) ==
  LET S == QueriedLeases(p, limit)
  IN  SumCoins(S, [l \in S |-> CalculateWithdrawableForLease(l)])

(* The active leases of the tenant that an estimate takes into account. *)
EstimatedLeases(t) ==
  LET A == InState(t, "ACTIVE")
  IN  {l \in A : Cardinality({m \in A : m < l}) < MaxCreditEstimateLeases}

(* Seconds until credit c is used up at the given rates; the denomination  *)
(* that is used up first decides.                                          *)
Lasting(c, rates) ==
  LET S == {c[d] \div rates[d] : d \in {x \in Denoms : rates[x] > 0}}
  IN  IF S = {} THEN 0 ELSE CHOOSE n \in S : \A m \in S : n <= m

(* Mutant: the rates are not added up. *)
EstimateByDearestLease(t) ==
  LET S == {Lasting(credit[t], leases[l].rates) : l \in EstimatedLeases(t)}
  IN  IF S = {} THEN 0 ELSE CHOOSE n \in S : \A m \in S : n <= m

CreditEstimate(t) ==
  LET S == EstimatedLeases(t)
  IN  Lasting(credit[t], SumCoins(S, [l \in S |-> leases[l].rates]))

-----------------------------------------------------------------------------
(***************************************************************************)
(* What WithdrawableAmount answers is what the next settlement of the      *)
(* lease pays: exactly, when no other lease is settled or closed with it,  *)
(* and never more, whatever batch it is settled in, because the leases     *)
(* before it in the batch draw on the same credit.                         *)
(***************************************************************************)
WithdrawableIsPaid ==
  [][\A l \in 1 .. leaseSeq :
       ~AccrualOverflows(leases[l]) =>
         /\ \A d \in Denoms : paid'[l][d] <= paid[l][d] + WithdrawableAmount(l)[d]
         /\ leases[l].state = "ACTIVE" /\ leases'[l] # leases[l]
                /\ (\A m \in 1 .. leaseSeq \ {l} : leases'[m] = leases[m])
              => paid'[l] = Plus(paid[l], WithdrawableAmount(l))]_vars

(***************************************************************************)
(* What CreditEstimate answers is when the credit is found exhausted.      *)
(* Where all active leases of a tenant were last settled at one time, no   *)
(* settlement before the estimated seconds have passed exhausts any of     *)
(* them, whatever batch it settles; one that closes them all after that    *)
(* time exhausts at least one.                                             *)
(***************************************************************************)
EstimateHolds ==
  [][\A t \in Tenants :
       LET A == InState(t, "ACTIVE")
       IN  \A first \in A :
             /\ A = EstimatedLeases(t)
             /\ \A l \in A : leases[l].lastSettledAt = leases[first].lastSettledAt
             /\ ~AccrualOverflows(leases[first])
             => LET elapsed == Seconds(Elapsed(leases[first]))
                IN  /\ elapsed < CreditEstimate(t) =>
                         \A l \in A : ~leases'[l].exhausted
                    /\ /\ elapsed > CreditEstimate(t)
                       /\ \A l \in A : leases'[l].state = "CLOSED"
                       => \E l \in A : leases'[l].exhausted]_vars

(***************************************************************************)
(* proto/liftedinit/billing/v1/query.proto:64: ProviderWithdrawable is the *)
(* "total amount available for a provider to withdraw across all leases".  *)
(* If so, it is no more than all credit there is.                          *)
(***************************************************************************)
ProviderWithdrawableIsAvailable ==
  \A p \in 1 .. providerSeq, d \in Denoms :
    ProviderWithdrawable(p, 0)[d] <= SumCoins(Tenants, credit)[d]
=============================================================================
