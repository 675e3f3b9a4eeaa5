------------------------------ MODULE Billing ------------------------------
(***************************************************************************)
(* x/billing: credit accounts, leases and their settlement.                *)
(*                                                                         *)
(* Every message is one atomic step: the handlers write through a cache    *)
(* context and the transaction is rolled back on an error.  A rejected     *)
(* message changes nothing, so an action is what an accepted message does, *)
(* and its guard the conditions under which the handler returns no error.  *)
(*                                                                         *)
(* Time is counted in ticks, TicksPerSecond to the second: block times are *)
(* finer than the seconds that charges are computed from.                  *)
(*                                                                         *)
(* A lease UUID is the lease's number in order of creation (see Sku).  The *)
(* items of a lease are kept as what all later steps use of them: the      *)
(* total rate per second in each denomination.                             *)
(***************************************************************************)
EXTENDS Sku

CONSTANTS
  Tenants,              \* the accounts that take leases
  TicksPerSecond, MaxDurationSeconds,
  MinPendingTimeout,    \* 60 seconds in the code
  MaxBatchLeaseSize, DefaultProviderWithdrawLimit,
  MaxPendingLeaseExpirationsPerBlock,
  ReservableSuffixes,             \* domain suffixes that may be reserved
  ParamChoices,         \* parameters a MsgUpdateParams may carry
  FundAmounts,          \* amounts a transfer into a credit account may carry
  Quantities,           \* quantities an item may carry
  TimeSteps,            \* ticks between two blocks
  MaxLeases, MaxTime,   \* bounds of the model
  GenesisParams, GenesisWallets, GenesisCredit, GenesisAccounts

VARIABLES
  now,        \* time of the current block
  params,     \* module parameters
  leaseSeq,   \* number of leases created
  leases,     \* the lease records
  accounts,   \* the credit account records, by tenant
  credit,     \* bank balance of the credit address derived from a tenant
  wallet,     \* bank balance of every other address
  paid        \* history: what each lease has transferred to its provider

billingVars == <<now, params, leaseSeq, leases, accounts, credit, wallet, paid>>

LeaseStates == {"PENDING", "ACTIVE", "CLOSED", "REJECTED", "EXPIRED"}

(* endedAt stands for ClosedAt, RejectedAt and ExpiredAt, of which the     *)
(* state selects one; exhausted for a closure reason "credit exhausted".   *)
Lease == [tenant : Tenants, provider : 1 .. providerSeq, rates : AllCoins,
          minDur : Nat, state : LeaseStates, createdAt : Nat,
          acknowledgedAt : Nat, lastSettledAt : Nat, endedAt : Nat,
          exhausted : BOOLEAN]

CreditAccount == [exists : BOOLEAN, active : Nat, pending : Nat,
                  reserved : AllCoins]

Params == [maxLeases : Nat, maxItems : Nat, maxPending : Nat, minDur : Nat,
           timeout : Nat, allowed : SUBSET Accounts, reserved : SUBSET ReservableSuffixes]

ValidParams(p) ==
  /\ 0 < p.maxLeases /\ p.maxLeases <= 10000
  /\ 0 < p.maxItems /\ p.maxItems <= 100
  /\ 0 < p.minDur /\ p.minDur <= 2592000
  /\ 0 < p.maxPending /\ p.maxPending <= 1000
  /\ MinPendingTimeout <= p.timeout /\ p.timeout <= 86400

(* The quantities and amounts messages carry are validated, and so is the  *)
(* genesis state.                                                          *)
ASSUME BillingAssumption ==
  /\ Tenants \subseteq Accounts
  /\ TicksPerSecond \in Nat \ {0}
  /\ MaxDurationSeconds \in Nat
  /\ MinPendingTimeout \in Nat
  /\ MaxBatchLeaseSize \in Nat \ {0}
  /\ MaxPendingLeaseExpirationsPerBlock \in Nat \ {0}
  /\ ParamChoices \subseteq Params
  /\ FundAmounts \subseteq Nat
  /\ Quantities \subseteq Nat \ {0}
  /\ TimeSteps \subseteq Nat
  /\ MaxTime \in Nat
  /\ GenesisParams \in Params /\ ValidParams(GenesisParams)
  /\ GenesisWallets \in [Accounts -> AllCoins]
  /\ GenesisCredit \in [Tenants -> AllCoins]

Item == [sku : 1 .. skuSeq, quantity : Quantities]

LeasesOf(t) == {l \in 1 .. leaseSeq : leases[l].tenant = t}

LiveLeasesOf(t) ==
  {l \in LeasesOf(t) : leases[l].state \in {"PENDING", "ACTIVE"}}

-----------------------------------------------------------------------------
(* Reservations *)

CalculateLeaseReservationFromRates(rates, minDur) == Scale(rates, minDur)

(* Mutant: the minimum duration of today, not the one the lease was made with. *)
ReservationByCurrentParams(lease) ==
  CalculateLeaseReservationFromRates(lease.rates, params.minDur)

GetLeaseReservationAmount(lease) ==
  CalculateLeaseReservationFromRates(lease.rates,
    IF lease.minDur = 0 THEN params.minDur ELSE lease.minDur)

Reservations(S) == SumCoins(S, [l \in S |-> GetLeaseReservationAmount(leases[l])])

(* Mutant: what is reserved for other leases counts as available. *)
AvailableIgnoringReservations(t) == credit[t]

GetAvailableCredit(t) == Minus(credit[t], accounts[t].reserved)

-----------------------------------------------------------------------------
(* Accrual *)

(* Mutant: a started second is charged in full. *)
SecondsRoundedUp(ticks) == (ticks + TicksPerSecond - 1) \div TicksPerSecond

Seconds(ticks) == ticks \div TicksPerSecond

(* Mutant: a closed lease goes on accruing. *)
SettleTimeOfClosed(lease) ==
  IF lease.state \in {"ACTIVE", "CLOSED"} THEN now ELSE lease.lastSettledAt

(* The time a settlement of the lease runs up to. *)
SettleTime(lease) == CASE lease.state = "ACTIVE" -> now
                       [] lease.state = "CLOSED" -> lease.endedAt
                       [] OTHER                  -> lease.lastSettledAt

Elapsed(lease) == Monus(SettleTime(lease), lease.lastSettledAt)

(* Mutant: the longest duration allowed is rejected, too. *)
AccrualOverflowsEarly(lease) == Seconds(Elapsed(lease)) >= MaxDurationSeconds

AccrualOverflows(lease) == Seconds(Elapsed(lease)) > MaxDurationSeconds

(* Mutant: the last second of a settlement is not charged. *)
AccruedOffByOne(lease) == Scale(lease.rates, Monus(Seconds(Elapsed(lease)), 1))

CalculateTotalAccruedForLease(lease) == Scale(lease.rates, Seconds(Elapsed(lease)))

(***************************************************************************)
(* What a settlement would transfer if the credit were unlimited.  After   *)
(* an overflow that is everything in the lease's denominations.            *)
(***************************************************************************)
Demand(lease) ==
  IF AccrualOverflows(lease)
  THEN [d \in Denoms |-> IF lease.rates[d] > 0 THEN credit[lease.tenant][d] ELSE 0]
  ELSE CalculateTotalAccruedForLease(lease)

-----------------------------------------------------------------------------
(***************************************************************************)
(* Settling a batch.  The handlers settle the leases of a batch one after  *)
(* the other against one balance.  `order` maps each lease of the batch to *)
(* a number, its leases being settled in increasing order; the leases      *)
(* settled before l leave it the balance BalanceFor(order, l).             *)
(***************************************************************************)
Demands(S) == SumCoins(S, [l \in S |-> Demand(leases[l])])

(* Mutant: the batch is settled from its end. *)
After(order, l) ==
  {m \in DOMAIN order : order[m] > order[l] /\ leases[m].tenant = leases[l].tenant}

Before(order, l) ==
  {m \in DOMAIN order : order[m] < order[l] /\ leases[m].tenant = leases[l].tenant}

(* Mutants: every lease of the batch sees the balance from before the      *)
(* batch; a balance is not stopped at zero.                                *)
StaleBalance(order, l) == credit[leases[l].tenant]

NegativeBalance(order, l) ==
  [d \in Denoms |-> credit[leases[l].tenant][d] - Demands(Before(order, l))[d]]

BalanceFor(order, l) == Minus(credit[leases[l].tenant], Demands(Before(order, l)))

(* Mutant: the transfer is not limited to the balance. *)
TransferUnlimited(order, l) == Demand(leases[l])

CalculateTransferAmounts(order, l) ==
  LeastOf(Demand(leases[l]), BalanceFor(order, l))

ShouldAutoCloseLease(order, l) ==
  LET lease   == leases[l]
      balance == BalanceFor(order, l)
      accrued == CalculateTotalAccruedForLease(lease)
  IN  /\ lease.state = "ACTIVE"
      /\ IF Elapsed(lease) > 0
         THEN \/ AccrualOverflows(lease)
              \/ \E d \in Denoms : accrued[d] > 0 /\ accrued[d] >= balance[d]
         ELSE \E d \in Denoms : lease.rates[d] > 0 /\ balance[d] = 0

(* The check on the clock that ShouldAutoCloseLease begins with. *)
NotSettledInFuture(lease) == lease.state = "ACTIVE" => lease.lastSettledAt <= now

(* The transfers of a settled batch: credit address to payout address. *)
PerformSettlement(order) ==
  /\ credit' = [t \in Tenants |->
       Minus(credit[t], Demands({l \in DOMAIN order : leases[l].tenant = t}))]
  /\ wallet' = [a \in Accounts |->
       LET S == {l \in DOMAIN order : providers[leases[l].provider].payout = a}
       IN  Plus(wallet[a],
                SumCoins(S, [l \in S |-> CalculateTransferAmounts(order, l)]))]
  /\ paid' = [l \in 1 .. leaseSeq |->
       IF l \in DOMAIN order
       THEN Plus(paid[l], CalculateTransferAmounts(order, l)) ELSE paid[l]]

(* The credit account after the leases S of the tenant leave the state they *)
(* are in; the counts stop at zero, as the decrements in the code do.       *)
EndActive(account, S) ==
  [account EXCEPT !.active = Monus(@, Cardinality(S)),
                  !.reserved = Minus(@, Reservations(S))]

(* Mutant: the wrong count is decremented. *)
EndPendingWrongCount(account, S) ==
  [account EXCEPT !.active = Monus(@, Cardinality(S)),
                  !.reserved = Minus(@, Reservations(S))]

EndPending(account, S) ==
  [account EXCEPT !.pending = Monus(@, Cardinality(S)),
                  !.reserved = Minus(@, Reservations(S))]

(* Mutant: closing leaves the settlement time behind. *)
ClosedUnsettled(lease, exhausted) ==
  [lease EXCEPT !.state = "CLOSED", !.endedAt = now, !.exhausted = exhausted]

Closed(lease, exhausted) ==
  [lease EXCEPT !.state = "CLOSED", !.endedAt = now, !.lastSettledAt = now,
                !.exhausted = exhausted]

(* A batch as a message names it: no duplicates, at most the maximal size. *)
ValidBatch(S) == S # {} /\ Cardinality(S) <= MaxBatchLeaseSize

Orders(S) == {o \in [S -> 1 .. Cardinality(S)] :
                \A l, m \in S : o[l] = o[m] => l = m}

-----------------------------------------------------------------------------
(* Credit *)

FundCredit(sender, t, d, amount) ==
  /\ amount > 0
  /\ wallet[sender][d] >= amount
  /\ wallet' = [wallet EXCEPT ![sender][d] = @ - amount]
  /\ credit' = [credit EXCEPT ![t][d] = @ + amount]
  /\ accounts' = [accounts EXCEPT ![t].exists = TRUE]
  /\ UNCHANGED <<now, params, leaseSeq, leases, paid>>

(* A plain bank transfer to a credit address: no account is created. *)
BankSend(sender, t, d, amount) ==
  /\ amount > 0
  /\ wallet[sender][d] >= amount
  /\ wallet' = [wallet EXCEPT ![sender][d] = @ - amount]
  /\ credit' = [credit EXCEPT ![t][d] = @ + amount]
  /\ UNCHANGED <<now, params, leaseSeq, leases, accounts, paid>>

-----------------------------------------------------------------------------
(* Lease creation *)

ItemRate(item, d) ==
  IF skus[item.sku].denom = d
  THEN RatePerSecond(skus[item.sku]) * item.quantity ELSE 0

TotalRatesPerSecond(items) ==
  [d \in Denoms |->
     SumOver(DOMAIN items, [i \in DOMAIN items |-> ItemRate(items[i], d)])]

NewLease(t, p, rates) ==
  [tenant |-> t, provider |-> p, rates |-> rates, minDur |-> params.minDur,
   state |-> "PENDING", createdAt |-> now, acknowledgedAt |-> 0,
   lastSettledAt |-> now, endedAt |-> 0, exhausted |-> FALSE]

AddPending(account, reservation) ==
  [account EXCEPT !.pending = @ + 1, !.reserved = Plus(@, reservation)]

createLeaseInternal(t, p, items) ==
  LET rates       == TotalRatesPerSecond(items)
      reservation == CalculateLeaseReservationFromRates(rates, params.minDur)
  IN  /\ leaseSeq < MaxLeases
      /\ Cardinality(DOMAIN items) <= params.maxItems
      /\ accounts[t].exists
      /\ accounts[t].active < params.maxLeases
      /\ accounts[t].pending < params.maxPending
      /\ \A i \in DOMAIN items :
           skus[items[i].sku].active /\ skus[items[i].sku].provider = p
      /\ providers[p].active
      /\ \A d \in Denoms : GetAvailableCredit(t)[d] >= reservation[d]
      /\ leaseSeq' = leaseSeq + 1
      /\ leases' = Extend(leases, leaseSeq + 1, NewLease(t, p, rates))
      /\ paid' = Extend(paid, leaseSeq + 1, NoCoins)
      /\ accounts' = [accounts EXCEPT ![t] = AddPending(accounts[t], reservation)]
      /\ UNCHANGED <<now, params, credit, wallet>>

CreateLease(t, p, items) == createLeaseInternal(t, p, items)

CreateLeaseForTenant(sender, t, p, items) ==
  /\ sender = Authority \/ sender \in params.allowed
  /\ createLeaseInternal(t, p, items)

-----------------------------------------------------------------------------
(* Answers to a pending lease *)

validateProviderAuthorization(sender, p) ==
  sender = providers[p].address \/ sender = Authority

validatePendingLeaseBatch(S, p) ==
  /\ ValidBatch(S)
  /\ \A l \in S : /\ leases[l].state = "PENDING"
                  /\ leases[l].provider = p
                  /\ accounts[leases[l].tenant].exists

AcknowledgeLease(sender, p, S) ==
  /\ validatePendingLeaseBatch(S, p)
  /\ validateProviderAuthorization(sender, p)
  /\ leases' = [l \in 1 .. leaseSeq |->
       IF l \in S
       THEN [leases[l] EXCEPT !.state = "ACTIVE", !.acknowledgedAt = now,
                              !.lastSettledAt = now]
       ELSE leases[l]]
  /\ accounts' = [t \in Tenants |->
       LET n == Cardinality(S \cap LeasesOf(t))
       IN  [accounts[t] EXCEPT !.pending = Monus(@, n), !.active = @ + n]]
  /\ UNCHANGED <<now, params, leaseSeq, credit, wallet, paid>>

(* The leases S leave PENDING for the state given, REJECTED or EXPIRED. *)
DropPending(S, state) ==
  /\ leases' = [l \in 1 .. leaseSeq |->
       IF l \in S THEN [leases[l] EXCEPT !.state = state, !.endedAt = now]
                  ELSE leases[l]]
  /\ accounts' = [t \in Tenants |-> EndPending(accounts[t], S \cap LeasesOf(t))]

RejectLease(sender, p, S) ==
  /\ validatePendingLeaseBatch(S, p)
  /\ validateProviderAuthorization(sender, p)
  /\ DropPending(S, "REJECTED")
  /\ UNCHANGED <<now, params, leaseSeq, credit, wallet, paid>>

CancelLease(t, S) ==
  /\ ValidBatch(S)
  /\ \A l \in S : leases[l].tenant = t /\ leases[l].state = "PENDING"
  /\ accounts[t].exists
  /\ DropPending(S, "REJECTED")
  /\ UNCHANGED <<now, params, leaseSeq, credit, wallet, paid>>

-----------------------------------------------------------------------------
(* Closing *)

(* Mutant: a tenant needs the provider to be active. *)
ClosedByIfOffered(sender, lease) ==
  CASE sender = Authority -> "authority"
    [] sender = lease.tenant /\ providers[lease.provider].active -> "tenant"
    [] OTHER -> "nobody"

(* The role in which the sender may close a lease. *)
ClosedBy(sender, lease) ==
  CASE sender = Authority                           -> "authority"
    [] sender # Authority /\ sender = lease.tenant  -> "tenant"
    [] /\ sender # Authority
       /\ sender # lease.tenant
       /\ sender = providers[lease.provider].address -> "provider"
    [] OTHER                                        -> "nobody"

(* The conditions under which a batch is closed. *)
CloseAllowed(sender, S) ==
  /\ ValidBatch(S)
  /\ \A l \in S : /\ leases[l].state = "ACTIVE"
                  /\ accounts[leases[l].tenant].exists
                  /\ NotSettledInFuture(leases[l])
  /\ \E role \in {"authority", "tenant", "provider"} :
       \A l \in S : ClosedBy(sender, leases[l]) = role

CloseLease(sender, order) ==
  LET S == DOMAIN order
  IN  /\ CloseAllowed(sender, S)
      /\ PerformSettlement(order)
      /\ leases' = [l \in 1 .. leaseSeq |->
           IF l \in S THEN Closed(leases[l], ShouldAutoCloseLease(order, l))
                      ELSE leases[l]]
      /\ accounts' = [t \in Tenants |-> EndActive(accounts[t], S \cap LeasesOf(t))]
      /\ UNCHANGED <<now, params, leaseSeq>>

-----------------------------------------------------------------------------
(* Withdrawal *)

(* The batch is settled, the leases C are closed, and the leases W advance *)
(* their settlement time.                                                  *)
SettleAndClose(order, C, W) ==
  /\ PerformSettlement(order)
  /\ leases' = [l \in 1 .. leaseSeq |->
       CASE l \in C -> Closed(leases[l], TRUE)
         [] l \in W \ C -> [leases[l] EXCEPT !.lastSettledAt = SettleTime(leases[l])]
         [] OTHER   -> leases[l]]
  /\ accounts' = [t \in Tenants |-> EndActive(accounts[t], C \cap LeasesOf(t))]
  /\ UNCHANGED <<now, params, leaseSeq>>

withdrawFromLeases(sender, p, order) ==
  LET S       == DOMAIN order
      closing == {l \in S : ShouldAutoCloseLease(order, l)}
      settled == {l \in S : CalculateTotalAccruedForLease(leases[l]) # NoCoins}
  IN  /\ ValidBatch(S)
      /\ \A l \in S : /\ leases[l].provider = p
                      /\ NotSettledInFuture(leases[l])
                      /\ leases[l].state # "ACTIVE" => ~AccrualOverflows(leases[l])
      /\ validateProviderAuthorization(sender, p)
      /\ \A l \in closing : accounts[leases[l].tenant].exists
      /\ closing \cup settled # {}
      /\ SettleAndClose(order, closing, settled)

(* ACTIVE leases come before CLOSED ones, each in the order of the index. *)
QueuePosition(l) == IF leases[l].state = "ACTIVE" THEN l ELSE leaseSeq + l

WithdrawCandidates(p) ==
  {l \in 1 .. leaseSeq : /\ leases[l].provider = p
                         /\ leases[l].state \in {"ACTIVE", "CLOSED"}}

(* The order in which one provider-wide call settles the leases it reaches. *)
CollectLeases(p, limit) ==
  LET C == WithdrawCandidates(p)
      S == {l \in C : Cardinality({m \in C : QueuePosition(m) < QueuePosition(l)}) < limit}
  IN  [l \in {x \in S : NotSettledInFuture(leases[x])} |-> QueuePosition(l)]

EffectiveWithdrawLimit(limit) ==
  IF limit = 0 THEN DefaultProviderWithdrawLimit ELSE limit

(* The has_more flag of the response. *)
HasMoreLeases(p, limit) ==
  Cardinality(WithdrawCandidates(p)) > EffectiveWithdrawLimit(limit)

(* AutoCloseLease fails for a lease whose tenant has no credit account, and *)
(* the lease is skipped; CountsMatch excludes it and no case is made of it. *)
withdrawFromProvider(sender, p, limit) ==
  LET order   == CollectLeases(p, EffectiveWithdrawLimit(limit))
      closing == {l \in DOMAIN order : ShouldAutoCloseLease(order, l)}
      settled == {l \in DOMAIN order : CalculateTransferAmounts(order, l) # NoCoins}
  IN  /\ limit <= MaxBatchLeaseSize
      /\ validateProviderAuthorization(sender, p)
      /\ SettleAndClose(order, closing, settled)

-----------------------------------------------------------------------------
(* Parameters and blocks *)

UpdateParams(sender, p) ==
  /\ ValidParams(p)
  /\ sender = Authority
  /\ params' = p
  /\ UNCHANGED <<now, leaseSeq, leases, accounts, credit, wallet, paid>>

Overdue(l) ==
  /\ leases[l].state = "PENDING"
  /\ now > leases[l].createdAt + params.timeout * TicksPerSecond

(* Mutant: leases that are not overdue use up the limit. *)
ExpiringAmongAll ==
  {l \in 1 .. leaseSeq :
     Overdue(l) /\ l <= MaxPendingLeaseExpirationsPerBlock}

(* The leases EndBlocker collects: the first overdue ones, up to the limit. *)
ExpiringLeases ==
  LET O == {l \in 1 .. leaseSeq : Overdue(l)}
  IN  {l \in O : Cardinality({m \in O : m < l}) < MaxPendingLeaseExpirationsPerBlock}

(* The block ends with EndBlocker, and the next one begins. *)
NextBlock(dt) ==
  /\ DropPending({l \in ExpiringLeases : accounts[leases[l].tenant].exists},
                 "EXPIRED")
  /\ now' = IF now + dt > MaxTime THEN MaxTime ELSE now + dt
  /\ UNCHANGED <<params, leaseSeq, credit, wallet, paid>>

-----------------------------------------------------------------------------
BillingInit ==
  /\ now = 0
  /\ params = GenesisParams
  /\ leaseSeq = 0
  /\ leases = <<>>
  /\ accounts = [t \in Tenants |->
       [exists |-> t \in GenesisAccounts, active |-> 0, pending |-> 0,
        reserved |-> NoCoins]]
  /\ credit = GenesisCredit
  /\ wallet = GenesisWallets
  /\ paid = <<>>

CreditNext ==
  \E sender \in Accounts, t \in Tenants, d \in Denoms, amount \in FundAmounts :
    \/ FundCredit(sender, t, d, amount)
    \/ BankSend(sender, t, d, amount)

CreationNext ==
  \E t \in Tenants, p \in 1 .. providerSeq, n \in 1 .. params.maxItems :
    \E items \in [1 .. n -> Item] :
      \/ CreateLease(t, p, items)
      \/ \E sender \in Accounts : CreateLeaseForTenant(sender, t, p, items)

PendingNext ==
  \E S \in SUBSET (1 .. leaseSeq) :
    \/ \E sender \in Accounts, p \in 1 .. providerSeq :
         AcknowledgeLease(sender, p, S) \/ RejectLease(sender, p, S)
    \/ \E t \in Tenants : CancelLease(t, S)

SettlementNext ==
  \E sender \in Accounts :
    \/ \E S \in SUBSET (1 .. leaseSeq) : \E order \in Orders(S) :
         \/ CloseLease(sender, order)
         \/ \E p \in 1 .. providerSeq : withdrawFromLeases(sender, p, order)
    \/ \E p \in 1 .. providerSeq, limit \in 0 .. MaxBatchLeaseSize :
         withdrawFromProvider(sender, p, limit)

BillingNext ==
  \/ CreditNext
  \/ CreationNext
  \/ PendingNext
  \/ SettlementNext
  \/ \E sender \in Accounts, p \in ParamChoices : UpdateParams(sender, p)
  \/ \E dt \in TimeSteps : NextBlock(dt)
=============================================================================
