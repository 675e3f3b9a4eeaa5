------------------------------- MODULE Chain -------------------------------
(***************************************************************************)
(* The ledger: the messages of x/sku and x/billing, in any order, and the  *)
(* blocks they are executed in.  The catalogue may change at any moment in *)
(* the life of a lease.                                                    *)
(***************************************************************************)
EXTENDS Billing

vars == <<skuVars, billingVars>>

Init == SkuInit /\ BillingInit

Next ==
  \/ BillingNext /\ UNCHANGED skuVars
  \/ SkuNext /\ UNCHANGED billingVars

Spec == Init /\ [][Next]_vars

(* The same ledger with a catalogue that does not change. *)
FixedCatalogueNext == BillingNext /\ UNCHANGED skuVars

FixedCatalogueSpec == Init /\ [][FixedCatalogueNext]_vars

(* Blocks are produced forever; nobody has to send a message. *)
FairSpec ==
  FixedCatalogueSpec /\ WF_vars((\E dt \in TimeSteps : NextBlock(dt)) /\ UNCHANGED skuVars)

(* The provider, moreover, keeps calling the provider-wide withdrawal. *)
WithdrawingSpec ==
  /\ FairSpec
  /\ \A p \in 1 .. MaxProviders :
       WF_vars(/\ p <= providerSeq
               /\ withdrawFromProvider(providers[p].address, p, 1)
               /\ UNCHANGED skuVars)

-----------------------------------------------------------------------------
(* Safety *)

(***************************************************************************)
(* Every variable holds a value the code can store: leases and accounts    *)
(* are well formed, the parameters are valid, balances are not negative.   *)
(***************************************************************************)
TypeOK ==
  /\ SkuTypeOK
  /\ now \in Nat
  /\ params \in Params /\ ValidParams(params)
  /\ leaseSeq \in Nat
  /\ leases \in [1 .. leaseSeq -> Lease]
  /\ accounts \in [Tenants -> CreditAccount]
  /\ credit \in [Tenants -> AllCoins]
  /\ wallet \in [Accounts -> AllCoins]
  /\ paid \in [1 .. leaseSeq -> AllCoins]

(***************************************************************************)
(* The invariant the header of types/credit.go asks for: a credit account  *)
(* reserves exactly the sum of the reservations of its PENDING and ACTIVE  *)
(* leases, whatever mixture of batches, auto-closes, expirations and       *)
(* parameter changes ended or started leases.                              *)
(***************************************************************************)
ReservationsMatch ==
  \A t \in Tenants : accounts[t].reserved = Reservations(LiveLeasesOf(t))

InState(t, state) == {l \in LeasesOf(t) : leases[l].state = state}

(***************************************************************************)
(* The lease counts of a credit account, kept by increments and by         *)
(* decrements that stop silently at zero, are the numbers of its ACTIVE    *)
(* and PENDING leases, and a lease's tenant has an account.                *)
(***************************************************************************)
CountsMatch ==
  \A t \in Tenants :
    /\ accounts[t].active = Cardinality(InState(t, "ACTIVE"))
    /\ accounts[t].pending = Cardinality(InState(t, "PENDING"))
    /\ LeasesOf(t) # {} => accounts[t].exists

(***************************************************************************)
(* Settlement times: a lease is settled from its acknowledgement on, never *)
(* into the future, and a CLOSED lease is settled up to its end, so that   *)
(* nothing is left to withdraw from it.                                    *)
(***************************************************************************)
SettlementTimes ==
  \A l \in 1 .. leaseSeq :
    LET lease == leases[l]
    IN  /\ lease.createdAt <= lease.lastSettledAt
        /\ lease.lastSettledAt <= now
        /\ lease.state \in {"ACTIVE", "CLOSED"} =>
             /\ lease.createdAt <= lease.acknowledgedAt
             /\ lease.acknowledgedAt <= lease.lastSettledAt
        /\ lease.state = "CLOSED" => lease.lastSettledAt = lease.endedAt

(***************************************************************************)
(* A lease is never charged for more than the time it was ACTIVE, however  *)
(* often and in whatever batches it is settled, and not at all if it was   *)
(* never acknowledged, as long as the chain is younger than the duration   *)
(* at which accrual gives up and takes the whole credit.                   *)
(***************************************************************************)
ChargesBounded ==
  Seconds(now) <= MaxDurationSeconds =>
    \A l \in 1 .. leaseSeq, d \in Denoms :
      paid[l][d] <=
        IF leases[l].state \in {"ACTIVE", "CLOSED"}
        THEN leases[l].rates[d]
               * Seconds(leases[l].lastSettledAt - leases[l].acknowledgedAt)
        ELSE 0

(***************************************************************************)
(* Where time has no fractions of a second, a lease that was not closed    *)
(* for exhausted credit has paid exactly for the time it is settled up to: *)
(* no settlement is lost, repeated or cut short.                           *)
(***************************************************************************)
ChargesExact ==
  TicksPerSecond = 1 /\ now <= MaxDurationSeconds =>
    \A l \in 1 .. leaseSeq :
      leases[l].state \in {"ACTIVE", "CLOSED"} /\ ~leases[l].exhausted =>
        paid[l] = Scale(leases[l].rates,
                        leases[l].lastSettledAt - leases[l].acknowledgedAt)

Unspent(S) == SumCoins(S, [l \in S |->
                 Minus(GetLeaseReservationAmount(leases[l]), paid[l])])

WithinReservation(l) ==
  \A d \in Denoms : paid[l][d] <= GetLeaseReservationAmount(leases[l])[d]

(***************************************************************************)
(* What the reservations do guarantee: as long as no lease of the tenant   *)
(* was charged more than its own reservation, the credit covers what every *)
(* live lease has left of its reservation.                                 *)
(***************************************************************************)
ReservationsCovered ==
  \A t \in Tenants :
    (\A l \in LeasesOf(t) : WithinReservation(l)) =>
      \A d \in Denoms : Unspent(LiveLeasesOf(t))[d] <= credit[t][d]

TotalSupply == Plus(SumCoins(Tenants, credit), SumCoins(Accounts, wallet))

(***************************************************************************)
(* docs/ARCHITECTURE.md of x/billing: "Tenants can close their leases at   *)
(* any time, even after provider/SKU deactivation".                        *)
(***************************************************************************)
TenantCanClose ==
  \A l \in 1 .. leaseSeq :
    leases[l].state = "ACTIVE" =>
      ENABLED CloseLease(leases[l].tenant, [m \in {l} |-> 1])

PendingBefore(l) == {m \in 1 .. l - 1 : leases[m].state = "PENDING"}

(***************************************************************************)
(* EndBlocker serves overdue leases in turn: a block expires an overdue    *)
(* lease, or else as many of the pending leases created before it as a     *)
(* block may expire; and no message, block or new lease ever adds to those *)
(* before it.  A lease with n pending ones before it is therefore expired  *)
(* by the block after n others at the latest, if it stays overdue.         *)
(***************************************************************************)
ExpiryInTurn ==
  [][\A l \in 1 .. leaseSeq :
       Overdue(l) =>
         /\ PendingBefore(l)' \subseteq PendingBefore(l)
         /\ (\E dt \in TimeSteps : NextBlock(dt)) =>
              \/ leases'[l].state = "EXPIRED"
              \/ Cardinality(PendingBefore(l)') + MaxPendingLeaseExpirationsPerBlock
                   <= Cardinality(PendingBefore(l))]_vars

(***************************************************************************)
(* types/credit.go:6: "when a lease is created, sufficient credit is       *)
(* guaranteed for at least min_lease_duration seconds of operation".  If   *)
(* so, no touch finds the credit of a younger lease exhausted.             *)
(***************************************************************************)
MinimumDurationGuaranteed ==
  \A l \in 1 .. leaseSeq :
    leases[l].state = "ACTIVE"
        /\ Seconds(now - leases[l].acknowledgedAt) < leases[l].minDur
      => ~ShouldAutoCloseLease([m \in {l} |-> 1], l)

-----------------------------------------------------------------------------
(* Refinement *)

BookEntry(l) ==
  [terms |-> [tenant |-> leases[l].tenant, provider |-> leases[l].provider,
              minDur |-> leases[l].minDur, createdAt |-> leases[l].createdAt],
   rates |-> leases[l].rates, state |-> leases[l].state,
   metered |-> leases[l].lastSettledAt, ended |-> leases[l].endedAt,
   charged |-> paid[l], exhausted |-> leases[l].exhausted]

Book == INSTANCE LeaseLifecycle
          WITH Period <- TicksPerSecond, Longest <- MaxDurationSeconds,
               clock <- now, size <- leaseSeq,
               book <- [l \in 1 .. leaseSeq |-> BookEntry(l)]

(***************************************************************************)
(* The ledger keeps the promises of LeaseLifecycle: whatever the catalogue,*)
(* the parameters and the credit do meanwhile, the terms of a lease do not *)
(* change, an ended lease is frozen, and a lease that goes on is charged   *)
(* exactly for the time by which its settlement time moves.                *)
(***************************************************************************)
ImplementsLifecycle == Book!BookSpec

-----------------------------------------------------------------------------
(* Liveness *)

(***************************************************************************)
(* An overdue lease does not stay pending: EndBlocker takes a bounded      *)
(* number of them per block, and still reaches every one.                  *)
(***************************************************************************)
OverdueExpires ==
  \A l \in 1 .. MaxLeases :
    (l <= leaseSeq /\ Overdue(l)) ~> (l <= leaseSeq /\ ~Overdue(l))

(***************************************************************************)
(* docs/API.md:342 of x/billing on the provider-wide withdrawal: "Call     *)
(* repeatedly until `has_more` is false".  A provider that does so is done *)
(* at some point.                                                          *)
(***************************************************************************)
WithdrawTerminates ==
  \A p \in 1 .. MaxProviders :
    (p <= providerSeq /\ HasMoreLeases(p, 1)) ~> (p <= providerSeq /\ ~HasMoreLeases(p, 1))
=============================================================================
