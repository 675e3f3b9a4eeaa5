--------------------------- MODULE MeterTheorems ---------------------------
(***************************************************************************)
(* Proofs about metering: when leases are settled and what they are        *)
(* charged, and that the ledger implements LeaseLifecycle.                 *)
(*                                                                         *)
(* All of it rests on one lemma, LeaseSteps, that says what a step may do  *)
(* to one lease.  It needs SettlementTimes: a CLOSED lease accrues nothing *)
(* because it is settled up to its end.                                    *)
(***************************************************************************)
EXTENDS ChainTheorems

(* The provers get more time than by default. *)
USE SMTT(30), ZenonT(30)

(* Whole seconds: rounding down, a longer time has no fewer. *)
LEMMA SecondsBounds ==
  ASSUME NEW a \in Nat
  PROVE  /\ Seconds(a) \in Nat
         /\ TicksPerSecond * Seconds(a) <= a
         /\ a < TicksPerSecond * (Seconds(a) + 1)
<1>1. TicksPerSecond \in Nat /\ TicksPerSecond > 0
  BY BillingAssumption
<1>2. QED
  BY <1>1 DEF Seconds

(* Any whole number of seconds that fits is at most Seconds. *)
LEMMA SecondsLargest ==
  ASSUME NEW a \in Nat, NEW q \in Nat, TicksPerSecond * q <= a
  PROVE  q <= Seconds(a)
<1>1. TicksPerSecond \in Nat /\ TicksPerSecond > 0
  BY BillingAssumption
<1>2. TicksPerSecond * q < TicksPerSecond * (Seconds(a) + 1)
  BY <1>1, SecondsBounds
<1>3. ASSUME NEW r \in Nat, NEW T \in Nat, T > 0, T * q < T * r
      PROVE  q < r
  <2>1. ASSUME r <= q PROVE T * r <= T * q
    BY <2>1
  <2>2. QED
    BY <1>3, <2>1
<1>4. q < Seconds(a) + 1
  BY <1>1, <1>2, <1>3, SecondsBounds
<1>5. QED
  BY <1>4, SecondsBounds

(* More ticks are not fewer seconds. *)
LEMMA SecondsMonotone ==
  ASSUME NEW a \in Nat, NEW b \in Nat, a <= b
  PROVE  Seconds(a) <= Seconds(b)
<1>1. TicksPerSecond * Seconds(a) <= b /\ Seconds(a) \in Nat
  <2>1. TicksPerSecond * Seconds(a) \in Nat
    BY SecondsBounds, BillingAssumption
  <2>2. QED
    BY <2>1, SecondsBounds
<1>2. QED
  BY <1>1, SecondsLargest

(* Rounding each of two settlements charges no more than rounding once. *)
LEMMA SecondsSplit ==
  ASSUME NEW a \in Nat, NEW b \in Nat
  PROVE  Seconds(a) + Seconds(b) <= Seconds(a + b)
<1> DEFINE q == Seconds(a)
           r == Seconds(b)
           T == TicksPerSecond
<1>1. q \in Nat /\ r \in Nat /\ T \in Nat /\ T * q <= a /\ T * r <= b
  BY SecondsBounds, BillingAssumption
<1> HIDE DEF q, r, T
<1>2. T * (q + r) = T * q + T * r
  BY <1>1
<1>3. T * q \in Nat /\ T * r \in Nat
  BY <1>1
<1>4. T * (q + r) <= a + b
  BY <1>1, <1>2, <1>3
<1>5. QED
  BY <1>1, <1>4, SecondsLargest DEF q, r, T

-----------------------------------------------------------------------------
(* What a settlement does to one lease *)

(* The invariant: SettlementTimes, and the bound of the model on time. *)
MeterInv == TypeOK /\ now <= MaxTime /\ SettlementTimes

(* A lease that is not ACTIVE accrues nothing. *)
LEMMA OnlyActiveAccrues ==
  ASSUME MeterInv, NEW order, DOMAIN order \subseteq 1 .. leaseSeq,
         NEW l \in DOMAIN order, leases[l].state # "ACTIVE"
  PROVE  /\ CalculateTotalAccruedForLease(leases[l]) = NoCoins
         /\ CalculateTransferAmounts(order, l) = NoCoins
         /\ ~ShouldAutoCloseLease(order, l)
<1>1. leases[l] \in Lease /\ l \in 1 .. leaseSeq
  BY DEF MeterInv, TypeOK
<1>2. Elapsed(leases[l]) = 0
  <2>1. SettleTime(leases[l]) = leases[l].lastSettledAt
    BY <1>1 DEF SettleTime, MeterInv, SettlementTimes
  <2>2. QED
    BY <1>1, <2>1 DEF Elapsed, Monus, Lease
<1>3. Seconds(Elapsed(leases[l])) = 0
  BY <1>2, SecondsBounds, BillingAssumption DEF Seconds
<1>4. ~AccrualOverflows(leases[l])
  BY <1>3, BillingAssumption DEF AccrualOverflows
<1>5. leases[l].rates \in [Denoms -> Nat]
  BY <1>1 DEF Lease, AllCoins
<1>6. CalculateTotalAccruedForLease(leases[l]) = NoCoins
  BY <1>3, <1>5 DEF CalculateTotalAccruedForLease, Scale, NoCoins
<1>7. BalanceFor(order, l) \in [Denoms -> Nat]
  BY TransferType DEF MeterInv, AllCoins
<1>8. CalculateTransferAmounts(order, l) = NoCoins
  BY <1>4, <1>6, <1>7 DEF CalculateTransferAmounts, Demand, LeastOf, Least, NoCoins
<1>9. QED
  BY <1>6, <1>8 DEF ShouldAutoCloseLease

(* An ACTIVE lease that stays open is charged what it accrued; one that is  *)
(* closed for exhausted credit is charged no more, unless accrual overflows. *)
LEMMA TransferOutcome ==
  ASSUME MeterInv, NEW order, DOMAIN order \subseteq 1 .. leaseSeq,
         NEW l \in DOMAIN order, leases[l].state = "ACTIVE"
  PROVE  /\ CalculateTransferAmounts(order, l) \in AllCoins
         /\ ~AccrualOverflows(leases[l]) =>
              \A d \in Denoms : CalculateTransferAmounts(order, l)[d]
                                 <= CalculateTotalAccruedForLease(leases[l])[d]
         /\ ~ShouldAutoCloseLease(order, l) =>
              /\ ~AccrualOverflows(leases[l])
              /\ CalculateTransferAmounts(order, l)
                   = CalculateTotalAccruedForLease(leases[l])
<1> DEFINE accrued == CalculateTotalAccruedForLease(leases[l])
           balance == BalanceFor(order, l)
<1>1. TypeOK /\ l \in 1 .. leaseSeq
  BY DEF MeterInv
<1>2. Elapsed(leases[l]) \in Nat /\ accrued \in [Denoms -> Nat]
  BY <1>1, LeaseAmounts DEF AllCoins
<1>3. balance \in [Denoms -> Nat] /\ CalculateTransferAmounts(order, l) \in AllCoins
  BY <1>1, TransferType DEF AllCoins
<1>4. ASSUME Elapsed(leases[l]) = 0
      PROVE  ~AccrualOverflows(leases[l]) /\ \A d \in Denoms : accrued[d] = 0
  <2>1. Seconds(Elapsed(leases[l])) = 0
    BY <1>4, BillingAssumption DEF Seconds
  <2>2. leases[l].rates \in [Denoms -> Nat]
    BY Zenon, <1>1 DEF TypeOK, Lease, AllCoins
  <2>3. QED
    BY <2>1, <2>2, BillingAssumption
       DEF AccrualOverflows, CalculateTotalAccruedForLease, Scale
<1> HIDE DEF accrued, balance
<1>5. ASSUME ~AccrualOverflows(leases[l])
      PROVE  CalculateTransferAmounts(order, l)
               = [d \in Denoms |-> IF balance[d] < accrued[d] THEN balance[d]
                                                             ELSE accrued[d]]
  BY <1>5 DEF CalculateTransferAmounts, Demand, LeastOf, Least, accrued, balance
<1>6. ASSUME ~AccrualOverflows(leases[l]), NEW d \in Denoms
      PROVE  CalculateTransferAmounts(order, l)[d] <= accrued[d]
  BY <1>2, <1>3, <1>5, <1>6
<1>7. ASSUME ~ShouldAutoCloseLease(order, l)
      PROVE  ~AccrualOverflows(leases[l]) /\ CalculateTransferAmounts(order, l) = accrued
  <2>1. ~AccrualOverflows(leases[l])
    BY <1>2, <1>4, <1>7 DEF ShouldAutoCloseLease
  <2>2. ASSUME NEW d \in Denoms PROVE ~(balance[d] < accrued[d])
    <3>1. CASE Elapsed(leases[l]) > 0
      <4>1. ~(accrued[d] > 0 /\ accrued[d] >= balance[d])
        BY <1>7, <3>1 DEF ShouldAutoCloseLease, accrued, balance
      <4>2. QED
        BY <1>2, <1>3, <4>1
    <3>2. CASE ~(Elapsed(leases[l]) > 0)
      BY <1>2, <1>3, <1>4, <3>2
    <3>3. QED
      BY <3>1, <3>2
  <2>3. QED
    BY <1>2, <1>5, <2>1, <2>2
<1>8. QED
  BY <1>3, <1>6, <1>7 DEF accrued

-----------------------------------------------------------------------------
(* What a step does to one lease *)

Untouched(l) == leases'[l] = leases[l] /\ paid'[l] = paid[l]

Acknowledged(l) ==
  /\ leases[l].state = "PENDING"
  /\ leases'[l] = [leases[l] EXCEPT !.state = "ACTIVE", !.acknowledgedAt = now,
                                    !.lastSettledAt = now]
  /\ paid'[l] = paid[l]

Dropped(l, state) ==
  /\ leases[l].state = "PENDING"
  /\ leases'[l] = [leases[l] EXCEPT !.state = state, !.endedAt = now]
  /\ paid'[l] = paid[l]

ChargedInFull(l) ==
  /\ ~AccrualOverflows(leases[l])
  /\ paid'[l] = Plus(paid[l], CalculateTotalAccruedForLease(leases[l]))

Metered(l) ==
  /\ leases[l].state = "ACTIVE"
  /\ leases'[l] = [leases[l] EXCEPT !.lastSettledAt = now]
  /\ ChargedInFull(l)

Ended(l, exhausted) ==
  /\ leases[l].state = "ACTIVE"
  /\ leases'[l] = Closed(leases[l], exhausted)
  /\ exhausted \/ ChargedInFull(l)
  /\ \E charge \in AllCoins :
       /\ paid'[l] = Plus(paid[l], charge)
       /\ ~AccrualOverflows(leases[l]) =>
            \A d \in Denoms : charge[d] <= CalculateTotalAccruedForLease(leases[l])[d]

LeaseStep(l) ==
  \/ Untouched(l) \/ Acknowledged(l) \/ Metered(l)
  \/ \E state \in {"REJECTED", "EXPIRED"} : Dropped(l, state)
  \/ \E exhausted \in BOOLEAN : Ended(l, exhausted)

NewLeaseStep(l) ==
  /\ paid'[l] = NoCoins
  /\ \E t \in Tenants, p \in 1 .. providerSeq :
       \E rates \in AllCoins : leases'[l] = NewLease(t, p, rates)

QuietStep == UNCHANGED <<now, leaseSeq, leases, paid>>

CreateStep ==
  /\ now' = now
  /\ leaseSeq' = leaseSeq + 1
  /\ \A l \in 1 .. leaseSeq : Untouched(l)
  /\ NewLeaseStep(leaseSeq + 1)

AnswerStep ==
  /\ UNCHANGED <<now, leaseSeq>>
  /\ \A l \in 1 .. leaseSeq : Untouched(l) \/ Acknowledged(l) \/ Dropped(l, "REJECTED")

SettleStep ==
  /\ UNCHANGED <<now, leaseSeq>>
  /\ \A l \in 1 .. leaseSeq :
       Untouched(l) \/ Metered(l) \/ Ended(l, TRUE) \/ Ended(l, FALSE)

BlockStep ==
  /\ now <= now' /\ now' <= MaxTime
  /\ UNCHANGED leaseSeq
  /\ \A l \in 1 .. leaseSeq : Untouched(l) \/ Dropped(l, "EXPIRED")

(* Closing a batch. *)
LEMMA CloseIsSettleStep ==
  ASSUME MeterInv, NEW sender, NEW order, DOMAIN order \subseteq 1 .. leaseSeq,
         CloseLease(sender, order)
  PROVE  SettleStep
<1>1. UNCHANGED <<now, leaseSeq>>
  BY DEF CloseLease
<1>2. ASSUME NEW l \in (1 .. leaseSeq) \ DOMAIN order PROVE Untouched(l)
  BY <1>2 DEF CloseLease, PerformSettlement, Untouched
<1>3. ASSUME NEW l \in DOMAIN order PROVE Ended(l, TRUE) \/ Ended(l, FALSE)
  <2>1. /\ leases[l].state = "ACTIVE"
        /\ leases'[l] = Closed(leases[l], ShouldAutoCloseLease(order, l))
        /\ paid'[l] = Plus(paid[l], CalculateTransferAmounts(order, l))
    BY <1>3 DEF CloseLease, CloseAllowed, PerformSettlement
  <2>2. ShouldAutoCloseLease(order, l) \in BOOLEAN
    BY DEF ShouldAutoCloseLease
  <2>3. QED
    BY Zenon, <2>1, <2>2, TransferOutcome DEF Ended, ChargedInFull
<1>4. QED
  BY Zenon, <1>1, <1>2, <1>3 DEF SettleStep

(* Withdrawing, for a list of leases or for a provider: the leases that    *)
(* are found exhausted are closed, those with something to pay advance.    *)
LEMMA WithdrawIsSettleStep ==
  ASSUME MeterInv, NEW order, DOMAIN order \subseteq 1 .. leaseSeq, NEW W,
         \A l \in DOMAIN order : ~ShouldAutoCloseLease(order, l) =>
           (l \in W <=> CalculateTotalAccruedForLease(leases[l]) # NoCoins),
         W \subseteq DOMAIN order,
         SettleAndClose(order, {l \in DOMAIN order : ShouldAutoCloseLease(order, l)}, W)
  PROVE  SettleStep
<1> DEFINE C == {l \in DOMAIN order : ShouldAutoCloseLease(order, l)}
<1>1. UNCHANGED <<now, leaseSeq>>
  BY DEF SettleAndClose
<1>2. ASSUME NEW l \in 1 .. leaseSeq
      PROVE  /\ l \in C => leases'[l] = Closed(leases[l], TRUE)
             /\ l \in W \ C =>
                  leases'[l] = [leases[l] EXCEPT !.lastSettledAt = SettleTime(leases[l])]
             /\ l \notin C \cup W => leases'[l] = leases[l]
             /\ l \in DOMAIN order =>
                  paid'[l] = Plus(paid[l], CalculateTransferAmounts(order, l))
             /\ l \notin DOMAIN order => paid'[l] = paid[l]
  BY Zenon DEF SettleAndClose, PerformSettlement
<1> HIDE DEF C
<1>3. ASSUME NEW l \in (1 .. leaseSeq) \ DOMAIN order PROVE Untouched(l)
  BY Zenon, <1>2, <1>3 DEF Untouched, C
<1>4. ASSUME NEW l \in C PROVE Ended(l, TRUE)
  <2>1. l \in DOMAIN order /\ leases[l].state = "ACTIVE" /\ l \in 1 .. leaseSeq
    BY DEF C, ShouldAutoCloseLease
  <2>2. QED
    BY Zenon, <1>2, <2>1, TransferOutcome DEF Ended
<1>5. ASSUME NEW l \in DOMAIN order \ C PROVE Untouched(l) \/ Metered(l)
  <2>1. l \in 1 .. leaseSeq /\ ~ShouldAutoCloseLease(order, l)
    BY DEF C
  <2>2. l \in W <=> CalculateTotalAccruedForLease(leases[l]) # NoCoins
    BY <2>1
  <2>3. ASSUME CalculateTransferAmounts(order, l) = NoCoins PROVE paid'[l] = paid[l]
    <3>1. paid[l] \in [Denoms -> Nat]
      BY <2>1 DEF MeterInv, TypeOK, AllCoins
    <3>2. Plus(paid[l], NoCoins) = paid[l]
      BY <3>1 DEF Plus, NoCoins
    <3>3. QED
      BY Zenon, <1>2, <2>1, <2>3, <3>2
  <2>4. CASE leases[l].state # "ACTIVE"
    BY Zenon, <1>2, <2>1, <2>2, <2>3, <2>4, OnlyActiveAccrues DEF Untouched
  <2>5. CASE leases[l].state = "ACTIVE"
    <3>1. /\ ~AccrualOverflows(leases[l])
          /\ CalculateTransferAmounts(order, l) = CalculateTotalAccruedForLease(leases[l])
      BY <2>1, <2>5, TransferOutcome
    <3>2. CASE l \in W
      <4>1. SettleTime(leases[l]) = now
        BY <2>5 DEF SettleTime
      <4>2. QED
        BY Zenon, <1>2, <2>1, <2>5, <3>1, <3>2, <4>1 DEF Metered, ChargedInFull
    <3>3. CASE l \notin W
      BY Zenon, <1>2, <2>1, <2>2, <2>3, <3>1, <3>3 DEF Untouched
    <3>4. QED
      BY <3>2, <3>3
  <2>6. QED
    BY <2>4, <2>5
<1>6. QED
  BY Zenon, <1>1, <1>3, <1>4, <1>5 DEF SettleStep

(* Messages that answer pending leases. *)
LEMMA PendingIsAnswerStep ==
  ASSUME MeterInv, PendingNext PROVE AnswerStep
<1>1. PICK S \in SUBSET (1 .. leaseSeq) :
        \/ \E sender \in Accounts, p \in 1 .. providerSeq :
             AcknowledgeLease(sender, p, S) \/ RejectLease(sender, p, S)
        \/ \E t \in Tenants : CancelLease(t, S)
  BY DEF PendingNext
<1>2. ASSUME NEW sender, NEW p, AcknowledgeLease(sender, p, S) PROVE AnswerStep
  BY Zenon, <1>2 DEF AcknowledgeLease, validatePendingLeaseBatch, AnswerStep, Untouched,
              Acknowledged
<1>3. ASSUME \A l \in S : leases[l].state = "PENDING", DropPending(S, "REJECTED"),
             UNCHANGED <<now, params, leaseSeq, credit, wallet, paid>>
      PROVE  AnswerStep
  BY Zenon, <1>3 DEF DropPending, AnswerStep, Untouched, Dropped
<1>4. QED
  BY <1>1, <1>2, <1>3 DEF RejectLease, CancelLease, validatePendingLeaseBatch

(* Messages that settle. *)
LEMMA SettlementIsSettleStep ==
  ASSUME MeterInv, SettlementNext PROVE SettleStep
<1>1. ASSUME NEW sender, NEW S \in SUBSET (1 .. leaseSeq), NEW order \in Orders(S),
             CloseLease(sender, order)
      PROVE  SettleStep
  <2>1. DOMAIN order \subseteq 1 .. leaseSeq
    BY DEF Orders
  <2>2. QED
    BY <1>1, <2>1, CloseIsSettleStep
<1>2. ASSUME NEW sender, NEW S \in SUBSET (1 .. leaseSeq), NEW order \in Orders(S),
             NEW p, withdrawFromLeases(sender, p, order)
      PROVE  SettleStep
  <2> DEFINE W == {l \in DOMAIN order : CalculateTotalAccruedForLease(leases[l]) # NoCoins}
  <2>1. DOMAIN order \subseteq 1 .. leaseSeq
    BY DEF Orders
  <2>2. SettleAndClose(order, {l \in DOMAIN order : ShouldAutoCloseLease(order, l)}, W)
    BY <1>2 DEF withdrawFromLeases
  <2>3. /\ W \subseteq DOMAIN order
        /\ \A l \in DOMAIN order : ~ShouldAutoCloseLease(order, l) =>
             (l \in W <=> CalculateTotalAccruedForLease(leases[l]) # NoCoins)
    OBVIOUS
  <2> HIDE DEF W
  <2>4. QED
    BY <2>1, <2>2, <2>3, WithdrawIsSettleStep
<1>3. ASSUME NEW sender, NEW p, NEW limit, withdrawFromProvider(sender, p, limit)
      PROVE  SettleStep
  <2> DEFINE order == CollectLeases(p, EffectiveWithdrawLimit(limit))
             W     == {l \in DOMAIN order : CalculateTransferAmounts(order, l) # NoCoins}
  <2>1. DOMAIN order \subseteq 1 .. leaseSeq
    BY DEF CollectLeases, WithdrawCandidates
  <2>2. SettleAndClose(order, {l \in DOMAIN order : ShouldAutoCloseLease(order, l)}, W)
    BY <1>3 DEF withdrawFromProvider
  <2> HIDE DEF order
  <2>3. ASSUME NEW l \in DOMAIN order, ~ShouldAutoCloseLease(order, l)
        PROVE  CalculateTransferAmounts(order, l) = CalculateTotalAccruedForLease(leases[l])
    BY <2>1, <2>3, OnlyActiveAccrues, TransferOutcome
  <2>4. /\ W \subseteq DOMAIN order
        /\ \A l \in DOMAIN order : ~ShouldAutoCloseLease(order, l) =>
             (l \in W <=> CalculateTotalAccruedForLease(leases[l]) # NoCoins)
    BY <2>3
  <2> HIDE DEF W
  <2>5. QED
    BY <2>1, <2>2, <2>4, WithdrawIsSettleStep
<1>4. QED
  BY <1>1, <1>2, <1>3 DEF SettlementNext

(* Lease creation. *)
LEMMA CreationIsCreateStep ==
  ASSUME MeterInv, CreationNext PROVE CreateStep
<1>1. PICK t \in Tenants, p \in 1 .. providerSeq, n \in 1 .. params.maxItems :
        \E items \in [1 .. n -> Item] : createLeaseInternal(t, p, items)
  BY DEF CreationNext, CreateLease, CreateLeaseForTenant
<1>2. PICK items \in [1 .. n -> Item] : createLeaseInternal(t, p, items)
  BY <1>1
<1>3. TotalRatesPerSecond(items) \in AllCoins
  BY <1>1, RatesType DEF MeterInv
<1>4. leaseSeq \in Nat
  BY DEF MeterInv, TypeOK
<1>5. /\ leases'[leaseSeq + 1] = NewLease(t, p, TotalRatesPerSecond(items))
      /\ paid'[leaseSeq + 1] = NoCoins
      /\ \A l \in 1 .. leaseSeq : Untouched(l)
      /\ now' = now /\ leaseSeq' = leaseSeq + 1
  BY <1>2, <1>4 DEF createLeaseInternal, Extend, Untouched
<1>6. QED
  BY <1>3, <1>5 DEF CreateStep, NewLeaseStep

(* Every message of x/billing, and every block, seen from the leases. *)
LEMMA StepKinds ==
  ASSUME MeterInv, BillingNext
  PROVE  QuietStep \/ CreateStep \/ AnswerStep \/ SettleStep \/ BlockStep
<1>1. CASE CreditNext
  BY <1>1 DEF CreditNext, FundCredit, BankSend, QuietStep
<1>2. CASE \E sender \in Accounts, p \in ParamChoices : UpdateParams(sender, p)
  BY <1>2 DEF UpdateParams, QuietStep
<1>3. ASSUME NEW dt \in TimeSteps, NextBlock(dt) PROVE BlockStep
  <2>1. now <= now' /\ now' <= MaxTime
    BY <1>3, BillingAssumption DEF NextBlock, MeterInv, TypeOK
  <2> DEFINE S == {l \in ExpiringLeases : accounts[leases[l].tenant].exists}
  <2>2. \A l \in S : l \in 1 .. leaseSeq /\ leases[l].state = "PENDING"
    BY DEF ExpiringLeases, Overdue
  <2>3. DropPending(S, "EXPIRED") /\ UNCHANGED <<leaseSeq, paid>>
    BY <1>3 DEF NextBlock
  <2> HIDE DEF S
  <2>4. QED
    BY Zenon, <2>1, <2>2, <2>3 DEF DropPending, BlockStep, Untouched, Dropped
<1>4. QED
  BY <1>1, <1>2, <1>3, PendingIsAnswerStep, SettlementIsSettleStep, CreationIsCreateStep
     DEF BillingNext

(* In short: leases are created one at a time, time does not run backwards, *)
(* and each lease takes one of its few steps.                               *)
LEMMA LeaseSteps ==
  ASSUME MeterInv, [Next]_vars
  PROVE  /\ now <= now' /\ now' <= MaxTime
         /\ \A l \in 1 .. leaseSeq : LeaseStep(l)
         /\ leaseSeq' = leaseSeq \/ (leaseSeq' = leaseSeq + 1 /\ NewLeaseStep(leaseSeq + 1))
<1>1. now \in Nat /\ now <= MaxTime
  BY DEF MeterInv, TypeOK
<1>2. CASE QuietStep \/ UNCHANGED billingVars
  <2>1. UNCHANGED <<now, leaseSeq, leases, paid>>
    BY <1>2 DEF QuietStep, billingVars
  <2>2. QED
    BY <1>1, <2>1 DEF LeaseStep, Untouched
<1>3. CASE CreateStep
  BY <1>1, <1>3 DEF CreateStep, LeaseStep
<1>4. CASE AnswerStep
  BY <1>1, <1>4 DEF AnswerStep, LeaseStep
<1>5. CASE SettleStep
  <2>1. ASSUME NEW l \in 1 .. leaseSeq PROVE LeaseStep(l)
    BY Zenon, <1>5 DEF SettleStep, LeaseStep
  <2>2. UNCHANGED <<now, leaseSeq>>
    BY <1>5 DEF SettleStep
  <2>3. QED
    BY <1>1, <2>1, <2>2
<1>6. CASE BlockStep
  BY <1>6 DEF BlockStep, LeaseStep
<1>7. QED
  BY <1>2, <1>3, <1>4, <1>5, <1>6, StepKinds DEF Next, vars

-----------------------------------------------------------------------------
(* Settlement times *)

(* The times of one lease are in order. *)
TimesInOrder(lease, time) ==
  /\ lease.createdAt <= lease.lastSettledAt
  /\ lease.lastSettledAt <= time
  /\ lease.state \in {"ACTIVE", "CLOSED"} =>
       /\ lease.createdAt <= lease.acknowledgedAt
       /\ lease.acknowledgedAt <= lease.lastSettledAt
  /\ lease.state = "CLOSED" => lease.lastSettledAt = lease.endedAt

(* SettlementTimes, lease by lease. *)
LEMMA SettlementTimesByLease ==
  SettlementTimes <=> \A l \in 1 .. leaseSeq : TimesInOrder(leases[l], now)
BY DEF SettlementTimes, TimesInOrder

(* What happens to one lease keeps its times in order. *)
LEMMA TimesKept ==
  ASSUME MeterInv, now' \in Nat, now <= now', NEW l \in 1 .. leaseSeq,
         LeaseStep(l)
  PROVE  TimesInOrder(leases'[l], now')
<1>1. leases[l] \in Lease /\ now \in Nat
  BY DEF MeterInv, TypeOK
<1>2. TimesInOrder(leases[l], now)
  BY SettlementTimesByLease DEF MeterInv
<1>3. CASE Untouched(l)
  BY <1>1, <1>2, <1>3 DEF Untouched, TimesInOrder, Lease
<1>4. CASE Acknowledged(l)
  BY <1>1, <1>2, <1>4 DEF Acknowledged, TimesInOrder, Lease
<1>5. CASE Metered(l)
  BY <1>1, <1>2, <1>5 DEF Metered, TimesInOrder, Lease
<1>6. ASSUME NEW state \in {"REJECTED", "EXPIRED"}, Dropped(l, state)
      PROVE  TimesInOrder(leases'[l], now')
  BY <1>1, <1>2, <1>6 DEF Dropped, TimesInOrder, Lease
<1>7. ASSUME NEW exhausted \in BOOLEAN, Ended(l, exhausted)
      PROVE  TimesInOrder(leases'[l], now')
  <2>1. /\ leases'[l].createdAt = leases[l].createdAt
        /\ leases'[l].acknowledgedAt = leases[l].acknowledgedAt
        /\ leases'[l].lastSettledAt = now
        /\ leases'[l].endedAt = now
    BY <1>1, <1>7 DEF Ended, Closed, Lease
  <2>2. /\ leases[l].createdAt \in Nat /\ leases[l].acknowledgedAt \in Nat
        /\ leases[l].lastSettledAt \in Nat /\ leases[l].state = "ACTIVE"
    BY <1>1, <1>7 DEF Ended, Lease
  <2>3. QED
    BY <1>1, <1>2, <2>1, <2>2 DEF TimesInOrder
<1>8. QED
  BY <1>3, <1>4, <1>5, <1>6, <1>7 DEF LeaseStep

(* The inductive step for the times. *)
LEMMA NextMeterInv == MeterInv /\ [Next]_vars => MeterInv'
<1> SUFFICES ASSUME MeterInv, [Next]_vars PROVE MeterInv'
  OBVIOUS
<1>1. TypeOK'
  BY NextTypeOK DEF MeterInv
<1>2. now' \in Nat /\ now \in Nat /\ leaseSeq \in Nat
  BY <1>1 DEF MeterInv, TypeOK
<1>3. now <= now' /\ now' <= MaxTime
  BY LeaseSteps
<1>4. \A l \in 1 .. leaseSeq : TimesInOrder(leases'[l], now')
  BY <1>2, <1>3, LeaseSteps, TimesKept
<1>5. ASSUME NewLeaseStep(leaseSeq + 1), leaseSeq' = leaseSeq + 1
      PROVE  TimesInOrder(leases'[leaseSeq + 1], now')
  BY <1>2, <1>3, <1>5 DEF NewLeaseStep, NewLease, TimesInOrder
<1>6. \A l \in 1 .. leaseSeq' : TimesInOrder(leases'[l], now')
  BY <1>2, <1>4, <1>5, LeaseSteps
<1>7. QED
  BY <1>1, <1>3, <1>6 DEF MeterInv, SettlementTimes, TimesInOrder

(* A new ledger has no leases. *)
LEMMA InitMeterInv == Init => MeterInv
<1> SUFFICES ASSUME Init PROVE MeterInv
  OBVIOUS
<1>1. TypeOK /\ now = 0 /\ leaseSeq = 0
  BY InitTypeOK DEF Init, BillingInit
<1>2. QED
  BY <1>1, BillingAssumption DEF MeterInv, SettlementTimes

(***************************************************************************)
(* However messages are batched and blocks expire leases, a lease is never *)
(* settled before its acknowledgement or into the future, and a closed one *)
(* has nothing left to settle.                                             *)
(***************************************************************************)
THEOREM SettlementTimesAlways == Spec => []SettlementTimes
<1>1. MeterInv => SettlementTimes
  BY DEF MeterInv
<1>2. QED
  BY <1>1, InitMeterInv, NextMeterInv, PTL DEF Spec

-----------------------------------------------------------------------------
(* Charges *)

(* Two charges at one rate are no more than one for the whole time. *)
LEMMA ChargeSplit ==
  ASSUME NEW r \in Nat, NEW a \in Nat, NEW b \in Nat
  PROVE  r * Seconds(a) + r * Seconds(b) <= r * Seconds(a + b)
<1>1. Seconds(a) \in Nat /\ Seconds(b) \in Nat /\ Seconds(a + b) \in Nat
  BY SecondsBounds
<1>2. ASSUME NEW x \in Nat, NEW y \in Nat, NEW z \in Nat, x + y <= z
      PROVE  r * x + r * y <= r * z
  <2>1. r * x + r * y = r * (x + y)
    OBVIOUS
  <2>2. r * (x + y) <= r * z
    BY <1>2
  <2>3. QED
    BY <2>1, <2>2
<1>3. QED
  BY Zenon, <1>1, <1>2, SecondsSplit

(* The time an ACTIVE lease is charged for, and that it does not overflow  *)
(* while the chain is young.                                               *)
LEMMA ActiveElapsed ==
  ASSUME MeterInv, NEW l \in 1 .. leaseSeq, leases[l].state = "ACTIVE"
  PROVE  /\ Elapsed(leases[l]) = now - leases[l].lastSettledAt
         /\ Elapsed(leases[l]) \in Nat
         /\ leases[l].lastSettledAt - leases[l].acknowledgedAt \in Nat
         /\ now - leases[l].acknowledgedAt =
              (leases[l].lastSettledAt - leases[l].acknowledgedAt) + Elapsed(leases[l])
         /\ Seconds(now) <= MaxDurationSeconds => ~AccrualOverflows(leases[l])
<1>1. /\ now \in Nat /\ leases[l].lastSettledAt \in Nat
      /\ leases[l].acknowledgedAt \in Nat
  BY Zenon DEF MeterInv, TypeOK, Lease
<1>2. /\ leases[l].acknowledgedAt <= leases[l].lastSettledAt
      /\ leases[l].lastSettledAt <= now
  BY DEF MeterInv, SettlementTimes
<1>3. Elapsed(leases[l]) = now - leases[l].lastSettledAt
  BY <1>1, <1>2 DEF Elapsed, SettleTime, Monus
<1>4. Elapsed(leases[l]) \in Nat /\ Elapsed(leases[l]) <= now
  BY <1>1, <1>2, <1>3
<1>5. Seconds(Elapsed(leases[l])) <= Seconds(now)
  BY <1>1, <1>4, SecondsMonotone
<1>6. Seconds(now) <= MaxDurationSeconds => ~AccrualOverflows(leases[l])
  BY <1>1, <1>4, <1>5, SecondsBounds, BillingAssumption DEF AccrualOverflows
<1>7. QED
  BY <1>1, <1>2, <1>3, <1>4, <1>6

(* The most a lease may have been charged in a denomination. *)
Entitled(lease, d) ==
  IF lease.state \in {"ACTIVE", "CLOSED"}
  THEN lease.rates[d] * Seconds(lease.lastSettledAt - lease.acknowledgedAt) ELSE 0

(* A step leaves the charges of every old lease within their bound. *)
LEMMA ChargeKept ==
  ASSUME MeterInv, Seconds(now) <= MaxDurationSeconds, NEW l \in 1 .. leaseSeq,
         NEW d \in Denoms, paid[l][d] <= Entitled(leases[l], d),
         LeaseStep(l)
  PROVE  paid'[l][d] <= Entitled(leases'[l], d)
<1> DEFINE rate == leases[l].rates[d]
           ack  == leases[l].acknowledgedAt
           last == leases[l].lastSettledAt
<1>1. /\ leases[l] \in Lease /\ now \in Nat /\ rate \in Nat /\ ack \in Nat /\ last \in Nat
      /\ paid[l] \in [Denoms -> Nat]
  BY Zenon DEF MeterInv, TypeOK, Lease, AllCoins
<1>2. CASE Untouched(l)
  BY <1>2 DEF Untouched
<1>3. CASE Acknowledged(l)
  <2>1. leases'[l].state = "ACTIVE" /\ leases'[l].rates = leases[l].rates
    BY <1>1, <1>3 DEF Acknowledged, Lease
  <2>2. leases'[l].lastSettledAt - leases'[l].acknowledgedAt = 0
    BY <1>1, <1>3 DEF Acknowledged, Lease
  <2>3. Seconds(0) \in Nat
    BY SecondsBounds
  <2>4. Entitled(leases'[l], d) \in Nat
    BY <1>1, <2>1, <2>2, <2>3 DEF Entitled
  <2>5. paid'[l][d] <= 0
    BY <1>3 DEF Acknowledged, Entitled
  <2>6. QED
    BY <1>1, <1>3, <2>4, <2>5 DEF Acknowledged
<1>4. ASSUME NEW state \in {"REJECTED", "EXPIRED"}, Dropped(l, state)
      PROVE  paid'[l][d] <= Entitled(leases'[l], d)
  BY <1>1, <1>4 DEF Dropped, Entitled, Lease
<1>5. ASSUME leases[l].state = "ACTIVE",
             leases'[l].state \in {"ACTIVE", "CLOSED"},
             leases'[l].rates = leases[l].rates,
             leases'[l].lastSettledAt = now, leases'[l].acknowledgedAt = ack,
             NEW charge \in Nat, charge <= rate * Seconds(Elapsed(leases[l])),
             paid'[l][d] = paid[l][d] + charge
      PROVE  paid'[l][d] <= Entitled(leases'[l], d)
  <2>1. /\ Elapsed(leases[l]) \in Nat /\ last - ack \in Nat
        /\ now - ack = (last - ack) + Elapsed(leases[l])
    BY <1>5, ActiveElapsed
  <2>2. rate * Seconds(last - ack) + rate * Seconds(Elapsed(leases[l]))
          <= rate * Seconds(now - ack)
    BY Zenon, <1>1, <2>1, ChargeSplit
  <2>3. paid[l][d] <= rate * Seconds(last - ack)
    BY <1>5 DEF Entitled
  <2>4. Entitled(leases'[l], d) = rate * Seconds(now - ack)
    BY <1>5 DEF Entitled
  <2>5. /\ rate * Seconds(last - ack) \in Nat
        /\ rate * Seconds(Elapsed(leases[l])) \in Nat
        /\ rate * Seconds(now - ack) \in Nat
    BY <1>1, <2>1, SecondsBounds
  <2>6. QED
    BY <1>1, <1>5, <2>2, <2>3, <2>4, <2>5
<1>6. CalculateTotalAccruedForLease(leases[l])[d] = rate * Seconds(Elapsed(leases[l]))
  BY DEF CalculateTotalAccruedForLease, Scale
<1>7. CASE Metered(l)
  <2>1. /\ leases[l].state = "ACTIVE" /\ leases'[l].state = "ACTIVE"
        /\ leases'[l].rates = leases[l].rates
        /\ leases'[l].lastSettledAt = now /\ leases'[l].acknowledgedAt = ack
    BY <1>1, <1>7 DEF Metered, Lease
  <2>2. paid'[l][d] = paid[l][d] + rate * Seconds(Elapsed(leases[l]))
    BY <1>6, <1>7 DEF Metered, ChargedInFull, Plus
  <2>3. rate * Seconds(Elapsed(leases[l])) \in Nat
    BY <1>1, <2>1, ActiveElapsed, SecondsBounds
  <2>4. QED
    BY <1>5, <2>1, <2>2, <2>3
<1>8. ASSUME NEW exhausted \in BOOLEAN, Ended(l, exhausted)
      PROVE  paid'[l][d] <= Entitled(leases'[l], d)
  <2>1. /\ leases[l].state = "ACTIVE" /\ leases'[l].state = "CLOSED"
        /\ leases'[l].rates = leases[l].rates
        /\ leases'[l].lastSettledAt = now /\ leases'[l].acknowledgedAt = ack
    BY <1>1, <1>8 DEF Ended, Closed, Lease
  <2>2. PICK charge \in AllCoins :
          /\ paid'[l] = Plus(paid[l], charge)
          /\ ~AccrualOverflows(leases[l]) =>
               \A e \in Denoms :
                 charge[e] <= CalculateTotalAccruedForLease(leases[l])[e]
    BY <1>8 DEF Ended
  <2>3. charge[d] \in Nat /\ charge[d] <= rate * Seconds(Elapsed(leases[l]))
    BY <1>6, <2>1, <2>2, ActiveElapsed DEF AllCoins
  <2>4. paid'[l][d] = paid[l][d] + charge[d]
    BY <2>2 DEF Plus
  <2>5. QED
    BY <1>5, <2>1, <2>3, <2>4
<1>9. QED
  BY <1>2, <1>3, <1>4, <1>7, <1>8 DEF LeaseStep

(* The inductive step for the charges. *)
LEMMA NextChargesBounded ==
  MeterInv /\ MeterInv' /\ ChargesBounded /\ [Next]_vars => ChargesBounded'
<1> SUFFICES ASSUME MeterInv, MeterInv', ChargesBounded, [Next]_vars,
                    Seconds(now') <= MaxDurationSeconds,
                    NEW l \in 1 .. leaseSeq', NEW d \in Denoms
             PROVE  paid'[l][d] <= Entitled(leases'[l], d)
  BY DEF ChargesBounded, Entitled, Seconds
<1>1. now \in Nat /\ now' \in Nat /\ leaseSeq \in Nat
  BY DEF MeterInv, TypeOK
<1>2. CASE l \notin 1 .. leaseSeq
  <2>1. l = leaseSeq + 1 /\ NewLeaseStep(leaseSeq + 1)
    BY <1>1, <1>2, LeaseSteps
  <2>2. QED
    BY <2>1 DEF NewLeaseStep, NewLease, Entitled, NoCoins
<1>3. CASE l \in 1 .. leaseSeq
  <2>1. Seconds(now) <= MaxDurationSeconds
    BY <1>1, LeaseSteps, SecondsMonotone, SecondsBounds, BillingAssumption
  <2>2. paid[l][d] <= Entitled(leases[l], d)
    BY <1>3, <2>1 DEF ChargesBounded, Entitled
  <2>3. QED
    BY <1>3, <2>1, <2>2, LeaseSteps, ChargeKept
<1>4. QED
  BY <1>2, <1>3

(***************************************************************************)
(* For every price, quantity and length of a second, no sequence of        *)
(* withdrawals, closings and automatic closings charges a lease for more   *)
(* whole seconds than it was ACTIVE, and none charges a lease that was     *)
(* never acknowledged.                                                     *)
(***************************************************************************)
THEOREM ChargesAlwaysBounded == Spec => []ChargesBounded
<1>1. Init => ChargesBounded
  BY DEF Init, BillingInit, ChargesBounded
<1>2. QED
  BY <1>1, InitMeterInv, NextMeterInv, NextChargesBounded, PTL DEF Spec

-----------------------------------------------------------------------------
(* Exact charges *)

(* Only a lease that is CLOSED is marked as exhausted. *)
OnlyClosedExhausted ==
  \A l \in 1 .. leaseSeq : leases[l].exhausted => leases[l].state = "CLOSED"

ChargedExactly(lease, charged) ==
  lease.state \in {"ACTIVE", "CLOSED"} /\ ~lease.exhausted =>
    charged = Scale(lease.rates, lease.lastSettledAt - lease.acknowledgedAt)

(* What happens to one lease, where every tick is a second. *)
LEMMA ExactKept ==
  ASSUME MeterInv, TicksPerSecond = 1, NEW l \in 1 .. leaseSeq,
         leases[l].exhausted => leases[l].state = "CLOSED",
         ChargedExactly(leases[l], paid[l]),
         leases[l].state = "PENDING" => paid[l] = NoCoins,
         LeaseStep(l)
  PROVE  ChargedExactly(leases'[l], paid'[l])
<1> DEFINE rates == leases[l].rates
           ack   == leases[l].acknowledgedAt
           last  == leases[l].lastSettledAt
<1>1. /\ leases[l] \in Lease /\ now \in Nat /\ rates \in [Denoms -> Nat]
      /\ ack \in Nat /\ last \in Nat
  BY Zenon DEF MeterInv, TypeOK, Lease, AllCoins
<1>2. CASE Untouched(l)
  BY <1>2 DEF Untouched
<1>3. CASE Acknowledged(l)
  <2>1. leases'[l].rates = rates /\ leases'[l].lastSettledAt - leases'[l].acknowledgedAt = 0
    BY <1>1, <1>3 DEF Acknowledged, Lease
  <2>2. paid'[l] = NoCoins
    BY <1>3 DEF Acknowledged
  <2>3. Scale(rates, 0) = NoCoins
    BY <1>1 DEF Scale, NoCoins
  <2>4. QED
    BY <2>1, <2>2, <2>3 DEF ChargedExactly
<1>4. ASSUME NEW state \in {"REJECTED", "EXPIRED"}, Dropped(l, state)
      PROVE  ChargedExactly(leases'[l], paid'[l])
  <2>1. leases'[l].state = state
    BY <1>1, <1>4 DEF Dropped, Lease
  <2>2. QED
    BY <2>1 DEF ChargedExactly
<1>5. ASSUME leases[l].state = "ACTIVE", ChargedInFull(l)
      PROVE  paid'[l] = Scale(rates, now - ack)
  <2>1. /\ Elapsed(leases[l]) \in Nat /\ last - ack \in Nat
        /\ now - ack = (last - ack) + Elapsed(leases[l])
    BY <1>5, ActiveElapsed
  <2>2. Seconds(Elapsed(leases[l])) = Elapsed(leases[l])
    BY <2>1 DEF Seconds
  <2>3. paid[l] = Scale(rates, last - ack)
    BY <1>5 DEF ChargedExactly
  <2>4. paid'[l] = [d \in Denoms |-> rates[d] * (last - ack)
                                       + rates[d] * Elapsed(leases[l])]
    BY <1>5, <2>2, <2>3 DEF ChargedInFull, CalculateTotalAccruedForLease, Scale, Plus
  <2>5. ASSUME NEW d \in Denoms
        PROVE  rates[d] * (last - ack) + rates[d] * Elapsed(leases[l])
                 = rates[d] * (now - ack)
    <3>1. rates[d] \in Nat
      BY <1>1
    <3>2. QED
      BY <2>1, <3>1
  <2>6. QED
    BY <2>4, <2>5 DEF Scale
<1>6. CASE Metered(l)
  <2>1. /\ leases'[l].rates = rates /\ leases'[l].lastSettledAt = now
        /\ leases'[l].acknowledgedAt = ack
    BY <1>1, <1>6 DEF Metered, Lease
  <2>2. QED
    BY <1>5, <1>6, <2>1 DEF Metered, ChargedExactly
<1>7. ASSUME NEW exhausted \in BOOLEAN, Ended(l, exhausted)
      PROVE  ChargedExactly(leases'[l], paid'[l])
  <2>1. /\ leases'[l].rates = rates /\ leases'[l].lastSettledAt = now
        /\ leases'[l].acknowledgedAt = ack
    BY <1>1, <1>7 DEF Ended, Closed, Lease
  <2>2. leases'[l].exhausted = exhausted
    BY <1>1, <1>7 DEF Ended, Closed, Lease
  <2>3. ~exhausted => ChargedInFull(l)
    BY <1>7 DEF Ended
  <2>4. QED
    BY <1>5, <1>7, <2>1, <2>2, <2>3 DEF Ended, ChargedExactly
<1>8. QED
  BY <1>2, <1>3, <1>4, <1>6, <1>7 DEF LeaseStep

(* What happens to one lease marks it as exhausted only when it is closed. *)
LEMMA ExhaustionKept ==
  ASSUME MeterInv, NEW l \in 1 .. leaseSeq,
         leases[l].exhausted => leases[l].state = "CLOSED",
         LeaseStep(l)
  PROVE  leases'[l].exhausted => leases'[l].state = "CLOSED"
<1>1. leases[l] \in Lease
  BY DEF MeterInv, TypeOK
<1>2. CASE Untouched(l)
  BY <1>2 DEF Untouched
<1>3. CASE Acknowledged(l) \/ Metered(l)
               \/ \E state \in {"REJECTED", "EXPIRED"} : Dropped(l, state)
  <2>1. leases'[l].exhausted = leases[l].exhausted /\ leases[l].state # "CLOSED"
    BY Zenon, <1>1, <1>3 DEF Acknowledged, Metered, Dropped, Lease
  <2>2. QED
    BY <2>1
<1>4. ASSUME NEW exhausted \in BOOLEAN, Ended(l, exhausted)
      PROVE  leases'[l].state = "CLOSED"
  BY <1>1, <1>4 DEF Ended, Closed, Lease
<1>5. QED
  BY <1>2, <1>3, <1>4 DEF LeaseStep

(* The inductive step for exact charges.  That a PENDING lease has paid    *)
(* nothing is known from ChargesBounded.                                   *)
LEMMA NextChargesExact ==
  ASSUME MeterInv, MeterInv', ChargesBounded, OnlyClosedExhausted, ChargesExact,
         [Next]_vars
  PROVE  OnlyClosedExhausted' /\ ChargesExact'
<1>1. now \in Nat /\ now' \in Nat /\ leaseSeq \in Nat
  BY DEF MeterInv, TypeOK
<1>2. ASSUME NEW l \in 1 .. leaseSeq', l \notin 1 .. leaseSeq
      PROVE  leases'[l].state = "PENDING" /\ ~leases'[l].exhausted
  <2>1. l = leaseSeq + 1 /\ NewLeaseStep(leaseSeq + 1)
    BY <1>1, <1>2, LeaseSteps
  <2>2. QED
    BY <2>1 DEF NewLeaseStep, NewLease
<1>3. OnlyClosedExhausted'
  <2>1. ASSUME NEW l \in 1 .. leaseSeq', leases'[l].exhausted
        PROVE  leases'[l].state = "CLOSED"
    BY <1>2, <2>1, LeaseSteps, ExhaustionKept DEF OnlyClosedExhausted
  <2>2. QED
    BY <2>1 DEF OnlyClosedExhausted
<1>4. ASSUME TicksPerSecond = 1, now' <= MaxDurationSeconds, NEW l \in 1 .. leaseSeq'
      PROVE  ChargedExactly(leases'[l], paid'[l])
  <2>1. CASE l \notin 1 .. leaseSeq
    BY <1>2, <2>1 DEF ChargedExactly
  <2>2. CASE l \in 1 .. leaseSeq
    <3>1. now <= MaxDurationSeconds
      BY <1>1, <1>4, LeaseSteps, BillingAssumption
    <3>2. ChargedExactly(leases[l], paid[l])
      BY <1>4, <2>2, <3>1 DEF ChargesExact, ChargedExactly
    <3>3. ASSUME leases[l].state = "PENDING" PROVE paid[l] = NoCoins
      <4>1. Seconds(now) <= MaxDurationSeconds
        BY <1>1, <1>4, <3>1 DEF Seconds
      <4>2. \A d \in Denoms : paid[l][d] <= 0
        BY <2>2, <3>3, <4>1 DEF ChargesBounded
      <4>3. paid[l] \in [Denoms -> Nat]
        BY <2>2 DEF MeterInv, TypeOK, AllCoins
      <4>4. QED
        BY <4>2, <4>3 DEF NoCoins
    <3>4. QED
      BY <1>4, <2>2, <3>2, <3>3, LeaseSteps, ExactKept DEF OnlyClosedExhausted
  <2>3. QED
    BY <2>1, <2>2
<1>5. QED
  BY <1>3, <1>4 DEF ChargesExact, ChargedExactly

(***************************************************************************)
(* Where every tick is a second, a lease that credit did not run out for   *)
(* has paid its rate for exactly the time it is settled up to, after any   *)
(* sequence of withdrawals, in any batches, and its closing.               *)
(***************************************************************************)
THEOREM ChargesAlwaysExact == Spec => []ChargesExact
<1>1. Init => ChargesBounded /\ ChargesExact /\ OnlyClosedExhausted
  BY DEF Init, BillingInit, ChargesBounded, ChargesExact, OnlyClosedExhausted
<1>2. QED
  BY <1>1, InitMeterInv, NextMeterInv, NextChargesBounded, NextChargesExact, PTL
  DEF Spec

-----------------------------------------------------------------------------
(* Batches: what settling them does to leases and to credit. *)

(* A batch: some of the leases, in an order. *)
IsBatch(order) ==
  /\ DOMAIN order \subseteq 1 .. leaseSeq
  /\ \E b \in Nat : order \in Positions(DOMAIN order, b)

(* The transfers of a batch. *)
Transfers(order) == [l \in DOMAIN order |-> CalculateTransferAmounts(order, l)]

OfTenant(order, t) == {l \in DOMAIN order : leases[l].tenant = t}

(* The batches of messages that name leases are batches in this sense, ... *)
LEMMA OrdersAreBatches ==
  ASSUME TypeOK, NEW S \in SUBSET (1 .. leaseSeq), NEW order \in Orders(S)
  PROVE  IsBatch(order) /\ DOMAIN order = S
<1>1. DOMAIN order = S /\ order \in [S -> 1 .. Cardinality(S)]
      /\ \A l, m \in S : order[l] = order[m] => l = m
  BY DEF Orders
<1>2. Cardinality(S) \in Nat
  BY LeaseSetsFinite
<1>3. order \in Positions(S, Cardinality(S))
  BY <1>1, <1>2 DEF Positions
<1>4. QED
  BY <1>1, <1>2, <1>3 DEF IsBatch

(* ... and so are those a provider-wide withdrawal collects. *)
LEMMA CollectedAreBatches ==
  ASSUME TypeOK, NEW p, NEW limit
  PROVE  IsBatch(CollectLeases(p, limit))
<1> DEFINE order == CollectLeases(p, limit)
           S == DOMAIN order
<1>1. S \subseteq 1 .. leaseSeq /\ leaseSeq \in Nat
  BY DEF CollectLeases, WithdrawCandidates, TypeOK
<1>2. order = [l \in S |-> QueuePosition(l)]
  BY DEF CollectLeases
<1> HIDE DEF order, S
<1>3. order \in [S -> 0 .. leaseSeq + leaseSeq]
  BY <1>1, <1>2 DEF QueuePosition
<1>4. ASSUME NEW l \in S, NEW m \in S, order[l] = order[m] PROVE l = m
  BY <1>1, <1>2, <1>4 DEF QueuePosition
<1>5. order \in Positions(S, leaseSeq + leaseSeq)
  BY <1>3, <1>4 DEF Positions
<1>6. QED
  BY <1>1, <1>5 DEF IsBatch, order, S

(* What a settled batch does to its leases, and to the others. *)
SettlesBatch(order) ==
  /\ IsBatch(order)
  /\ PerformSettlement(order)
  /\ leaseSeq' = leaseSeq
  /\ \A l \in DOMAIN order :
       IF ShouldAutoCloseLease(order, l)
       THEN leases'[l] = Closed(leases[l], TRUE)
       ELSE leases'[l] \in {leases[l], Closed(leases[l], FALSE),
                            [leases[l] EXCEPT !.lastSettledAt = SettleTime(leases[l])]}
  /\ \A l \in (1 .. leaseSeq) \ DOMAIN order : leases'[l] = leases[l]

(* Every message that settles leases settles a batch. *)
LEMMA SettlementsAreBatches ==
  ASSUME TypeOK, SettlementNext
  PROVE  \E order : SettlesBatch(order)
<1>1. ASSUME NEW sender, NEW S \in SUBSET (1 .. leaseSeq), NEW order \in Orders(S),
             CloseLease(sender, order)
      PROVE  SettlesBatch(order)
  <2>1. IsBatch(order) /\ DOMAIN order = S
    BY OrdersAreBatches
  <2>2. /\ PerformSettlement(order) /\ leaseSeq' = leaseSeq
        /\ \A l \in (1 .. leaseSeq) \ S : leases'[l] = leases[l]
        /\ \A l \in S : leases'[l] = Closed(leases[l], ShouldAutoCloseLease(order, l))
    BY <1>1, <2>1 DEF CloseLease, CloseAllowed
  <2>3. \A l \in S : ShouldAutoCloseLease(order, l) \in BOOLEAN
    BY DEF ShouldAutoCloseLease
  <2>4. QED
    BY Zenon, <2>1, <2>2, <2>3 DEF SettlesBatch
<1>2. ASSUME NEW order, IsBatch(order), NEW W \in SUBSET DOMAIN order,
             SettleAndClose(order, {l \in DOMAIN order : ShouldAutoCloseLease(order, l)}, W)
      PROVE  SettlesBatch(order)
  <2> DEFINE C == {l \in DOMAIN order : ShouldAutoCloseLease(order, l)}
  <2>1. PerformSettlement(order) /\ leaseSeq' = leaseSeq
    BY <1>2 DEF SettleAndClose
  <2>2. leases' = [l \in 1 .. leaseSeq |->
          CASE l \in C -> Closed(leases[l], TRUE)
            [] l \in W \ C -> [leases[l] EXCEPT !.lastSettledAt = SettleTime(leases[l])]
            [] OTHER   -> leases[l]]
    BY <1>2 DEF SettleAndClose
  <2>3. C \subseteq DOMAIN order /\ DOMAIN order \subseteq 1 .. leaseSeq
        /\ \A l \in DOMAIN order : l \in C <=> ShouldAutoCloseLease(order, l)
    BY <1>2 DEF IsBatch
  <2> HIDE DEF C
  <2>4. \A l \in 1 .. leaseSeq :
          /\ l \in C => leases'[l] = Closed(leases[l], TRUE)
          /\ l \notin C => leases'[l] \in {leases[l],
               [leases[l] EXCEPT !.lastSettledAt = SettleTime(leases[l])]}
          /\ l \notin C \cup W => leases'[l] = leases[l]
    BY Zenon, <2>2
  <2>5. QED
    BY Zenon, <1>2, <2>1, <2>3, <2>4 DEF SettlesBatch
<1>3. ASSUME NEW sender, NEW p, NEW S \in SUBSET (1 .. leaseSeq), NEW order \in Orders(S),
             withdrawFromLeases(sender, p, order)
      PROVE  SettlesBatch(order)
  <2>1. IsBatch(order)
    BY OrdersAreBatches
  <2>2. QED
    BY <1>2, <1>3, <2>1 DEF withdrawFromLeases
<1>4. ASSUME NEW sender, NEW p, NEW limit, withdrawFromProvider(sender, p, limit)
      PROVE  SettlesBatch(CollectLeases(p, EffectiveWithdrawLimit(limit)))
  <2>1. IsBatch(CollectLeases(p, EffectiveWithdrawLimit(limit)))
    BY CollectedAreBatches
  <2>2. QED
    BY <1>2, <1>4, <2>1 DEF withdrawFromProvider
<1>5. QED
  BY <1>1, <1>3, <1>4 DEF SettlementNext

(***************************************************************************)
(* The closed form of a batch pays out what it takes: what a tenant's      *)
(* credit loses is the sum of the transfers of the tenant's leases.        *)
(***************************************************************************)
LEMMA TenantPays ==
  ASSUME TypeOK, NEW order, IsBatch(order), NEW t \in Tenants
  PROVE  /\ SumCoins(OfTenant(order, t), Transfers(order)) \in AllCoins
         /\ Minus(credit[t], Demands(OfTenant(order, t))) \in AllCoins
         /\ credit[t] = Plus(Minus(credit[t], Demands(OfTenant(order, t))),
                             SumCoins(OfTenant(order, t), Transfers(order)))
<1> DEFINE S == OfTenant(order, t)
           X == Transfers(order)
           D == [l \in S |-> Demand(leases[l])]
<1>1. /\ S \in SUBSET (1 .. leaseSeq) /\ S \subseteq DOMAIN order
      /\ \A l \in S : leases[l].tenant = t
  BY DEF OfTenant, IsBatch
<1>2. IsFiniteSet(S) /\ credit[t] \in AllCoins
  BY <1>1, LeaseSetsFinite DEF TypeOK
<1>3. \A l \in S : D[l] \in AllCoins
  BY <1>1, LeaseAmounts
<1>4. \A l \in S : X[l] = CalculateTransferAmounts(order, l) /\ X[l] \in AllCoins
  BY <1>1, TransferType DEF Transfers, IsBatch
<1>5. Demands(S) = SumCoins(S, D)
  BY DEF Demands
<1>6. SumCoins(S, X) \in AllCoins /\ Demands(S) \in AllCoins
  BY <1>2, <1>4, <1>1, SumCoinsType, LeaseSums
<1>7. PICK b \in Nat : order \in Positions(DOMAIN order, b)
  BY DEF IsBatch
<1> DEFINE pos == [l \in S |-> order[l]]
<1>8. pos \in Positions(S, b) /\ \A l \in S : pos[l] = order[l]
  BY <1>1, <1>7 DEF Positions
<1>9. ASSUME NEW l \in S PROVE Before(order, l) = Preceding(S, pos, l)
  BY <1>1 DEF Before, OfTenant, Preceding
<1>10. ASSUME NEW l \in S, NEW d \in Denoms
       PROVE  X[l][d] = Least(D[l][d], Monus(credit[t][d], Demands(Before(order, l))[d]))
  <2>1. X[l] = LeastOf(D[l], BalanceFor(order, l))
    BY <1>1, <1>4 DEF CalculateTransferAmounts
  <2>2. BalanceFor(order, l) = Minus(credit[t], Demands(Before(order, l)))
    BY <1>1 DEF BalanceFor
  <2> HIDE DEF X, D
  <2>3. QED
    BY <2>1, <2>2 DEF LeastOf, Minus
<1>11. ASSUME NEW l \in S
       PROVE  Demands(Before(order, l)) = SumCoins(Preceding(S, pos, l), D)
  <2> DEFINE B == Preceding(S, pos, l)
             E == [m \in B |-> Demand(leases[m])]
  <2>1. Demands(B) = SumCoins(B, E)
    BY DEF Demands
  <2>2. \A m \in B : E[m] = D[m]
    BY DEF Preceding
  <2>3. Before(order, l) = B
    BY <1>9
  <2> HIDE DEF B, E
  <2>4. QED
    BY <2>1, <2>2, <2>3, SumCoinsCong DEF B
<1> HIDE DEF S, X, D, pos
<1>12. ASSUME NEW d \in Denoms
       PROVE  /\ Monus(credit[t][d], Demands(S)[d]) = credit[t][d] - SumCoins(S, X)[d]
  <2> DEFINE a == [l \in S |-> D[l][d]]
             r == [l \in S |-> X[l][d]]
             c == credit[t][d]
  <2>1. c \in Nat /\ \A l \in S : a[l] = D[l][d] /\ r[l] = X[l][d] /\ a[l] \in Nat
    BY <1>2, <1>3 DEF AllCoins
  <2> HIDE DEF a, r, c
  <2>2. ASSUME NEW l \in S
        PROVE  r[l] = Least(a[l], Monus(c, SumOver(Preceding(S, pos, l), a)))
    <3>1. SumCoins(Preceding(S, pos, l), D)[d] = SumOver(Preceding(S, pos, l), a)
      BY <2>1, SumCoinsAt DEF Preceding
    <3>2. QED
      BY Zenon, <1>10, <1>11, <2>1, <3>1 DEF c
  <2>3. Monus(c, SumOver(S, a)) = c - SumOver(S, r)
    <3>1. \A x \in S : /\ a[x] \in Nat
                       /\ r[x] = Least(a[x],
                                       Monus(c, SumOver(Preceding(S, pos, x), a)))
      BY <2>1, <2>2
    <3>2. QED
      BY <1>2, <1>8, <2>1, <3>1, SumInTurn
  <2>4. SumCoins(S, D)[d] = SumOver(S, a) /\ SumCoins(S, X)[d] = SumOver(S, r)
    BY <2>1, SumCoinsAt
  <2>5. QED
    BY <1>5, <2>3, <2>4 DEF c
<1>13. Minus(credit[t], Demands(S)) \in AllCoins
  BY <1>2, <1>6, CoinOps
<1>14. ASSUME NEW d \in Denoms
       PROVE  credit[t][d] = Plus(Minus(credit[t], Demands(S)), SumCoins(S, X))[d]
  <2>1. credit[t][d] \in Nat /\ SumCoins(S, X)[d] \in Nat
    BY <1>2, <1>6 DEF AllCoins
  <2>2. Plus(Minus(credit[t], Demands(S)), SumCoins(S, X))[d]
          = Monus(credit[t][d], Demands(S)[d]) + SumCoins(S, X)[d]
    BY DEF Plus, Minus
  <2>3. QED
    BY <1>12, <2>1, <2>2
<1>15. credit[t] = Plus(Minus(credit[t], Demands(S)), SumCoins(S, X))
  <2>1. Plus(Minus(credit[t], Demands(S)), SumCoins(S, X)) \in AllCoins
    BY <1>6, <1>13, CoinOps
  <2>2. QED
    BY <1>2, <1>14, <2>1, CoinsEqual
<1>16. QED
  BY <1>6, <1>13, <1>15 DEF S, X
=============================================================================
