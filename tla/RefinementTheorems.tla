------------------------- MODULE RefinementTheorems -------------------------
(***************************************************************************)
(* Proofs that relate the ledger to two other descriptions of it.  The more*)
(* abstract one is LeaseLifecycle: each kind of step of the ledger, as     *)
(* LeaseSteps sorts them, is a step of the book, or leaves it alone.  The  *)
(* more detailed one is module Batch: the closed form in which Billing gives*)
(* the outcome of a batch is what the loops of the handlers compute, one   *)
(* lease after the other, for batches of any size in any order.            *)
(***************************************************************************)
EXTENDS MeterTheorems, Batch

(* The provers get more time than by default. *)
USE SMTT(30), ZenonT(30)

-----------------------------------------------------------------------------
(* Entries of the book as records *)

Terms(lease) ==
  [tenant |-> lease.tenant, provider |-> lease.provider, minDur |-> lease.minDur,
   createdAt |-> lease.createdAt]

EntryOf(lease, charged) ==
  [terms |-> Terms(lease), rates |-> lease.rates, state |-> lease.state,
   metered |-> lease.lastSettledAt, ended |-> lease.endedAt, charged |-> charged,
   exhausted |-> lease.exhausted]

(* The updates of an entry that LeaseLifecycle speaks of. *)
ToActive(e, time) == [e EXCEPT !.state = "ACTIVE", !.metered = time]
ToDropped(e, state, time) == [e EXCEPT !.state = state, !.ended = time]
ToMetered(e, time, charge) == [e EXCEPT !.metered = time, !.charged = Plus(@, charge)]
ToClosed(e, time, charged, exhausted) ==
  [e EXCEPT !.state = "CLOSED", !.metered = time, !.ended = time,
            !.charged = charged, !.exhausted = exhausted]

(* The fields that no step changes. *)
SameTerms(x, y) ==
  /\ y.tenant = x.tenant /\ y.provider = x.provider /\ y.minDur = x.minDur
  /\ y.createdAt = x.createdAt /\ y.rates = x.rates

(* Records with the same fields are equal. *)
LEMMA EntryEqual ==
  ASSUME NEW T, NEW R, NEW S, NEW M, NEW E, NEW C, NEW X,
         NEW a \in [terms : T, rates : R, state : S, metered : M, ended : E,
                    charged : C, exhausted : X],
         NEW b \in [terms : T, rates : R, state : S, metered : M, ended : E,
                    charged : C, exhausted : X],
         a.terms = b.terms, a.rates = b.rates, a.state = b.state,
         a.metered = b.metered, a.ended = b.ended, a.charged = b.charged,
         a.exhausted = b.exhausted
  PROVE  a = b
OBVIOUS

(* Updates of an entry: an acknowledgement, ... *)
LEMMA EntryAcknowledged ==
  ASSUME NEW x, NEW y, SameTerms(x, y), NEW c, NEW now1,
         y.exhausted = x.exhausted, y.state = "ACTIVE", y.lastSettledAt = now1,
         y.endedAt = x.endedAt
  PROVE  EntryOf(y, c) = ToActive(EntryOf(x, c), now1)
<1> DEFINE a == EntryOf(y, c)
           b == ToActive(EntryOf(x, c), now1)
           Q == [terms : {Terms(x)}, rates : {x.rates}, state : {"ACTIVE"},
                 metered : {now1}, ended : {x.endedAt}, charged : {c},
                 exhausted : {x.exhausted}]
<1>1. Terms(y) = Terms(x) /\ y.rates = x.rates
  BY DEF SameTerms, Terms
<1>2. a \in Q /\ b \in Q
  BY ZenonT(30), <1>1 DEF EntryOf, ToActive
<1>3. /\ a.terms = b.terms /\ a.rates = b.rates /\ a.state = b.state
      /\ a.metered = b.metered /\ a.ended = b.ended /\ a.charged = b.charged
      /\ a.exhausted = b.exhausted
  BY <1>1 DEF EntryOf, ToActive
<1>4. QED
  BY <1>2, <1>3, EntryEqual

(* ... the end of a pending lease, ... *)
LEMMA EntryDropped ==
  ASSUME NEW x, NEW y, SameTerms(x, y), NEW c, NEW now1, NEW state,
         y.exhausted = x.exhausted, y.state = state, y.endedAt = now1,
         y.lastSettledAt = x.lastSettledAt
  PROVE  EntryOf(y, c) = ToDropped(EntryOf(x, c), state, now1)
<1> DEFINE a == EntryOf(y, c)
           b == ToDropped(EntryOf(x, c), state, now1)
           Q == [terms : {Terms(x)}, rates : {x.rates}, state : {state},
                 metered : {x.lastSettledAt}, ended : {now1}, charged : {c},
                 exhausted : {x.exhausted}]
<1>1. Terms(y) = Terms(x) /\ y.rates = x.rates
  BY DEF SameTerms, Terms
<1>2. a \in Q /\ b \in Q
  BY ZenonT(30), <1>1 DEF EntryOf, ToDropped
<1>3. /\ a.terms = b.terms /\ a.rates = b.rates /\ a.state = b.state
      /\ a.metered = b.metered /\ a.ended = b.ended /\ a.charged = b.charged
      /\ a.exhausted = b.exhausted
  BY <1>1 DEF EntryOf, ToDropped
<1>4. QED
  BY <1>2, <1>3, EntryEqual

(* ... a charge, ... *)
LEMMA EntryMetered ==
  ASSUME NEW x, NEW y, SameTerms(x, y), NEW c, NEW now1, NEW accrued,
         y.exhausted = x.exhausted, y.state = x.state, y.lastSettledAt = now1,
         y.endedAt = x.endedAt
  PROVE  EntryOf(y, Plus(c, accrued)) = ToMetered(EntryOf(x, c), now1, accrued)
<1> DEFINE a == EntryOf(y, Plus(c, accrued))
           b == ToMetered(EntryOf(x, c), now1, accrued)
           Q == [terms : {Terms(x)}, rates : {x.rates}, state : {x.state},
                 metered : {now1}, ended : {x.endedAt}, charged : {Plus(c, accrued)},
                 exhausted : {x.exhausted}]
<1>1. Terms(y) = Terms(x) /\ y.rates = x.rates
  BY DEF SameTerms, Terms
<1>2. a \in Q /\ b \in Q
  BY ZenonT(30), <1>1 DEF EntryOf, ToMetered
<1>3. /\ a.terms = b.terms /\ a.rates = b.rates /\ a.state = b.state
      /\ a.metered = b.metered /\ a.ended = b.ended /\ a.charged = b.charged
      /\ a.exhausted = b.exhausted
  BY <1>1 DEF EntryOf, ToMetered
<1>4. QED
  BY <1>2, <1>3, EntryEqual

(* ... and the end of an active lease. *)
LEMMA EntryClosed ==
  ASSUME NEW x, NEW y, SameTerms(x, y), NEW c, NEW now1, NEW c1,
         y.state = "CLOSED", y.lastSettledAt = now1, y.endedAt = now1
  PROVE  EntryOf(y, c1) = ToClosed(EntryOf(x, c), now1, c1, y.exhausted)
<1> DEFINE a == EntryOf(y, c1)
           b == ToClosed(EntryOf(x, c), now1, c1, y.exhausted)
           Q == [terms : {Terms(x)}, rates : {x.rates}, state : {"CLOSED"},
                 metered : {now1}, ended : {now1}, charged : {c1},
                 exhausted : {y.exhausted}]
<1>1. Terms(y) = Terms(x) /\ y.rates = x.rates
  BY DEF SameTerms, Terms
<1>2. a \in Q /\ b \in Q
  BY ZenonT(30), <1>1 DEF EntryOf, ToClosed
<1>3. /\ a.terms = b.terms /\ a.rates = b.rates /\ a.state = b.state
      /\ a.metered = b.metered /\ a.ended = b.ended /\ a.charged = b.charged
      /\ a.exhausted = b.exhausted
  BY <1>1 DEF EntryOf, ToClosed
<1>4. QED
  BY <1>2, <1>3, EntryEqual

-----------------------------------------------------------------------------
(* What happens to a lease, seen in the book *)

(* The entry of a lease, now and after a step. *)
LEMMA BookEntryIs ==
  ASSUME NEW l
  PROVE  /\ BookEntry(l) = EntryOf(leases[l], paid[l])
         /\ BookEntry(l)' = EntryOf(leases'[l], paid'[l])
BY DEF BookEntry, EntryOf, Terms

(* A pending lease is answered. *)
LEMMA AnsweredInBook ==
  ASSUME MeterInv, NEW l \in 1 .. leaseSeq, Acknowledged(l) \/ Dropped(l, "REJECTED")
  PROVE  Book!Answered(BookEntry(l), BookEntry(l)')
<1>1. leases[l] \in Lease
  BY DEF MeterInv, TypeOK
<1>2. BookEntry(l).state = "PENDING"
  BY DEF BookEntry, Acknowledged, Dropped
<1>3. CASE Acknowledged(l)
  <2>1. /\ SameTerms(leases[l], leases'[l]) /\ leases'[l].exhausted = leases[l].exhausted
        /\ leases'[l].state = "ACTIVE" /\ leases'[l].lastSettledAt = now
        /\ leases'[l].endedAt = leases[l].endedAt /\ paid'[l] = paid[l]
    BY <1>1, <1>3 DEF Acknowledged, SameTerms, Lease
  <2>2. EntryOf(leases'[l], paid'[l])
          = ToActive(EntryOf(leases[l], paid[l]), now)
    BY <2>1, EntryAcknowledged
  <2>3. QED
    BY ZenonT(30), <1>2, <2>2, BookEntryIs DEF Book!Answered, ToActive
<1>4. CASE Dropped(l, "REJECTED")
  <2>1. /\ SameTerms(leases[l], leases'[l]) /\ leases'[l].exhausted = leases[l].exhausted
        /\ leases'[l].state = "REJECTED" /\ leases'[l].endedAt = now
        /\ leases'[l].lastSettledAt = leases[l].lastSettledAt /\ paid'[l] = paid[l]
    BY <1>1, <1>4 DEF Dropped, SameTerms, Lease
  <2>2. EntryOf(leases'[l], paid'[l])
          = ToDropped(EntryOf(leases[l], paid[l]), "REJECTED", now)
    BY <2>1, EntryDropped
  <2>3. QED
    BY ZenonT(30), <1>2, <2>2, BookEntryIs DEF Book!Answered, ToDropped
<1>5. QED
  BY <1>3, <1>4

(* A pending lease expires. *)
LEMMA ExpiredInBook ==
  ASSUME MeterInv, NEW l \in 1 .. leaseSeq, Dropped(l, "EXPIRED")
  PROVE  Book!Expired(BookEntry(l), BookEntry(l)')
<1>1. leases[l] \in Lease
  BY DEF MeterInv, TypeOK
<1>2. BookEntry(l).state = "PENDING"
  BY DEF BookEntry, Dropped
<1>3. /\ SameTerms(leases[l], leases'[l]) /\ leases'[l].exhausted = leases[l].exhausted
      /\ leases'[l].state = "EXPIRED" /\ leases'[l].endedAt = now
      /\ leases'[l].lastSettledAt = leases[l].lastSettledAt /\ paid'[l] = paid[l]
  BY <1>1 DEF Dropped, SameTerms, Lease
<1>4. EntryOf(leases'[l], paid'[l])
        = ToDropped(EntryOf(leases[l], paid[l]), "EXPIRED", now)
  BY <1>3, EntryDropped
<1>5. QED
  BY ZenonT(30), <1>2, <1>4, BookEntryIs DEF Book!Expired, ToDropped

(* The book and the ledger agree on what an ACTIVE lease accrues. *)
LEMMA AccruedInBook ==
  ASSUME MeterInv, NEW l \in 1 .. leaseSeq, leases[l].state = "ACTIVE"
  PROVE  /\ Book!Accrued(BookEntry(l)) = CalculateTotalAccruedForLease(leases[l])
         /\ Book!RunsOver(BookEntry(l)) <=> AccrualOverflows(leases[l])
<1>1. Elapsed(leases[l]) = now - leases[l].lastSettledAt
  BY ActiveElapsed
<1>2. Seconds(Elapsed(leases[l])) = (now - BookEntry(l).metered) \div TicksPerSecond
  BY <1>1 DEF Seconds, BookEntry
<1>3. QED
  BY <1>2 DEF Book!Accrued, Book!RunsOver, CalculateTotalAccruedForLease,
              AccrualOverflows, BookEntry, Book!Scale, Scale

(* An active lease is charged. *)
LEMMA MeteredInBook ==
  ASSUME MeterInv, NEW l \in 1 .. leaseSeq, Metered(l)
  PROVE  Book!Metered(BookEntry(l), BookEntry(l)')
<1> DEFINE accrued == CalculateTotalAccruedForLease(leases[l])
<1>1. leases[l] \in Lease /\ leases[l].state = "ACTIVE"
  BY DEF MeterInv, TypeOK, Metered
<1>2. BookEntry(l).state = "ACTIVE"
  BY <1>1 DEF BookEntry
<1>3. /\ SameTerms(leases[l], leases'[l]) /\ leases'[l].exhausted = leases[l].exhausted
      /\ leases'[l].state = leases[l].state /\ leases'[l].lastSettledAt = now
      /\ leases'[l].endedAt = leases[l].endedAt
  BY <1>1 DEF Metered, SameTerms, Lease
<1>4. paid'[l] = Plus(paid[l], accrued)
  BY DEF Metered, ChargedInFull
<1> HIDE DEF accrued
<1>5. EntryOf(leases'[l], paid'[l])
        = ToMetered(EntryOf(leases[l], paid[l]), now, accrued)
  BY <1>3, <1>4, EntryMetered
<1>6. Book!Accrued(BookEntry(l)) = accrued
  BY <1>1, AccruedInBook DEF accrued
<1>7. QED
  BY ZenonT(30), <1>2, <1>5, <1>6, BookEntryIs
  DEF Book!Metered, ToMetered, Book!Plus, Plus

(* An active lease ends. *)
LEMMA EndedInBook ==
  ASSUME MeterInv, NEW l \in 1 .. leaseSeq, NEW x \in BOOLEAN, Ended(l, x)
  PROVE  Book!Ended(BookEntry(l), BookEntry(l)')
<1> DEFINE accrued == CalculateTotalAccruedForLease(leases[l])
<1>1. leases[l] \in Lease /\ leases[l].state = "ACTIVE" /\ paid[l] \in [Denoms -> Nat]
  BY DEF MeterInv, TypeOK, Ended, AllCoins
<1>2. BookEntry(l).state = "ACTIVE" /\ BookEntry(l).charged = paid[l]
  BY <1>1 DEF BookEntry
<1>3. /\ SameTerms(leases[l], leases'[l]) /\ leases'[l].state = "CLOSED" /\ leases'[l].lastSettledAt = now
      /\ leases'[l].endedAt = now
  BY <1>1 DEF Ended, Closed, SameTerms, Lease
<1>4. leases'[l].exhausted = x
  BY <1>1 DEF Ended, Closed, Lease
<1>5. BookEntry(l)'.charged = paid'[l] /\ BookEntry(l)'.exhausted = x
  BY <1>4 DEF BookEntry
<1>6. EntryOf(leases'[l], paid'[l])
        = ToClosed(EntryOf(leases[l], paid[l]), now, paid'[l], leases'[l].exhausted)
  BY <1>3, EntryClosed
<1>7. /\ Book!Accrued(BookEntry(l)) = accrued
      /\ Book!RunsOver(BookEntry(l)) <=> AccrualOverflows(leases[l])
  BY <1>1, AccruedInBook
<1>8. ~x => paid'[l] = Plus(paid[l], accrued)
  BY DEF Ended, ChargedInFull
<1>9. accrued \in [Denoms -> Nat]
  BY LeaseAmounts DEF MeterInv, AllCoins
<1> HIDE DEF accrued
<1>10. PICK charge \in AllCoins :
          /\ paid'[l] = Plus(paid[l], charge)
          /\ ~AccrualOverflows(leases[l]) => \A d \in Denoms : charge[d] <= accrued[d]
  BY DEF Ended, accrued
<1>11. ASSUME NEW d \in Denoms
       PROVE  /\ paid[l][d] <= paid'[l][d]
              /\ ~AccrualOverflows(leases[l]) => paid'[l][d] <= paid[l][d] + accrued[d]
  BY <1>1, <1>9, <1>10 DEF Plus, AllCoins
<1>12. BookEntry(l)' = ToClosed(BookEntry(l), now, BookEntry(l)'.charged,
                                BookEntry(l)'.exhausted)
  BY <1>4, <1>5, <1>6, BookEntryIs
<1>13. ~BookEntry(l)'.exhausted => BookEntry(l)'.charged = Plus(BookEntry(l).charged, accrued)
  BY <1>2, <1>5, <1>8
<1>14. QED
  BY <1>2, <1>5, <1>7, <1>11, <1>12, <1>13 DEF Book!Ended, ToClosed, Book!Plus, Plus

-----------------------------------------------------------------------------
(* Steps *)

Entries == [l \in 1 .. leaseSeq |-> BookEntry(l)]

(* The book holds the entry of every lease, now and after a step. *)
LEMMA EntriesAre ==
  /\ \A l \in 1 .. leaseSeq : Entries[l] = BookEntry(l)
  /\ \A l \in 1 .. leaseSeq' : Entries'[l] = BookEntry(l)'
BY DEF Entries

(* A lease that is not touched has its entry unchanged. *)
LEMMA UntouchedInBook ==
  ASSUME NEW l, Untouched(l) PROVE BookEntry(l)' = BookEntry(l)
BY DEF Untouched, BookEntry

(* Every step of the ledger is a step of the book, or leaves it alone. *)
LEMMA StepInBook ==
  ASSUME MeterInv, [Next]_vars
  PROVE  Book!BookNext \/ UNCHANGED <<now, leaseSeq, Entries>>
<1>1. leaseSeq \in Nat
  BY DEF MeterInv, TypeOK
<1>2. CASE QuietStep \/ UNCHANGED billingVars
  <2>1. UNCHANGED <<now, leaseSeq, leases, paid>>
    BY <1>2 DEF QuietStep, billingVars
  <2>2. \A l : BookEntry(l)' = BookEntry(l)
    BY <2>1 DEF BookEntry
  <2>3. QED
    BY <2>1, <2>2 DEF Entries
<1>3. CASE CreateStep
  <2>1. \A l \in 1 .. leaseSeq : Entries'[l] = Entries[l]
    BY <1>1, <1>3, EntriesAre, UntouchedInBook DEF CreateStep
  <2>2. Entries'[leaseSeq + 1] = EntryOf(leases'[leaseSeq + 1], paid'[leaseSeq + 1])
    BY <1>1, <1>3, EntriesAre, BookEntryIs DEF CreateStep
  <2>3. /\ leases'[leaseSeq + 1].state = "PENDING"
        /\ leases'[leaseSeq + 1].lastSettledAt = now
        /\ ~leases'[leaseSeq + 1].exhausted
        /\ paid'[leaseSeq + 1] = NoCoins
    BY <1>3 DEF CreateStep, NewLeaseStep, NewLease
  <2>4. LET f == EntryOf(leases'[leaseSeq + 1], paid'[leaseSeq + 1])
        IN  /\ f.state = "PENDING" /\ f.metered = now
            /\ f.charged = NoCoins /\ ~f.exhausted
    BY <2>3 DEF EntryOf
  <2>5. Book!Open
    BY <1>3, <2>1, <2>2, <2>4 DEF Book!Open, CreateStep, Entries, Book!NoCoins, NoCoins
  <2>6. QED
    BY <2>5 DEF Book!BookNext
<1>4. CASE AnswerStep
  <2>1. now' = now /\ leaseSeq' = leaseSeq
    BY <1>4 DEF AnswerStep
  <2>2. \A l \in 1 .. leaseSeq : \/ BookEntry(l)' = BookEntry(l)
                                 \/ Book!Answered(BookEntry(l), BookEntry(l)')
    BY <1>4, UntouchedInBook, AnsweredInBook DEF AnswerStep
  <2>3. Book!Answer
    BY <2>1, <2>2, EntriesAre DEF Book!Answer, Entries
  <2>4. QED
    BY <2>3 DEF Book!BookNext
<1>5. CASE SettleStep
  <2>1. now' = now /\ leaseSeq' = leaseSeq
    BY <1>5 DEF SettleStep
  <2>2. \A l \in 1 .. leaseSeq : \/ BookEntry(l)' = BookEntry(l)
                                 \/ Book!Metered(BookEntry(l), BookEntry(l)')
                                 \/ Book!Ended(BookEntry(l), BookEntry(l)')
    BY ZenonT(30), <1>5, UntouchedInBook, MeteredInBook, EndedInBook DEF SettleStep
  <2>3. Book!Settle
    BY <2>1, <2>2, EntriesAre DEF Book!Settle, Entries
  <2>4. QED
    BY <2>3 DEF Book!BookNext
<1>6. CASE BlockStep
  <2>1. now <= now' /\ leaseSeq' = leaseSeq
    BY <1>6 DEF BlockStep
  <2>2. \A l \in 1 .. leaseSeq : \/ BookEntry(l)' = BookEntry(l)
                                 \/ Book!Expired(BookEntry(l), BookEntry(l)')
    BY <1>6, UntouchedInBook, ExpiredInBook DEF BlockStep
  <2>3. Book!Tick
    BY <2>1, <2>2, EntriesAre DEF Book!Tick, Entries
  <2>4. QED
    BY <2>3 DEF Book!BookNext
<1>7. QED
  BY <1>2, <1>3, <1>4, <1>5, <1>6, StepKinds DEF Next, vars

(***************************************************************************)
(* The ledger implements LeaseLifecycle: whatever is batched, withdrawn,   *)
(* closed automatically or expired, terms do not change, ended leases are  *)
(* frozen, and metering charges exactly what accrued.                      *)
(***************************************************************************)
THEOREM LedgerImplementsLifecycle == Spec => ImplementsLifecycle
<1>1. Init => Book!BookInit
  BY DEF Init, BillingInit, Book!BookInit
<1>2. MeterInv /\ [Next]_vars => [Book!BookNext]_<<now, leaseSeq, Entries>>
  BY StepInBook
<1>3. Spec => []MeterInv
  BY InitMeterInv, NextMeterInv, PTL DEF Spec
<1>4. QED
  BY <1>1, <1>2, <1>3, PTL DEF Spec, ImplementsLifecycle, Book!BookSpec, Entries

-----------------------------------------------------------------------------
(***************************************************************************)
(* The loops.  PartialBooks is the closed form after the leases D of a     *)
(* batch, of which C are closed and all become what L says.                *)
(***************************************************************************)
Received(order, D, a) ==
  LET S == {l \in D : providers[leases[l].provider].payout = a}
  IN  SumCoins(S, [l \in S |-> CalculateTransferAmounts(order, l)])

PartialBooks(order, D, L, C) ==
  [credit   |-> [t \in Tenants |->
                   Minus(credit[t], Demands({l \in D : leases[l].tenant = t}))],
   wallet   |-> [a \in Accounts |-> Plus(wallet[a], Received(order, D, a))],
   paid     |-> [l \in 1 .. leaseSeq |->
                   IF l \in D THEN Plus(paid[l], CalculateTransferAmounts(order, l))
                              ELSE paid[l]],
   leases   |-> [l \in 1 .. leaseSeq |-> IF l \in D THEN L[l] ELSE leases[l]],
   accounts |-> [t \in Tenants |-> EndActive(accounts[t], C \cap D \cap LeasesOf(t))]]

AllBooks == [credit : [Tenants -> AllCoins], wallet : [Accounts -> AllCoins],
             paid : [1 .. leaseSeq -> AllCoins], leases : [1 .. leaseSeq -> Lease],
             accounts : [Tenants -> CreditAccount]]

(* Books are equal if their entries are. *)
LEMMA SameBooks ==
  ASSUME NEW b \in AllBooks, NEW c \in AllBooks,
         b.credit = c.credit, b.wallet = c.wallet, b.paid = c.paid,
         b.leases = c.leases, b.accounts = c.accounts
  PROVE  b = c
BY DEF AllBooks

(* What a batch decides for its leases. *)
Decision(order, L, C) ==
  /\ IsBatch(order)
  /\ C \in SUBSET DOMAIN order
  /\ \A l \in DOMAIN order : L[l] \in Lease

LEMMA PartialType ==
  ASSUME TypeOK, NEW order, NEW L, NEW C, Decision(order, L, C),
         NEW D \in SUBSET DOMAIN order
  PROVE  PartialBooks(order, D, L, C) \in AllBooks
<1>1. D \in SUBSET (1 .. leaseSeq) /\ DOMAIN order \subseteq 1 .. leaseSeq
  BY DEF Decision, IsBatch
<1>2. \A l \in D : CalculateTransferAmounts(order, l) \in AllCoins
  BY <1>1, TransferType
<1>3. ASSUME NEW a \in Accounts PROVE Plus(wallet[a], Received(order, D, a)) \in AllCoins
  <2> DEFINE S == {l \in D : providers[leases[l].provider].payout = a}
             F == [l \in S |-> CalculateTransferAmounts(order, l)]
  <2>1. IsFiniteSet(S) /\ \A l \in S : F[l] \in AllCoins
    BY <1>1, <1>2, LeaseSetsFinite
  <2>2. Received(order, D, a) = SumCoins(S, F)
    BY DEF Received
  <2> HIDE DEF S, F
  <2>3. Received(order, D, a) \in AllCoins
    BY <2>1, <2>2, SumCoinsType
  <2>4. wallet[a] \in AllCoins
    BY DEF TypeOK
  <2>5. QED
    BY <2>3, <2>4, CoinOps
<1>4. ASSUME NEW t \in Tenants
      PROVE  /\ Minus(credit[t], Demands({l \in D : leases[l].tenant = t})) \in AllCoins
             /\ EndActive(accounts[t], C \cap D \cap LeasesOf(t)) \in CreditAccount
  <2>1. Demands({l \in D : leases[l].tenant = t}) \in AllCoins
    BY <1>1, LeaseSums
  <2>2. /\ Reservations(C \cap D \cap LeasesOf(t)) \in AllCoins
        /\ Cardinality(C \cap D \cap LeasesOf(t)) \in Nat
    BY <1>1, LeaseSums, LeaseSetsFinite
  <2>3. credit[t] \in AllCoins /\ accounts[t] \in CreditAccount
        /\ accounts[t].reserved \in AllCoins /\ accounts[t].active \in Nat
    BY DEF TypeOK, CreditAccount
  <2>4. Minus(accounts[t].reserved, Reservations(C \cap D \cap LeasesOf(t))) \in AllCoins
    BY <2>2, <2>3, CoinOps
  <2>5. Monus(accounts[t].active, Cardinality(C \cap D \cap LeasesOf(t))) \in Nat
    BY <2>2, <2>3 DEF Monus
  <2>6. QED
    BY ZenonT(30), <2>1, <2>3, <2>4, <2>5, CoinOps DEF EndActive, CreditAccount
<1>5. ASSUME NEW l \in 1 .. leaseSeq
      PROVE  /\ paid[l] \in AllCoins /\ leases[l] \in Lease
             /\ l \in D => /\ Plus(paid[l], CalculateTransferAmounts(order, l)) \in AllCoins
                           /\ L[l] \in Lease
  BY <1>2, CoinOps DEF TypeOK, Decision
<1>6. QED
  BY ZenonT(30), <1>3, <1>4, <1>5 DEF PartialBooks, AllBooks

(* Before the loop, nothing has changed. *)
LEMMA PartialStart ==
  ASSUME TypeOK, NEW order, NEW L, NEW C, Decision(order, L, C)
  PROVE  PartialBooks(order, {}, L, C) = Books
<1> DEFINE b == PartialBooks(order, {}, L, C)
<1>1. b \in AllBooks
  BY PartialType
<1>2. Books \in AllBooks
  BY DEF Books, AllBooks, TypeOK
<1>3. \A c \in AllCoins : Minus(c, NoCoins) = c /\ Plus(c, NoCoins) = c
  BY DEF AllCoins, Minus, Plus, NoCoins, Monus
<1>4. ASSUME NEW t \in Tenants PROVE b.credit[t] = credit[t] /\ b.accounts[t] = accounts[t]
  <2>1. {l \in {} : leases[l].tenant = t} = {} /\ C \cap {} \cap LeasesOf(t) = {}
    OBVIOUS
  <2>2. Demands({}) = NoCoins /\ Reservations({}) = NoCoins /\ Cardinality({}) = 0
    BY SumCoinsEmpty, FS_EmptySet DEF Demands, Reservations
  <2>3. b.credit[t] = Minus(credit[t], Demands({}))
    BY <2>1 DEF PartialBooks
  <2>4. b.accounts[t] = EndActive(accounts[t], {})
    BY <2>1 DEF PartialBooks
  <2>5. /\ accounts[t] \in CreditAccount /\ accounts[t].active \in Nat
        /\ accounts[t].reserved \in AllCoins /\ credit[t] \in AllCoins
    BY DEF TypeOK, CreditAccount
  <2>6. Monus(accounts[t].active, 0) = accounts[t].active
    BY <2>5 DEF Monus
  <2>7. EndActive(accounts[t], {}) = accounts[t]
    BY ZenonT(30), <1>3, <2>2, <2>5, <2>6 DEF EndActive, CreditAccount
  <2>8. QED
    BY <1>3, <2>2, <2>3, <2>4, <2>5, <2>7
<1>5. ASSUME NEW a \in Accounts PROVE b.wallet[a] = wallet[a]
  <2>1. {l \in {} : providers[leases[l].provider].payout = a} = {}
    OBVIOUS
  <2>2. Received(order, {}, a) = NoCoins
    BY <2>1, SumCoinsEmpty DEF Received
  <2>3. b.wallet[a] = Plus(wallet[a], Received(order, {}, a)) /\ wallet[a] \in AllCoins
    BY DEF PartialBooks, TypeOK
  <2>4. QED
    BY <1>3, <2>2, <2>3
<1>6. b.paid = paid /\ b.leases = leases
  BY DEF PartialBooks, TypeOK
<1>7. b.credit = credit /\ b.accounts = accounts /\ b.wallet = wallet
  <2>1. b.credit \in [Tenants -> AllCoins] /\ b.accounts \in [Tenants -> CreditAccount]
        /\ b.wallet \in [Accounts -> AllCoins]
    BY <1>1 DEF AllBooks
  <2>2. credit \in [Tenants -> AllCoins] /\ accounts \in [Tenants -> CreditAccount]
        /\ wallet \in [Accounts -> AllCoins]
    BY DEF TypeOK
  <2> HIDE DEF b
  <2>3. QED
    BY <1>4, <1>5, <2>1, <2>2
<1> HIDE DEF b
<1>8. QED
  <2>1. /\ Books.credit = credit /\ Books.wallet = wallet /\ Books.paid = paid
        /\ Books.leases = leases /\ Books.accounts = accounts
    BY DEF Books
  <2>2. b = Books
    BY <1>1, <1>2, <1>6, <1>7, <2>1, SameBooks
  <2>3. QED
    BY <2>2 DEF b

(* After it, the closed form of the whole batch holds. *)
LEMMA PartialEnd ==
  ASSUME NEW order, NEW L, NEW C, Decision(order, L, C), PerformSettlement(order),
         leases' = [l \in 1 .. leaseSeq |-> IF l \in DOMAIN order THEN L[l] ELSE leases[l]],
         accounts' = [t \in Tenants |-> EndActive(accounts[t], C \cap LeasesOf(t))]
  PROVE  BooksAfter = PartialBooks(order, DOMAIN order, L, C)
<1>1. C \cap DOMAIN order = C
  BY DEF Decision
<1>2. wallet' = [a \in Accounts |-> Plus(wallet[a], Received(order, DOMAIN order, a))]
  BY ZenonT(30) DEF PerformSettlement, Received
<1>3. QED
  BY ZenonT(30), <1>1, <1>2 DEF BooksAfter, PartialBooks, PerformSettlement

(***************************************************************************)
(* A loop body that comes to lease l after the leases before it reads what *)
(* the closed form has for l: the lease as it was before the batch, the    *)
(* balance the others left, and so the same transfer and the same verdict. *)
(***************************************************************************)
LEMMA LoopReads ==
  ASSUME TypeOK, NEW order, NEW L, NEW C, Decision(order, L, C), NEW l \in DOMAIN order,
         NEW b, b = PartialBooks(order, Preceding(DOMAIN order, order, l), L, C)
  PROVE  /\ b.leases[l] = leases[l]
         /\ b.credit[leases[l].tenant] = BalanceFor(order, l)
         /\ LeastOf(AccruedIn(b, l), BalanceFor(order, l)) = CalculateTransferAmounts(order, l)
         /\ ~AccrualOverflows(leases[l]) =>
              AccruedIn(b, l) = CalculateTotalAccruedForLease(leases[l])
         /\ ExhaustedIn(b, l) <=> ShouldAutoCloseLease(order, l)
<1> DEFINE D == Preceding(DOMAIN order, order, l)
           t == leases[l].tenant
<1>1. /\ l \in 1 .. leaseSeq /\ leases[l] \in Lease /\ t \in Tenants
      /\ credit[t] \in AllCoins
  BY DEF Decision, IsBatch, TypeOK, Lease
<1>2. l \notin D
  <2>1. order[l] \in Nat
    BY DEF Decision, IsBatch, Positions
  <2>2. QED
    BY <2>1 DEF Preceding
<1>3. b.leases[l] = leases[l]
  BY <1>1, <1>2 DEF PartialBooks
<1>4. {m \in D : leases[m].tenant = t} = Before(order, l)
  BY DEF Preceding, Before
<1>5. b.credit[t] = BalanceFor(order, l)
  BY ZenonT(30), <1>1, <1>4 DEF PartialBooks, BalanceFor
<1>6. /\ Elapsed(leases[l]) \in Nat /\ Demand(leases[l]) \in AllCoins
      /\ CalculateTotalAccruedForLease(leases[l]) \in AllCoins
  BY <1>1, LeaseAmounts
<1>7. BalanceFor(order, l) \in AllCoins
  <2>1. Before(order, l) \in SUBSET (1 .. leaseSeq)
    BY DEF Before, Decision, IsBatch
  <2>2. QED
    BY <1>1, <2>1, LeaseSums, CoinOps DEF BalanceFor
<1>8. LeastOf(AccruedIn(b, l), BalanceFor(order, l)) = CalculateTransferAmounts(order, l)
  <2>1. CASE ~AccrualOverflows(leases[l])
    BY ZenonT(30), <1>3, <1>5, <2>1 DEF AccruedIn, CalculateTransferAmounts, Demand
  <2>2. CASE AccrualOverflows(leases[l])
    <3>1. AccruedIn(b, l) = [d \in Denoms |->
            IF leases[l].rates[d] > 0 THEN BalanceFor(order, l)[d] ELSE 0]
      BY <1>3, <1>5, <2>2 DEF AccruedIn
    <3>2. Demand(leases[l]) = [d \in Denoms |->
            IF leases[l].rates[d] > 0 THEN credit[t][d] ELSE 0]
      BY <2>2 DEF Demand
    <3>3. ASSUME NEW d \in Denoms PROVE BalanceFor(order, l)[d] <= credit[t][d]
      <4>1. Before(order, l) \in SUBSET (1 .. leaseSeq)
        BY DEF Before, Decision, IsBatch
      <4>2. Demands(Before(order, l))[d] \in Nat /\ credit[t][d] \in Nat
        BY <1>1, <4>1, LeaseSums DEF AllCoins
      <4>3. QED
        BY <4>2 DEF BalanceFor, Minus, Monus
    <3>4. ASSUME NEW d \in Denoms
          PROVE  Least(AccruedIn(b, l)[d], BalanceFor(order, l)[d])
                   = Least(Demand(leases[l])[d], BalanceFor(order, l)[d])
      <4>1. BalanceFor(order, l)[d] \in Nat /\ credit[t][d] \in Nat
        BY <1>1, <1>7 DEF AllCoins
      <4>2. QED
        BY <3>1, <3>2, <3>3, <4>1 DEF Least
    <3>5. QED
      BY <3>4 DEF CalculateTransferAmounts, LeastOf
  <2>3. QED
    BY <2>1, <2>2
<1>9. ~AccrualOverflows(leases[l]) =>
        AccruedIn(b, l) = CalculateTotalAccruedForLease(leases[l])
  BY ZenonT(30), <1>3 DEF AccruedIn
<1>10. ExhaustedIn(b, l) <=> ShouldAutoCloseLease(order, l)
  <2>1. CASE Elapsed(leases[l]) > 0
    <3> DEFINE Pays == \/ AccrualOverflows(leases[l])
                       \/ \E d \in Denoms :
                            /\ CalculateTotalAccruedForLease(leases[l])[d] > 0
                            /\ CalculateTotalAccruedForLease(leases[l])[d]
                                 >= BalanceFor(order, l)[d]
    <3>1. ShouldAutoCloseLease(order, l) <=> leases[l].state = "ACTIVE" /\ Pays
      BY <2>1 DEF ShouldAutoCloseLease
    <3>2. Elapsed(leases[l]) # 0
      BY <1>6, <2>1
    <3>3. ExhaustedIn(b, l) <=> leases[l].state = "ACTIVE" /\ Pays
      BY ZenonT(30), <1>3, <1>5, <3>2 DEF ExhaustedIn
    <3>4. QED
      BY <3>1, <3>3
  <2>2. CASE Elapsed(leases[l]) = 0
    <3>1. Seconds(Elapsed(leases[l])) = 0
      BY <2>2, SecondsBounds, BillingAssumption DEF Seconds
    <3>2. ~AccrualOverflows(leases[l])
      BY <3>1, BillingAssumption DEF AccrualOverflows
    <3>3. \A d \in Denoms : CalculateTotalAccruedForLease(leases[l])[d] = 0
      <4>1. \A d \in Denoms : leases[l].rates[d] \in Nat
        BY <1>1 DEF Lease, AllCoins
      <4>2. QED
        BY <3>1, <4>1 DEF CalculateTotalAccruedForLease, Scale
    <3>4. QED
      BY <1>3, <1>5, <2>2, <3>2, <3>3 DEF ExhaustedIn, ShouldAutoCloseLease
  <2>3. QED
    BY <1>6, <2>1, <2>2
<1>11. QED
  BY <1>3, <1>5, <1>8, <1>9, <1>10

(* The closed form of one more transfer from a balance. *)
LEMMA NextTransfer ==
  ASSUME NEW x \in Nat, NEW y \in Nat, NEW z \in Nat
  PROVE  Monus(Monus(x, y), Least(z, Monus(x, y))) = Monus(x, y + z)
BY DEF Monus, Least

(***************************************************************************)
(* A loop body that settles lease l takes the balances from the closed     *)
(* form of the leases before l to that of these and l.                     *)
(***************************************************************************)
LEMMA LoopSettles ==
  ASSUME TypeOK, NEW order, NEW L, NEW C, Decision(order, L, C), NEW l \in DOMAIN order,
         NEW D, D = Preceding(DOMAIN order, order, l),
         NEW b, b = PartialBooks(order, D, L, C),
         NEW c, c = PartialBooks(order, D \cup {l}, L, C)
  PROVE  /\ SettleOne(b, l).credit = c.credit
         /\ SettleOne(b, l).wallet = c.wallet
         /\ SettleOne(b, l).paid = c.paid
         /\ SettleOne(b, l).leases = b.leases
         /\ SettleOne(b, l).accounts = b.accounts
         /\ SettleOne(b, l) \in AllBooks
<1> DEFINE t == leases[l].tenant
           payout == providers[leases[l].provider].payout
           amount == CalculateTransferAmounts(order, l)
<1>1. /\ l \in 1 .. leaseSeq /\ leases[l] \in Lease /\ t \in Tenants /\ payout \in Accounts
      /\ credit[t] \in AllCoins
  <2>1. l \in 1 .. leaseSeq /\ leases[l] \in Lease
    BY DEF Decision, IsBatch, TypeOK
  <2>2. leases[l].provider \in 1 .. providerSeq /\ t \in Tenants
    BY <2>1 DEF Lease
  <2>3. QED
    BY <2>1, <2>2 DEF TypeOK, SkuTypeOK, Provider
<1>2. l \notin D /\ D \in SUBSET DOMAIN order
  <2>1. order[l] \in Nat
    BY DEF Decision, IsBatch, Positions
  <2>2. QED
    BY <2>1 DEF Preceding
<1>3. D \cup {l} \in SUBSET (1 .. leaseSeq) /\ DOMAIN order \in SUBSET (1 .. leaseSeq)
  BY <1>2 DEF Decision, IsBatch
<1>4. b \in AllBooks /\ c \in AllBooks
  BY <1>2, PartialType
<1>5. \A m \in DOMAIN order : CalculateTransferAmounts(order, m) \in AllCoins
  BY <1>3, TransferType
<1>6. /\ b.leases[l] = leases[l]
      /\ LeastOf(AccruedIn(b, l), b.credit[leases[l].tenant])
           = CalculateTransferAmounts(order, l)
  BY LoopReads
<1>7. SettleOne(b, l) = [b EXCEPT !.credit = [b.credit EXCEPT ![t] = Minus(@, amount)],
                                   !.wallet = [b.wallet EXCEPT ![payout] = Plus(@, amount)],
                                   !.paid   = [b.paid EXCEPT ![l] = Plus(@, amount)]]
  BY ZenonT(30), <1>6 DEF SettleOne
<1> HIDE DEF payout, amount
<1>8. /\ SettleOne(b, l).credit = [b.credit EXCEPT ![t] = Minus(@, amount)]
      /\ SettleOne(b, l).wallet = [b.wallet EXCEPT ![payout] = Plus(@, amount)]
      /\ SettleOne(b, l).paid = [b.paid EXCEPT ![l] = Plus(@, amount)]
      /\ SettleOne(b, l).leases = b.leases
      /\ SettleOne(b, l).accounts = b.accounts
  BY ZenonT(30), <1>4, <1>7 DEF AllBooks
<1>9. [b.credit EXCEPT ![t] = Minus(@, amount)] = c.credit
  <2>1. /\ b.credit \in [Tenants -> AllCoins] /\ c.credit \in [Tenants -> AllCoins]
    BY ZenonT(30), <1>4 DEF AllBooks
  <2>2. ASSUME NEW u \in Tenants, u # t PROVE b.credit[u] = c.credit[u]
    <3>1. {m \in D \cup {l} : leases[m].tenant = u} = {m \in D : leases[m].tenant = u}
      BY ZenonT(30), <2>2
    <3>2. QED
      BY ZenonT(30), <3>1 DEF PartialBooks
  <2>3. Minus(b.credit[t], amount) = c.credit[t]
    <3> DEFINE S == {m \in D : leases[m].tenant = t}
               F == [m \in S \cup {l} |-> Demand(leases[m])]
    <3>1. S \cup {l} = {m \in D \cup {l} : leases[m].tenant = t} /\ l \notin S
      BY <1>2
    <3>2. S \in SUBSET (1 .. leaseSeq) /\ S \cup {l} \in SUBSET (1 .. leaseSeq)
      BY <1>3
    <3>3. Demands(S) \in AllCoins /\ Demands(S \cup {l}) \in AllCoins
      BY <3>2, LeaseSums
    <3>4. Demand(leases[l]) \in AllCoins
      BY <1>1, LeaseAmounts
    <3>5. Demands(S \cup {l}) = Plus(Demands(S), Demand(leases[l]))
      <4>1. IsFiniteSet(S) /\ \A m \in S \cup {l} : F[m] \in AllCoins
        BY <3>2, LeaseSetsFinite, LeaseAmounts
      <4>2. Demands(S \cup {l}) = SumCoins(S \cup {l}, F)
        BY DEF Demands
      <4>3. Demands(S) = SumCoins(S, F)
        BY SumCoinsCong DEF Demands
      <4>4. F[l] = Demand(leases[l])
        OBVIOUS
      <4> HIDE DEF S, F
      <4>5. QED
        BY <3>1, <4>1, <4>2, <4>3, <4>4, SumCoinsAdd
    <3>6. b.credit[t] = Minus(credit[t], Demands(S))
      BY ZenonT(30), <1>1 DEF PartialBooks
    <3>7. c.credit[t] = Minus(credit[t], Demands(S \cup {l}))
      BY ZenonT(30), <1>1, <3>1 DEF PartialBooks
    <3>8. amount = LeastOf(Demand(leases[l]), Minus(credit[t], Demands(S)))
      <4>1. S = Before(order, l)
        BY DEF Preceding, Before
      <4>2. QED
        BY ZenonT(30), <4>1 DEF amount, CalculateTransferAmounts, BalanceFor
    <3> HIDE DEF S
    <3>9. ASSUME NEW d \in Denoms PROVE Minus(b.credit[t], amount)[d] = c.credit[t][d]
      <4>1. /\ credit[t][d] \in Nat /\ Demands(S)[d] \in Nat
            /\ Demand(leases[l])[d] \in Nat
        BY ZenonT(30), <1>1, <3>3, <3>4 DEF AllCoins
      <4>2. b.credit[t][d] = Monus(credit[t][d], Demands(S)[d])
        BY ZenonT(30), <3>6 DEF Minus
      <4>3. amount[d] = Least(Demand(leases[l])[d], Monus(credit[t][d], Demands(S)[d]))
        BY <3>8 DEF LeastOf, Minus
      <4>4. c.credit[t][d] = Monus(credit[t][d], Demands(S)[d] + Demand(leases[l])[d])
        BY <3>5, <3>7 DEF Minus, Plus
      <4>5. Minus(b.credit[t], amount)[d] = Monus(b.credit[t][d], amount[d])
        BY DEF Minus
      <4>6. QED
        BY ZenonT(30), <4>1, <4>2, <4>3, <4>4, <4>5, NextTransfer
    <3>10. Minus(b.credit[t], amount) \in AllCoins /\ c.credit[t] \in AllCoins
      BY ZenonT(30), <1>1, <1>5, <2>1, CoinOps DEF amount
    <3>11. QED
      BY ZenonT(30), <3>9, <3>10, CoinsEqual
  <2>4. QED
    BY ZenonT(30), <1>1, <2>1, <2>2, <2>3
<1>10. [b.wallet EXCEPT ![payout] = Plus(@, amount)] = c.wallet
  <2>1. /\ b.wallet \in [Accounts -> AllCoins] /\ c.wallet \in [Accounts -> AllCoins]
    BY ZenonT(30), <1>4 DEF AllBooks
  <2>2. ASSUME NEW a \in Accounts, a # payout PROVE b.wallet[a] = c.wallet[a]
    <3>1. {m \in D \cup {l} : providers[leases[m].provider].payout = a}
            = {m \in D : providers[leases[m].provider].payout = a}
      BY ZenonT(30), <2>2 DEF payout
    <3>2. Received(order, D \cup {l}, a) = Received(order, D, a)
      BY ZenonT(30), <3>1 DEF Received
    <3>3. QED
      BY ZenonT(30), <3>2 DEF PartialBooks
  <2>3. Plus(b.wallet[payout], amount) = c.wallet[payout]
    <3> DEFINE S == {m \in D : providers[leases[m].provider].payout = payout}
               F == [m \in S \cup {l} |-> CalculateTransferAmounts(order, m)]
    <3>1. /\ S \cup {l} = {m \in D \cup {l} : providers[leases[m].provider].payout = payout}
          /\ l \notin S
      BY <1>2 DEF payout
    <3>2. S \in SUBSET (1 .. leaseSeq)
      BY <1>3
    <3>3. IsFiniteSet(S) /\ \A m \in S \cup {l} : F[m] \in AllCoins
      BY <1>2, <1>5, <3>2, LeaseSetsFinite
    <3>4. Received(order, D \cup {l}, payout) = SumCoins(S \cup {l}, F)
      BY ZenonT(30), <3>1 DEF Received
    <3>5. Received(order, D, payout) = SumCoins(S, F)
      BY ZenonT(30), SumCoinsCong DEF Received
    <3>6. F[l] = amount
      BY DEF amount
    <3>7. /\ b.wallet[payout] = Plus(wallet[payout], Received(order, D, payout))
          /\ c.wallet[payout] = Plus(wallet[payout], Received(order, D \cup {l}, payout))
      BY ZenonT(30), <1>1 DEF PartialBooks
    <3> HIDE DEF S, F
    <3>8. SumCoins(S \cup {l}, F) = Plus(SumCoins(S, F), amount)
      BY ZenonT(30), <3>1, <3>3, <3>6, SumCoinsAdd
    <3>9. SumCoins(S, F) \in AllCoins /\ wallet[payout] \in AllCoins /\ amount \in AllCoins
      <4>1. SumCoins(S, F) \in AllCoins
        BY ZenonT(30), <3>3, SumCoinsType
      <4>2. QED
        BY <1>1, <1>5, <4>1 DEF TypeOK, amount
    <3>10. Plus(Plus(wallet[payout], SumCoins(S, F)), amount)
             = Plus(wallet[payout], Plus(SumCoins(S, F), amount))
      BY <3>9 DEF Plus, AllCoins
    <3>11. QED
      BY ZenonT(30), <3>4, <3>5, <3>7, <3>8, <3>10
  <2>4. QED
    BY ZenonT(30), <1>1, <2>1, <2>2, <2>3
<1>11. [b.paid EXCEPT ![l] = Plus(@, amount)] = c.paid
  <2>1. /\ b.paid \in [1 .. leaseSeq -> AllCoins] /\ c.paid \in [1 .. leaseSeq -> AllCoins]
    BY ZenonT(30), <1>4 DEF AllBooks
  <2>2. \A m \in 1 .. leaseSeq : m # l => b.paid[m] = c.paid[m]
    BY ZenonT(30) DEF PartialBooks
  <2>3. b.paid[l] = paid[l] /\ c.paid[l] = Plus(paid[l], amount)
    BY ZenonT(30), <1>1, <1>2 DEF PartialBooks, amount
  <2>4. QED
    BY ZenonT(30), <1>1, <2>1, <2>2, <2>3
<1>12. SettleOne(b, l) \in AllBooks
  <2>1. /\ c.credit \in [Tenants -> AllCoins] /\ c.wallet \in [Accounts -> AllCoins]
        /\ c.paid \in [1 .. leaseSeq -> AllCoins]
    BY ZenonT(30), <1>4 DEF AllBooks
  <2> DEFINE x == [b.credit EXCEPT ![t] = Minus(@, amount)]
             y == [b.wallet EXCEPT ![payout] = Plus(@, amount)]
             z == [b.paid EXCEPT ![l] = Plus(@, amount)]
  <2>3. SettleOne(b, l) = [b EXCEPT !.credit = x, !.wallet = y, !.paid = z]
    BY <1>7
  <2>4. /\ x \in [Tenants -> AllCoins] /\ y \in [Accounts -> AllCoins]
        /\ z \in [1 .. leaseSeq -> AllCoins]
    BY ZenonT(30), <1>9, <1>10, <1>11, <2>1
  <2> HIDE DEF x, y, z
  <2>5. [b EXCEPT !.credit = x, !.wallet = y, !.paid = z] \in AllBooks
    BY ZenonT(30), <1>4, <2>4 DEF AllBooks
  <2>6. QED
    BY <2>3, <2>5
<1>13. QED
  BY <1>8, <1>9, <1>10, <1>11, <1>12

(* Credit accounts are equal if their fields are. *)
LEMMA EqualAccounts ==
  ASSUME NEW a \in CreditAccount, NEW b \in CreditAccount, a.exists = b.exists,
         a.active = b.active, a.pending = b.pending, a.reserved = b.reserved
  PROVE  a = b
BY DEF CreditAccount

(* Releasing one lease after others is releasing them together. *)
LEMMA ReleaseAfter ==
  ASSUME TypeOK, NEW t \in Tenants, NEW S \in SUBSET (1 .. leaseSeq),
         NEW l \in 1 .. leaseSeq, l \notin S
  PROVE  ReleaseOne(EndActive(accounts[t], S), leases[l]) = EndActive(accounts[t], S \cup {l})
<1> DEFINE F == [m \in S \cup {l} |-> GetLeaseReservationAmount(leases[m])]
           r == GetLeaseReservationAmount(leases[l])
<1>1. IsFiniteSet(S) /\ \A m \in S \cup {l} : F[m] \in AllCoins
  BY LeaseSetsFinite, LeaseAmounts
<1>2. Reservations(S \cup {l}) = SumCoins(S \cup {l}, F)
  BY DEF Reservations
<1>3. Reservations(S) = SumCoins(S, F)
  BY ZenonT(30), SumCoinsCong DEF Reservations
<1>4. F[l] = r /\ r \in AllCoins
  BY LeaseAmounts
<1> HIDE DEF F, r
<1>5. Reservations(S \cup {l}) = Plus(Reservations(S), r)
  BY <1>1, <1>2, <1>3, <1>4, SumCoinsAdd
<1>6. Cardinality(S \cup {l}) = Cardinality(S) + 1 /\ Cardinality(S) \in Nat
  BY <1>1, FS_AddElement, FS_CardinalityType
<1>7. /\ accounts[t] \in CreditAccount /\ accounts[t].active \in Nat
      /\ accounts[t].reserved \in AllCoins /\ Reservations(S) \in AllCoins
  BY LeaseSums DEF TypeOK, CreditAccount
<1>8. Monus(Monus(accounts[t].active, Cardinality(S)), 1)
        = Monus(accounts[t].active, Cardinality(S \cup {l}))
  BY <1>6, <1>7 DEF Monus
<1>9. Minus(Minus(accounts[t].reserved, Reservations(S)), r)
        = Minus(accounts[t].reserved, Reservations(S \cup {l}))
  <2>1. ASSUME NEW d \in Denoms
        PROVE  Monus(Monus(accounts[t].reserved[d], Reservations(S)[d]), r[d])
                 = Monus(accounts[t].reserved[d], Reservations(S)[d] + r[d])
    <3>1. /\ accounts[t].reserved[d] \in Nat /\ Reservations(S)[d] \in Nat /\ r[d] \in Nat
      BY <1>4, <1>7 DEF AllCoins
    <3>2. QED
      BY <3>1 DEF Monus
  <2>2. QED
    BY <1>5, <2>1 DEF Minus, Plus
<1> DEFINE a == EndActive(accounts[t], S)
           e == EndActive(accounts[t], S \cup {l})
           g == ReleaseOne(a, leases[l])
           n == Monus(accounts[t].active, Cardinality(S \cup {l}))
           x == Minus(accounts[t].reserved, Reservations(S \cup {l}))
<1>10. /\ a \in CreditAccount
       /\ a.active = Monus(accounts[t].active, Cardinality(S))
       /\ a.reserved = Minus(accounts[t].reserved, Reservations(S))
       /\ a.exists = accounts[t].exists /\ a.pending = accounts[t].pending
  <2>1. /\ Monus(accounts[t].active, Cardinality(S)) \in Nat
        /\ Minus(accounts[t].reserved, Reservations(S)) \in AllCoins
    BY <1>6, <1>7, CoinOps DEF Monus
  <2>2. QED
    BY ZenonT(30), <1>7, <2>1 DEF EndActive, CreditAccount
<1>11. n \in Nat /\ x \in AllCoins
  <2>1. Reservations(S \cup {l}) \in AllCoins
    BY LeaseSums
  <2>2. QED
    BY <1>6, <1>7, <2>1, CoinOps DEF Monus
<1>12. /\ e \in CreditAccount /\ e.exists = accounts[t].exists /\ e.active = n
       /\ e.pending = accounts[t].pending /\ e.reserved = x
  <2>1. e = [accounts[t] EXCEPT !.active = n, !.reserved = x]
    BY DEF EndActive
  <2> HIDE DEF e, n, x
  <2>2. QED
    BY ZenonT(30), <1>7, <1>11, <2>1 DEF CreditAccount
<1>13. /\ g \in CreditAccount /\ g.exists = accounts[t].exists /\ g.active = n
       /\ g.pending = accounts[t].pending /\ g.reserved = x
  <2>1. g = [a EXCEPT !.active = Monus(a.active, 1), !.reserved = Minus(a.reserved, r)]
    BY DEF ReleaseOne, r
  <2>2. Monus(a.active, 1) = n /\ Minus(a.reserved, r) = x
    BY ZenonT(30), <1>8, <1>9, <1>10
  <2> HIDE DEF a, g, n, x
  <2>3. g = [a EXCEPT !.active = n, !.reserved = x]
    BY ZenonT(30), <2>1, <2>2
  <2>4. QED
    BY ZenonT(30), <1>10, <1>11, <2>3 DEF CreditAccount
<1> HIDE DEF e, g
<1>14. e = g
  BY ZenonT(30), <1>12, <1>13, EqualAccounts
<1>15. QED
  BY <1>14 DEF e, g

(***************************************************************************)
(* The body of the loop of CloseLease, and of a withdrawal that closes.    *)
(***************************************************************************)
LEMMA LoopCloses ==
  ASSUME TypeOK, NEW order, NEW L, NEW C, Decision(order, L, C), NEW l \in DOMAIN order,
         l \in C, L[l] = Closed(leases[l], ShouldAutoCloseLease(order, l)),
         NEW D, D = Preceding(DOMAIN order, order, l),
         NEW b, b = PartialBooks(order, D, L, C),
         NEW c, c = PartialBooks(order, D \cup {l}, L, C)
  PROVE  CloseOne(b, l) = c
<1> DEFINE t == leases[l].tenant
           s == SettleOne(b, l)
           u == [b.leases EXCEPT ![l] = Closed(@, ExhaustedIn(b, l))]
           v == [b.accounts EXCEPT ![t] = ReleaseOne(@, leases[l])]
<1>1. l \in 1 .. leaseSeq /\ leases[l] \in Lease /\ t \in Tenants
  BY ZenonT(30) DEF Decision, IsBatch, TypeOK, Lease
<1>2. l \notin D /\ D \in SUBSET DOMAIN order
  <2>1. order[l] \in Nat
    BY DEF Decision, IsBatch, Positions
  <2>2. QED
    BY <2>1 DEF Preceding
<1>3. D \cup {l} \in SUBSET (1 .. leaseSeq)
  BY <1>2 DEF Decision, IsBatch
<1>4. b \in AllBooks /\ c \in AllBooks
  BY <1>2, PartialType
<1>5. b.leases[l] = leases[l] /\ (ExhaustedIn(b, l) <=> ShouldAutoCloseLease(order, l))
  BY LoopReads
<1>6. /\ s.credit = c.credit /\ s.wallet = c.wallet /\ s.paid = c.paid
      /\ s \in AllBooks
  BY LoopSettles
<1>7. CloseOne(b, l) = [s EXCEPT !.leases = u, !.accounts = v]
  BY ZenonT(30), <1>5 DEF CloseOne
<1>8. u = c.leases
  <2>1. /\ b.leases \in [1 .. leaseSeq -> Lease] /\ c.leases \in [1 .. leaseSeq -> Lease]
    BY ZenonT(30), <1>4 DEF AllBooks
  <2>2. \A m \in 1 .. leaseSeq : m # l => b.leases[m] = c.leases[m]
    BY ZenonT(30) DEF PartialBooks
  <2>3. c.leases[l] = L[l]
    BY ZenonT(30), <1>1 DEF PartialBooks
  <2>4. ExhaustedIn(b, l) = ShouldAutoCloseLease(order, l)
    BY ZenonT(30), <1>5 DEF ExhaustedIn, ShouldAutoCloseLease
  <2>5. Closed(b.leases[l], ExhaustedIn(b, l)) = c.leases[l]
    BY <1>5, <2>3, <2>4
  <2>6. QED
    BY ZenonT(30), <1>1, <2>1, <2>2, <2>5
<1>9. v = c.accounts
  <2>1. /\ b.accounts \in [Tenants -> CreditAccount] /\ c.accounts \in [Tenants -> CreditAccount]
    BY ZenonT(30), <1>4 DEF AllBooks
  <2>2. ASSUME NEW w \in Tenants, w # t PROVE b.accounts[w] = c.accounts[w]
    <3>1. C \cap (D \cup {l}) \cap LeasesOf(w) = C \cap D \cap LeasesOf(w)
      BY <2>2 DEF LeasesOf
    <3>2. QED
      BY ZenonT(30), <3>1 DEF PartialBooks
  <2>3. ReleaseOne(b.accounts[t], leases[l]) = c.accounts[t]
    <3> DEFINE S == C \cap D \cap LeasesOf(t)
    <3>1. C \cap (D \cup {l}) \cap LeasesOf(t) = S \cup {l}
      BY <1>1 DEF LeasesOf
    <3>2. b.accounts[t] = EndActive(accounts[t], S)
      BY ZenonT(30), <1>1 DEF PartialBooks
    <3>3. c.accounts[t] = EndActive(accounts[t], S \cup {l})
      BY ZenonT(30), <1>1, <3>1 DEF PartialBooks
    <3>4. S \in SUBSET (1 .. leaseSeq) /\ l \notin S
      BY <1>2, <1>3
    <3> HIDE DEF S
    <3>5. QED
      BY ZenonT(30), <1>1, <3>2, <3>3, <3>4, ReleaseAfter
  <2>4. QED
    BY ZenonT(30), <1>1, <2>1, <2>2, <2>3
<1> HIDE DEF s, u, v
<1>10. /\ [s EXCEPT !.leases = u, !.accounts = v] \in AllBooks
       /\ [s EXCEPT !.leases = u, !.accounts = v].credit = s.credit
       /\ [s EXCEPT !.leases = u, !.accounts = v].wallet = s.wallet
       /\ [s EXCEPT !.leases = u, !.accounts = v].paid = s.paid
       /\ [s EXCEPT !.leases = u, !.accounts = v].leases = u
       /\ [s EXCEPT !.leases = u, !.accounts = v].accounts = v
  <2>1. u \in [1 .. leaseSeq -> Lease] /\ v \in [Tenants -> CreditAccount]
    BY ZenonT(30), <1>4, <1>8, <1>9 DEF AllBooks
  <2>2. QED
    BY ZenonT(30), <1>6, <2>1 DEF AllBooks
<1> DEFINE e == [s EXCEPT !.leases = u, !.accounts = v]
<1> HIDE DEF e
<1>11. e = c
  <2>1. /\ e \in AllBooks /\ e.credit = c.credit /\ e.wallet = c.wallet /\ e.paid = c.paid
        /\ e.leases = c.leases /\ e.accounts = c.accounts
    BY <1>6, <1>8, <1>9, <1>10 DEF e
  <2>2. QED
    BY <1>4, <2>1, SameBooks
<1>12. QED
  BY <1>7, <1>11 DEF e

(* What a withdrawal decides: C are closed, W advance their settlement time. *)
WithdrawDecision(order, W, L, C) ==
  /\ C = {l \in DOMAIN order : ShouldAutoCloseLease(order, l)}
  /\ \A l \in DOMAIN order \ C :
       /\ ~AccrualOverflows(leases[l])
       /\ l \in W <=> CalculateTotalAccruedForLease(leases[l]) # NoCoins
  /\ \A l \in DOMAIN order :
       L[l] = CASE l \in C -> Closed(leases[l], TRUE)
                [] l \in W \ C -> [leases[l] EXCEPT !.lastSettledAt = SettleTime(leases[l])]
                [] OTHER -> leases[l]

(***************************************************************************)
(* The body of the loop of Withdraw: the lease is closed, settled or, if   *)
(* it accrued nothing, passed over.                                        *)
(***************************************************************************)
LEMMA LoopWithdraws ==
  ASSUME TypeOK, NEW order, NEW W, NEW L, NEW C, Decision(order, L, C),
         WithdrawDecision(order, W, L, C), NEW l \in DOMAIN order,
         NEW D, D = Preceding(DOMAIN order, order, l),
         NEW b, b = PartialBooks(order, D, L, C),
         NEW c, c = PartialBooks(order, D \cup {l}, L, C)
  PROVE  WithdrawOne(b, l) = c
<1> DEFINE t == leases[l].tenant
           s == SettleOne(b, l)
<1>1. l \in 1 .. leaseSeq /\ leases[l] \in Lease /\ t \in Tenants
  BY DEF Decision, IsBatch, TypeOK, Lease
<1>2. D \in SUBSET DOMAIN order
  BY DEF Preceding
<1>3. b \in AllBooks /\ c \in AllBooks
  BY <1>2, PartialType
<1>4. /\ b.leases[l] = leases[l] /\ (ExhaustedIn(b, l) <=> ShouldAutoCloseLease(order, l))
      /\ ~AccrualOverflows(leases[l]) =>
           AccruedIn(b, l) = CalculateTotalAccruedForLease(leases[l])
  BY LoopReads
<1>5. /\ s.credit = c.credit /\ s.wallet = c.wallet /\ s.paid = c.paid
      /\ s.leases = b.leases /\ s.accounts = b.accounts /\ s \in AllBooks
  BY LoopSettles
<1>6. CASE ShouldAutoCloseLease(order, l)
  <2>1. l \in C /\ L[l] = Closed(leases[l], TRUE)
    BY ZenonT(30), <1>6 DEF WithdrawDecision
  <2>2. ShouldAutoCloseLease(order, l) = TRUE
    BY ZenonT(30), <1>6 DEF ShouldAutoCloseLease
  <2>3. L[l] = Closed(leases[l], ShouldAutoCloseLease(order, l))
    BY <2>1, <2>2
  <2>4. CloseOne(b, l) = c
    BY ZenonT(30), <2>1, <2>3, LoopCloses
  <2>5. WithdrawOne(b, l) = CloseOne(b, l)
    BY <1>4, <1>6 DEF WithdrawOne
  <2>6. QED
    BY <2>4, <2>5
<1>7. CASE ~ShouldAutoCloseLease(order, l)
  <2>1. /\ l \notin C /\ ~AccrualOverflows(leases[l])
        /\ l \in W <=> CalculateTotalAccruedForLease(leases[l]) # NoCoins
    BY <1>7 DEF WithdrawDecision
  <2>2. AccruedIn(b, l) = CalculateTotalAccruedForLease(leases[l]) /\ ~ExhaustedIn(b, l)
    BY ZenonT(30), <1>4, <1>7, <2>1
  <2>3. c.accounts = b.accounts
    <3>1. C \cap (D \cup {l}) = C \cap D
      BY ZenonT(30), <2>1
    <3>2. QED
      BY ZenonT(30), <3>1 DEF PartialBooks
  <2>4. \A m \in 1 .. leaseSeq : m # l => b.leases[m] = c.leases[m]
    BY ZenonT(30) DEF PartialBooks
  <2>5. c.leases[l] = L[l]
    BY ZenonT(30), <1>1 DEF PartialBooks
  <2>6. /\ b.leases \in [1 .. leaseSeq -> Lease] /\ c.leases \in [1 .. leaseSeq -> Lease]
    BY ZenonT(30), <1>3 DEF AllBooks
  <2>7. CASE l \in W
    <3> DEFINE u == [b.leases EXCEPT ![l] =
                       [b.leases[l] EXCEPT !.lastSettledAt = SettleTime(b.leases[l])]]
    <3>1. L[l] = [leases[l] EXCEPT !.lastSettledAt = SettleTime(leases[l])]
      BY ZenonT(30), <2>1, <2>7 DEF WithdrawDecision
    <3>2. u = c.leases
      <4>1. [b.leases[l] EXCEPT !.lastSettledAt = SettleTime(b.leases[l])] = c.leases[l]
        BY <1>4, <2>5, <3>1
      <4>2. QED
        BY ZenonT(30), <1>1, <2>4, <2>6, <4>1
    <3>3. WithdrawOne(b, l) = [s EXCEPT !.leases = u]
      BY <2>1, <2>2, <2>7 DEF WithdrawOne
    <3> HIDE DEF s, u
    <3> DEFINE e == [s EXCEPT !.leases = u]
    <3>4. /\ e \in AllBooks /\ e.credit = s.credit /\ e.wallet = s.wallet /\ e.paid = s.paid
          /\ e.leases = u /\ e.accounts = s.accounts
      BY ZenonT(30), <1>5, <2>6, <3>2 DEF AllBooks
    <3> HIDE DEF e
    <3>5. e = c
      BY <1>3, <1>5, <2>3, <3>2, <3>4, SameBooks
    <3>6. QED
      BY <3>3, <3>5 DEF e
  <2>8. CASE l \notin W
    <3>1. L[l] = leases[l]
      BY ZenonT(30), <2>1, <2>8 DEF WithdrawDecision
    <3>2. b.leases = c.leases
      <4>1. b.leases[l] = c.leases[l]
        BY ZenonT(30), <1>4, <2>5, <3>1
      <4>2. \A m \in 1 .. leaseSeq : b.leases[m] = c.leases[m]
        BY ZenonT(30), <2>4, <4>1
      <4>3. /\ b.leases = [m \in 1 .. leaseSeq |-> b.leases[m]]
            /\ c.leases = [m \in 1 .. leaseSeq |-> c.leases[m]]
        BY ZenonT(30), <2>6
      <4>4. QED
        BY ZenonT(30), <4>2, <4>3
    <3>3. AccruedIn(b, l) = NoCoins
      BY ZenonT(30), <2>1, <2>2, <2>8
    <3>4. WithdrawOne(b, l) = b
      BY <2>2, <3>3 DEF WithdrawOne
    <3>5. b.credit = c.credit /\ b.wallet = c.wallet /\ b.paid = c.paid
      <4> DEFINE payout == providers[leases[l].provider].payout
      <4>1. /\ b.credit \in [Tenants -> AllCoins] /\ b.wallet \in [Accounts -> AllCoins]
            /\ b.paid \in [1 .. leaseSeq -> AllCoins] /\ b.credit[t] \in AllCoins
            /\ b.paid[l] \in AllCoins
        BY ZenonT(30), <1>1, <1>3 DEF AllBooks
      <4>2. LeastOf(AccruedIn(b, l), b.credit[t]) = NoCoins
        BY <3>3, <4>1 DEF LeastOf, Least, NoCoins, AllCoins
      <4>3. \A x \in AllCoins : Minus(x, NoCoins) = x /\ Plus(x, NoCoins) = x
        BY DEF AllCoins, Minus, Plus, NoCoins, Monus
      <4>4. s = [b EXCEPT !.credit = [b.credit EXCEPT ![t] = Minus(@, NoCoins)],
                          !.wallet = [b.wallet EXCEPT ![payout] = Plus(@, NoCoins)],
                          !.paid   = [b.paid EXCEPT ![l] = Plus(@, NoCoins)]]
        BY ZenonT(30), <1>4, <4>2 DEF SettleOne
      <4> HIDE DEF s, payout
      <4>5. /\ s.credit = [b.credit EXCEPT ![t] = Minus(@, NoCoins)]
            /\ s.wallet = [b.wallet EXCEPT ![payout] = Plus(@, NoCoins)]
            /\ s.paid = [b.paid EXCEPT ![l] = Plus(@, NoCoins)]
        BY <1>3, <4>4 DEF AllBooks
      <4>6. s.credit = b.credit /\ s.wallet = b.wallet /\ s.paid = b.paid
        <5>1. s.credit = b.credit
          BY <4>1, <4>3, <4>5
        <5>2. s.paid = b.paid
          BY <4>1, <4>3, <4>5
        <5>3. s.wallet = b.wallet
          BY <4>1, <4>3, <4>5
        <5>4. QED
          BY <5>1, <5>2, <5>3
      <4>7. QED
        BY <1>5, <4>6
    <3>6. b = c
      BY <1>3, <2>3, <3>2, <3>5, SameBooks
    <3>7. QED
      BY <3>4, <3>6
  <2>9. QED
    BY <2>7, <2>8
<1>8. QED
  BY <1>6, <1>7

(* The leases of a batch that the first n turns of its loop settle. *)
First(order, n) == {l \in DOMAIN order : Rank(DOMAIN order, order, l) < n}

(* If some lease has its turn at n, Turn finds it. *)
LEMMA TurnFound ==
  ASSUME NEW order, NEW n, \E l \in DOMAIN order : Rank(DOMAIN order, order, l) = n - 1
  PROVE  Turn(order, n) \in DOMAIN order /\ Rank(DOMAIN order, order, Turn(order, n)) = n - 1
BY DEF Turn, Rank, Preceding

(* Every turn but the last leaves a lease for the next one. *)
LEMMA NextTurn ==
  ASSUME TypeOK, NEW order, IsBatch(order), NEW n \in Nat, n < Cardinality(DOMAIN order)
  PROVE  /\ Turn(order, n + 1) \in DOMAIN order
         /\ First(order, n) = Preceding(DOMAIN order, order, Turn(order, n + 1))
         /\ First(order, n + 1) = First(order, n) \cup {Turn(order, n + 1)}
<1> DEFINE S == DOMAIN order
           l == Turn(order, n + 1)
<1>1. IsFiniteSet(S) /\ Cardinality(S) \in Nat
  BY LeaseSetsFinite DEF IsBatch
<1>2. PICK k \in Nat : order \in Positions(S, k)
  BY DEF IsBatch
<1>3. S # {}
  BY FS_EmptySet
<1>4. \A m \in S : Rank(S, order, m) \in Nat
  BY ZenonT(30), <1>1, RankType
<1>5. \E m \in S : Rank(S, order, m) = n
  <2>1. PICK m \in S : Rank(S, order, m) = Cardinality(S) - 1
    BY <1>1, <1>2, <1>3, LastRank
  <2>2. ~(Rank(S, order, m) < n)
    BY <1>1, <2>1
  <2>3. QED
    BY <1>1, <1>2, <2>2, RanksFilled
<1>6. l \in S /\ Rank(S, order, l) = n
  <2>1. n + 1 - 1 = n
    OBVIOUS
  <2>2. QED
    BY <1>5, <2>1, TurnFound
<1> HIDE DEF l
<1>7. order \in [S -> 0 .. k] /\ \A x, y \in S : order[x] = order[y] => x = y
  BY <1>2 DEF Positions
<1>8. ASSUME NEW m \in S
      PROVE  /\ order[m] < order[l] => Rank(S, order, m) < n
             /\ order[m] > order[l] => Rank(S, order, m) > n
             /\ order[m] = order[l] => m = l
  <2>1. order[m] < order[l] => Rank(S, order, m) < Rank(S, order, l)
    BY <1>1, <1>2, <1>6, <1>7, RankGrows
  <2>2. order[l] < order[m] => Rank(S, order, l) < Rank(S, order, m)
    BY <1>1, <1>2, <1>6, <1>7, RankGrows
  <2>3. order[m] \in Nat /\ order[l] \in Nat
    BY <1>2, <1>6, <1>7
  <2>4. QED
    BY <1>4, <1>6, <1>7, <2>1, <2>2, <2>3
<1>9. ASSUME NEW m \in S
      PROVE  order[m] \in Nat /\ order[l] \in Nat
  BY <1>2, <1>6, <1>7
<1>10. First(order, n) = Preceding(S, order, l)
  BY <1>4, <1>6, <1>8, <1>9 DEF First, Preceding
<1>11. First(order, n + 1) = First(order, n) \cup {l}
  BY <1>4, <1>6, <1>8, <1>9 DEF First
<1>12. QED
  BY <1>6, <1>10, <1>11 DEF l

(* The loop begins with no lease settled and ends with all of them. *)
LEMMA FirstAndLastTurn ==
  ASSUME TypeOK, NEW order, IsBatch(order)
  PROVE  /\ First(order, 0) = {}
         /\ First(order, Cardinality(DOMAIN order)) = DOMAIN order
<1>1. IsFiniteSet(DOMAIN order)
  BY LeaseSetsFinite DEF IsBatch
<1>2. PICK k \in Nat : order \in Positions(DOMAIN order, k)
  BY DEF IsBatch
<1>3. \A m \in DOMAIN order : /\ Rank(DOMAIN order, order, m) \in Nat
                              /\ Rank(DOMAIN order, order, m) < Cardinality(DOMAIN order)
  BY ZenonT(30), <1>1, <1>2, RankType, RankBelow DEF Positions
<1>4. QED
  BY <1>3 DEF First

(***************************************************************************)
(* The loops, turn by turn: the function h is a run of the body over the   *)
(* leases of a batch.                                                      *)
(***************************************************************************)
ClosesInTurn(order, h) ==
  h = [n \in 0 .. Cardinality(DOMAIN order) |->
         IF n = 0 THEN Books ELSE CloseOne(h[n - 1], Turn(order, n))]

WithdrawsInTurn(order, h) ==
  h = [n \in 0 .. Cardinality(DOMAIN order) |->
         IF n = 0 THEN Books ELSE WithdrawOne(h[n - 1], Turn(order, n))]

(* The closed form is a run of the loop of CloseLease, and the only one. *)
LEMMA CloseLoopIsPartial ==
  ASSUME TypeOK, NEW order, NEW L, NEW C, Decision(order, L, C), C = DOMAIN order,
         \A l \in DOMAIN order : L[l] = Closed(leases[l], ShouldAutoCloseLease(order, l))
  PROVE  CloseLoop(order) = PartialBooks(order, DOMAIN order, L, C)
<1> DEFINE k == Cardinality(DOMAIN order)
           P(n) == PartialBooks(order, First(order, n), L, C)
<1>1. IsBatch(order) /\ k \in Nat
  BY LeaseSetsFinite DEF Decision, IsBatch
<1>2. P(0) = Books /\ P(k) = PartialBooks(order, DOMAIN order, L, C)
  BY ZenonT(30), <1>1, FirstAndLastTurn, PartialStart
<1>3. ASSUME NEW n \in Nat, n < k PROVE P(n + 1) = CloseOne(P(n), Turn(order, n + 1))
  <2>1. /\ Turn(order, n + 1) \in DOMAIN order
        /\ First(order, n) = Preceding(DOMAIN order, order, Turn(order, n + 1))
        /\ First(order, n + 1) = First(order, n) \cup {Turn(order, n + 1)}
    BY ZenonT(30), <1>1, <1>3, NextTurn
  <2>2. QED
    BY <2>1, LoopCloses
<1> HIDE DEF P, k
<1>4. \E h : ClosesInTurn(order, h)
  <2> DEFINE h == [n \in 0 .. k |-> P(n)]
  <2>1. ASSUME NEW n \in 0 .. k
        PROVE  h[n] = IF n = 0 THEN Books ELSE CloseOne(h[n - 1], Turn(order, n))
    <3>1. CASE n = 0
      BY ZenonT(30), <1>1, <1>2, <3>1
    <3>2. CASE n # 0
      <4>1. n - 1 \in Nat /\ n - 1 < k /\ n - 1 \in 0 .. k /\ (n - 1) + 1 = n
        BY <1>1, <3>2
      <4>2. h[n - 1] = P(n - 1) /\ h[n] = P(n)
        BY <4>1
      <4>3. P((n - 1) + 1) = CloseOne(P(n - 1), Turn(order, (n - 1) + 1))
        BY <1>3, <4>1
      <4>4. QED
        BY <3>2, <4>1, <4>2, <4>3
    <3>3. QED
      BY ZenonT(30), <3>1, <3>2
  <2>2. h = [n \in 0 .. k |-> h[n]]
    OBVIOUS
  <2> HIDE DEF h
  <2>3. ClosesInTurn(order, h)
    BY <2>1, <2>2 DEF ClosesInTurn, k
  <2>4. QED
    BY ZenonT(30), <2>3
<1> DEFINE f == CHOOSE h : ClosesInTurn(order, h)
<1>5. ClosesInTurn(order, f)
  BY <1>4
<1>6. CloseLoop(order) = f[k]
  BY DEF CloseLoop, ClosesInTurn, k
<1> HIDE DEF f
<1>7. \A n \in 0 .. k : f[n] = IF n = 0 THEN Books ELSE CloseOne(f[n - 1], Turn(order, n))
  <2> DEFINE F == [n \in 0 .. k |->
                     IF n = 0 THEN Books ELSE CloseOne(f[n - 1], Turn(order, n))]
  <2>1. f = F
    BY ZenonT(30), <1>5 DEF ClosesInTurn, k
  <2>2. \A n \in 0 .. k : F[n] = IF n = 0 THEN Books ELSE CloseOne(f[n - 1], Turn(order, n))
    OBVIOUS
  <2> HIDE DEF F
  <2>3. QED
    BY ZenonT(30), <2>1, <2>2
<1> DEFINE G == {n \in Nat : n <= k => f[n] = P(n)}
<1>8. 0 \in G
  BY <1>1, <1>2, <1>7
<1>9. ASSUME NEW n \in G PROVE n + 1 \in G
  <2>1. ASSUME n + 1 <= k PROVE f[n + 1] = P(n + 1)
    <3>1. n \in Nat /\ n < k /\ n + 1 \in 0 .. k /\ n + 1 # 0 /\ (n + 1) - 1 = n
      BY <1>1, <1>9, <2>1
    <3>2. f[n] = P(n)
      BY <1>1, <1>9, <3>1
    <3>3. f[n + 1] = CloseOne(f[(n + 1) - 1], Turn(order, n + 1))
      BY <1>7, <3>1
    <3>4. QED
      BY ZenonT(30), <1>3, <3>1, <3>2, <3>3
  <2>2. QED
    BY <1>9, <2>1
<1> HIDE DEF G
<1>10. G = Nat
  <2>1. G \in SUBSET Nat
    BY DEF G
  <2>2. QED
    BY <1>8, <1>9, <2>1, SetOfNumbersInduction
<1>11. f[k] = P(k)
  BY <1>1, <1>10 DEF G
<1>12. QED
  BY <1>2, <1>6, <1>11

(* The closed form is a run of the loop of Withdraw, and the only one. *)
LEMMA WithdrawLoopIsPartial ==
  ASSUME TypeOK, NEW order, NEW L, NEW C, NEW W, Decision(order, L, C),
         WithdrawDecision(order, W, L, C)
  PROVE  WithdrawLoop(order) = PartialBooks(order, DOMAIN order, L, C)
<1> DEFINE k == Cardinality(DOMAIN order)
           P(n) == PartialBooks(order, First(order, n), L, C)
<1>1. IsBatch(order) /\ k \in Nat
  BY LeaseSetsFinite DEF Decision, IsBatch
<1>2. P(0) = Books /\ P(k) = PartialBooks(order, DOMAIN order, L, C)
  BY <1>1, FirstAndLastTurn, PartialStart
<1>3. ASSUME NEW n \in Nat, n < k PROVE P(n + 1) = WithdrawOne(P(n), Turn(order, n + 1))
  <2>1. /\ Turn(order, n + 1) \in DOMAIN order
        /\ First(order, n) = Preceding(DOMAIN order, order, Turn(order, n + 1))
        /\ First(order, n + 1) = First(order, n) \cup {Turn(order, n + 1)}
    BY <1>1, <1>3, NextTurn
  <2>2. QED
    BY <2>1, LoopWithdraws
<1> HIDE DEF P, k
<1>4. \E h : WithdrawsInTurn(order, h)
  <2> DEFINE h == [n \in 0 .. k |-> P(n)]
  <2>1. ASSUME NEW n \in 0 .. k
        PROVE  h[n] = IF n = 0 THEN Books ELSE WithdrawOne(h[n - 1], Turn(order, n))
    <3>1. CASE n = 0
      BY <1>1, <1>2, <3>1
    <3>2. CASE n # 0
      <4>1. n - 1 \in Nat /\ n - 1 < k /\ n - 1 \in 0 .. k /\ (n - 1) + 1 = n
        BY <1>1, <3>2
      <4>2. h[n - 1] = P(n - 1) /\ h[n] = P(n)
        BY <4>1
      <4>3. P((n - 1) + 1) = WithdrawOne(P(n - 1), Turn(order, (n - 1) + 1))
        BY <1>3, <4>1
      <4>4. QED
        BY <3>2, <4>1, <4>2, <4>3
    <3>3. QED
      BY <3>1, <3>2
  <2>2. h = [n \in 0 .. k |-> h[n]]
    OBVIOUS
  <2> HIDE DEF h
  <2>3. WithdrawsInTurn(order, h)
    BY ZenonT(30), <2>1, <2>2 DEF WithdrawsInTurn, k
  <2>4. QED
    BY <2>3
<1> DEFINE f == CHOOSE h : WithdrawsInTurn(order, h)
<1>5. WithdrawsInTurn(order, f)
  BY <1>4
<1>6. WithdrawLoop(order) = f[k]
  BY DEF WithdrawLoop, WithdrawsInTurn, k
<1> HIDE DEF f
<1>7. \A n \in 0 .. k : f[n] = IF n = 0 THEN Books ELSE WithdrawOne(f[n - 1], Turn(order, n))
  <2> DEFINE F == [n \in 0 .. k |->
                     IF n = 0 THEN Books ELSE WithdrawOne(f[n - 1], Turn(order, n))]
  <2>1. f = F
    BY ZenonT(30), <1>5 DEF WithdrawsInTurn, k
  <2>2. \A n \in 0 .. k : F[n] = IF n = 0 THEN Books ELSE WithdrawOne(f[n - 1], Turn(order, n))
    OBVIOUS
  <2> HIDE DEF F
  <2>3. QED
    BY <2>1, <2>2
<1> DEFINE G == {n \in Nat : n <= k => f[n] = P(n)}
<1>8. 0 \in G
  BY <1>1, <1>2, <1>7
<1>9. ASSUME NEW n \in G PROVE n + 1 \in G
  <2>1. ASSUME n + 1 <= k PROVE f[n + 1] = P(n + 1)
    <3>1. n \in Nat /\ n < k /\ n + 1 \in 0 .. k /\ n + 1 # 0 /\ (n + 1) - 1 = n
      BY <1>1, <1>9, <2>1
    <3>2. f[n] = P(n)
      BY <1>1, <1>9, <3>1
    <3>3. f[n + 1] = WithdrawOne(f[(n + 1) - 1], Turn(order, n + 1))
      BY <1>7, <3>1
    <3>4. QED
      BY <1>3, <3>1, <3>2, <3>3
  <2>2. QED
    BY <1>9, <2>1
<1> HIDE DEF G
<1>10. G = Nat
  <2>1. G \in SUBSET Nat
    BY DEF G
  <2>2. QED
    BY <1>8, <1>9, <2>1, SetOfNumbersInduction
<1>11. f[k] = P(k)
  BY <1>1, <1>10 DEF G
<1>12. QED
  BY <1>2, <1>6, <1>11

(* A withdrawal is what its loop leaves. *)
LEMMA WithdrawInTurn ==
  ASSUME MeterInv, NEW order, IsBatch(order), NEW C, NEW W,
         C = {l \in DOMAIN order : ShouldAutoCloseLease(order, l)},
         W \in {{l \in DOMAIN order : CalculateTotalAccruedForLease(leases[l]) # NoCoins},
                {l \in DOMAIN order : CalculateTransferAmounts(order, l) # NoCoins}},
         SettleAndClose(order, C, W)
  PROVE  BooksAfter = WithdrawLoop(order)
<1> DEFINE L == leases'
<1>1. TypeOK /\ DOMAIN order \subseteq 1 .. leaseSeq
  BY DEF MeterInv, IsBatch
<1>2. /\ PerformSettlement(order)
      /\ accounts' = [t \in Tenants |-> EndActive(accounts[t], C \cap LeasesOf(t))]
      /\ leases' = [l \in 1 .. leaseSeq |->
           CASE l \in C -> Closed(leases[l], TRUE)
             [] l \in W \ C -> [leases[l] EXCEPT !.lastSettledAt = SettleTime(leases[l])]
             [] OTHER   -> leases[l]]
  BY DEF SettleAndClose
<1>3. \A l \in 1 .. leaseSeq :
        L[l] = CASE l \in C -> Closed(leases[l], TRUE)
                 [] l \in W \ C -> [leases[l] EXCEPT !.lastSettledAt = SettleTime(leases[l])]
                 [] OTHER -> leases[l]
  BY <1>2
<1>4. \A l \in (1 .. leaseSeq) \ DOMAIN order : L[l] = leases[l]
  BY ZenonT(30), <1>3
<1>5. leases' = [l \in 1 .. leaseSeq |-> IF l \in DOMAIN order THEN L[l] ELSE leases[l]]
  <2>1. leases' = [l \in 1 .. leaseSeq |-> L[l]]
    BY <1>2
  <2>2. \A l \in 1 .. leaseSeq : L[l] = IF l \in DOMAIN order THEN L[l] ELSE leases[l]
    BY <1>4
  <2> HIDE DEF L
  <2>3. [l \in 1 .. leaseSeq |-> L[l]]
          = [l \in 1 .. leaseSeq |-> IF l \in DOMAIN order THEN L[l] ELSE leases[l]]
    BY <2>2
  <2>4. QED
    BY <2>1, <2>3
<1>6. ASSUME NEW l \in DOMAIN order \ C
      PROVE  /\ ~AccrualOverflows(leases[l])
             /\ l \in W <=> CalculateTotalAccruedForLease(leases[l]) # NoCoins
  <2>1. ~ShouldAutoCloseLease(order, l) /\ l \in 1 .. leaseSeq
    BY <1>1
  <2>2. ~AccrualOverflows(leases[l])
    <3>1. CASE leases[l].state = "ACTIVE"
      BY ZenonT(30), <1>1, <2>1, <3>1, TransferOutcome
    <3>2. CASE leases[l].state # "ACTIVE"
      <4>1. leases[l] \in Lease
        BY <1>1, <2>1 DEF TypeOK
      <4>2. SettleTime(leases[l]) = leases[l].lastSettledAt
        BY <2>1, <3>2, <4>1 DEF SettleTime, MeterInv, SettlementTimes
      <4>3. leases[l].lastSettledAt \in Nat
        BY ZenonT(30), <4>1 DEF Lease
      <4>4. Elapsed(leases[l]) = 0
        BY ZenonT(30), <4>2, <4>3, MonusOfItself DEF Elapsed
      <4>5. QED
        BY <4>4, BillingAssumption DEF AccrualOverflows, Seconds
    <3>3. QED
      BY ZenonT(30), <3>1, <3>2
  <2>3. CalculateTransferAmounts(order, l) # NoCoins
          <=> CalculateTotalAccruedForLease(leases[l]) # NoCoins
    <3>1. CASE leases[l].state = "ACTIVE"
      BY <1>1, <2>1, <3>1, TransferOutcome
    <3>2. CASE leases[l].state # "ACTIVE"
      BY ZenonT(30), <1>1, <3>2, OnlyActiveAccrues
    <3>3. QED
      BY <3>1, <3>2
  <2>4. QED
    BY <2>2, <2>3
<1>7. WithdrawDecision(order, W, L, C)
  BY ZenonT(30), <1>1, <1>3, <1>6 DEF WithdrawDecision
<1>8. Decision(order, L, C)
  <2>1. ASSUME NEW l \in DOMAIN order PROVE L[l] \in Lease
    <3>1. leases[l] \in Lease /\ now \in Nat
      BY <1>1 DEF TypeOK
    <3>2. SettleTime(leases[l]) \in Nat
      BY <3>1 DEF SettleTime, Lease
    <3>3. Closed(leases[l], TRUE) \in Lease
      BY ZenonT(30), <3>1 DEF Closed, Lease, LeaseStates
    <3>4. [leases[l] EXCEPT !.lastSettledAt = SettleTime(leases[l])] \in Lease
      BY <3>1, <3>2 DEF Lease
    <3>5. L[l] \in {Closed(leases[l], TRUE), leases[l],
                    [leases[l] EXCEPT !.lastSettledAt = SettleTime(leases[l])]}
      BY ZenonT(30), <1>1, <1>3
    <3>6. QED
      BY ZenonT(30), <3>1, <3>3, <3>4, <3>5
  <2>2. QED
    BY <2>1 DEF Decision
<1> HIDE DEF L
<1>9. BooksAfter = PartialBooks(order, DOMAIN order, L, C)
  BY ZenonT(30), <1>2, <1>5, <1>8, PartialEnd
<1>10. WithdrawLoop(order) = PartialBooks(order, DOMAIN order, L, C)
  BY <1>1, <1>7, <1>8, WithdrawLoopIsPartial
<1>11. QED
  BY <1>9, <1>10

(***************************************************************************)
(* Whatever the batch and its order, CloseLease does what its loop over    *)
(* the leases does (msg_server.go:477-588): each lease is settled against  *)
(* the balance the earlier ones left, closed and released on its own.      *)
(***************************************************************************)
THEOREM CloseAlwaysSequential == Spec => CloseIsSequential
<1> DEFINE Sequential == \A S \in SUBSET (1 .. leaseSeq) : \A order \in Orders(S) :
      (\E sender \in Accounts : CloseLease(sender, order)) => BooksAfter = CloseLoop(order)
<1>1. ASSUME TypeOK PROVE Sequential
  <2> SUFFICES ASSUME NEW S \in SUBSET (1 .. leaseSeq), NEW order \in Orders(S),
                      NEW sender \in Accounts, CloseLease(sender, order)
               PROVE  BooksAfter = CloseLoop(order)
    OBVIOUS
  <2> DEFINE L == [l \in DOMAIN order |-> Closed(leases[l], ShouldAutoCloseLease(order, l))]
  <2>1. IsBatch(order) /\ DOMAIN order \subseteq 1 .. leaseSeq
    BY ZenonT(30), <1>1, OrdersAreBatches
  <2>2. \A l \in DOMAIN order : L[l] = Closed(leases[l], ShouldAutoCloseLease(order, l))
    OBVIOUS
  <2>3. /\ PerformSettlement(order)
        /\ leases' = [l \in 1 .. leaseSeq |->
             IF l \in DOMAIN order THEN Closed(leases[l], ShouldAutoCloseLease(order, l))
                                   ELSE leases[l]]
        /\ accounts' = [t \in Tenants |-> EndActive(accounts[t], DOMAIN order \cap LeasesOf(t))]
    BY ZenonT(30) DEF CloseLease
  <2>4. leases' = [l \in 1 .. leaseSeq |-> IF l \in DOMAIN order THEN L[l] ELSE leases[l]]
    BY <2>3
  <2>5. Decision(order, L, DOMAIN order)
    <3>1. ASSUME NEW l \in DOMAIN order
          PROVE  Closed(leases[l], ShouldAutoCloseLease(order, l)) \in Lease
      <4>1. leases[l] \in Lease /\ now \in Nat
        BY <1>1, <2>1 DEF TypeOK
      <4>2. ShouldAutoCloseLease(order, l) \in BOOLEAN
        BY ZenonT(30) DEF ShouldAutoCloseLease
      <4>3. QED
        BY ZenonT(30), <4>1, <4>2 DEF Closed, Lease, LeaseStates
    <3>2. QED
      BY <2>1, <3>1 DEF Decision
  <2> HIDE DEF L
  <2>6. BooksAfter = PartialBooks(order, DOMAIN order, L, DOMAIN order)
    BY ZenonT(30), <2>3, <2>4, <2>5, PartialEnd
  <2>7. CloseLoop(order) = PartialBooks(order, DOMAIN order, L, DOMAIN order)
    BY ZenonT(30), <1>1, <2>2, <2>5, CloseLoopIsPartial
  <2>8. QED
    BY <2>6, <2>7
<1>2. TypeOK => [Sequential]_vars
  BY <1>1
<1>3. Spec => []TypeOK
  BY InitMeterInv, NextMeterInv, PTL DEF Spec, MeterInv
<1>4. QED
  BY <1>2, <1>3, PTL DEF Spec, CloseIsSequential

(***************************************************************************)
(* So does Withdraw in both of its modes (msg_server.go:686-758 and        *)
(* 866-1015), although a provider-wide call decides by the transfer and a  *)
(* call that names leases by the accrual whether a lease was settled.      *)
(***************************************************************************)
THEOREM WithdrawAlwaysSequential == Spec => WithdrawIsSequential
<1> DEFINE Sequential ==
      \A p \in 1 .. providerSeq :
        /\ \A S \in SUBSET (1 .. leaseSeq) : \A order \in Orders(S) :
             (\E sender \in Accounts : withdrawFromLeases(sender, p, order))
               => BooksAfter = WithdrawLoop(order)
        /\ \A limit \in 0 .. MaxBatchLeaseSize :
             (\E sender \in Accounts : withdrawFromProvider(sender, p, limit))
               => BooksAfter = WithdrawLoop(CollectLeases(p, EffectiveWithdrawLimit(limit)))
<1>1. ASSUME MeterInv PROVE Sequential
  <2>1. ASSUME NEW p, NEW S \in SUBSET (1 .. leaseSeq), NEW order \in Orders(S),
               NEW sender, withdrawFromLeases(sender, p, order)
        PROVE  BooksAfter = WithdrawLoop(order)
    <3> DEFINE C == {l \in DOMAIN order : ShouldAutoCloseLease(order, l)}
               W == {l \in DOMAIN order :
                       CalculateTotalAccruedForLease(leases[l]) # NoCoins}
    <3>1. IsBatch(order)
      BY <1>1, OrdersAreBatches DEF MeterInv
    <3>2. SettleAndClose(order, C, W)
      BY <2>1 DEF withdrawFromLeases
    <3>3. QED
      BY <1>1, <3>1, <3>2, WithdrawInTurn
  <2>2. ASSUME NEW p, NEW limit, NEW sender, withdrawFromProvider(sender, p, limit)
        PROVE  BooksAfter = WithdrawLoop(CollectLeases(p, EffectiveWithdrawLimit(limit)))
    <3> DEFINE order == CollectLeases(p, EffectiveWithdrawLimit(limit))
               C == {l \in DOMAIN order : ShouldAutoCloseLease(order, l)}
               W == {l \in DOMAIN order : CalculateTransferAmounts(order, l) # NoCoins}
    <3>1. IsBatch(order)
      BY <1>1, CollectedAreBatches DEF MeterInv
    <3>2. SettleAndClose(order, C, W)
      BY <2>2 DEF withdrawFromProvider
    <3> HIDE DEF order
    <3>3. BooksAfter = WithdrawLoop(order)
      BY <1>1, <3>1, <3>2, WithdrawInTurn
    <3>4. QED
      BY <3>3 DEF order
  <2>3. QED
    BY <2>1, <2>2
<1>2. MeterInv => [Sequential]_vars
  BY <1>1
<1>3. QED
  BY <1>2, InitMeterInv, NextMeterInv, PTL DEF Spec, WithdrawIsSequential
=============================================================================
