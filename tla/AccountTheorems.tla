-------------------------- MODULE AccountTheorems --------------------------
(***************************************************************************)
(* Proof that credit accounts keep an exact record of their leases: the    *)
(* reserved amount is the sum of the reservations of the live leases, and  *)
(* the two counts are the numbers of active and pending leases.            *)
(***************************************************************************)
EXTENDS ChainTheorems

(* The provers get more time than by default. *)
USE SMTT(30), ZenonT(30)

(***************************************************************************)
(* The inductive invariant.  A lease keeps the minimum duration that was   *)
(* in force when it was created, and it is not 0: GetLeaseReservationAmount*)
(* would take the current parameter for a lease without one, and its       *)
(* reservation would change under the account's feet.                      *)
(***************************************************************************)
OwnMinDuration == \A l \in 1 .. leaseSeq : leases[l].minDur > 0

AccountInv == TypeOK /\ OwnMinDuration /\ ReservationsMatch /\ CountsMatch

(* What no step changes in an existing lease. *)
TermsKept ==
  /\ leaseSeq' = leaseSeq
  /\ \A l \in 1 .. leaseSeq : /\ leases'[l].tenant = leases[l].tenant
                              /\ leases'[l].rates = leases[l].rates
                              /\ leases'[l].minDur = leases[l].minDur

-----------------------------------------------------------------------------
(* Sums of reservations *)

(* Releasing the reservations of T leaves those of the others. *)
LEMMA ReservationsRemove ==
  ASSUME TypeOK, NEW S \in SUBSET (1 .. leaseSeq), NEW T \in SUBSET S
  PROVE  Minus(Reservations(S), Reservations(T)) = Reservations(S \ T)
<1> DEFINE F == [l \in S |-> GetLeaseReservationAmount(leases[l])]
<1>1. IsFiniteSet(S)
  BY LeaseSetsFinite
<1>2. \A x \in S : F[x] \in AllCoins
  BY LeaseAmounts
<1>3. Reservations(S) = SumCoins(S, F)
  BY DEF Reservations
<1>4. Reservations(T) = SumCoins(T, F)
  BY Zenon, SumCoinsCong DEF Reservations
<1>5. Reservations(S \ T) = SumCoins(S \ T, F)
  BY Zenon, SumCoinsCong DEF Reservations
<1> HIDE DEF F
<1>6. Minus(SumCoins(S, F), SumCoins(T, F)) = SumCoins(S \ T, F)
  BY Zenon, <1>1, <1>2, SumCoinsRemove
<1>7. QED
  BY <1>3, <1>4, <1>5, <1>6

(* A lease with the same terms has the same reservation, whatever happens *)
(* to the parameters.                                                     *)
LEMMA ReservationKept ==
  ASSUME AccountInv, TermsKept, NEW l \in 1 .. leaseSeq
  PROVE  GetLeaseReservationAmount(leases[l])' = GetLeaseReservationAmount(leases[l])
<1>1. leases[l].minDur # 0
  BY DEF AccountInv, OwnMinDuration, TypeOK, Lease
<1>2. leases'[l].minDur = leases[l].minDur /\ leases'[l].rates = leases[l].rates
  BY DEF TermsKept
<1>3. QED
  BY <1>1, <1>2 DEF GetLeaseReservationAmount

(* The reservations of the leases a tenant has live after the step. *)
LEMMA ReservationsKept ==
  ASSUME AccountInv, TermsKept, NEW t \in Tenants, NEW S \in SUBSET (1 .. leaseSeq),
         LiveLeasesOf(t)' = S
  PROVE  Reservations(LiveLeasesOf(t))' = Reservations(S)
<1> DEFINE F == [l \in S |-> GetLeaseReservationAmount(leases[l])]
           G == [l \in S |-> GetLeaseReservationAmount(leases[l])']
<1>1. Reservations(S) = SumCoins(S, F)
  BY DEF Reservations
<1>2. Reservations(LiveLeasesOf(t))' = SumCoins(S, G)
  BY DEF Reservations
<1>3. \A l \in S : F[l] = G[l]
  BY ReservationKept
<1> HIDE DEF F, G
<1>4. QED
  BY Zenon, <1>1, <1>2, <1>3, SumCoinsCong

-----------------------------------------------------------------------------
(* Steps that end leases *)

(***************************************************************************)
(* The leases S, all PENDING or all ACTIVE, end, and nothing happens to    *)
(* the others: what is reserved and counted shrinks by what S contributed. *)
(***************************************************************************)
LEMMA EndingLeases ==
  ASSUME AccountInv, TermsKept, NEW S \in SUBSET (1 .. leaseSeq),
         NEW from \in {"PENDING", "ACTIVE"}, NEW other \in {"PENDING", "ACTIVE"},
         from # other,
         \A l \in S : /\ leases[l].state = from
                      /\ leases'[l].state \notin {"PENDING", "ACTIVE"},
         \A l \in (1 .. leaseSeq) \ S : leases'[l].state = leases[l].state,
         NEW t \in Tenants
  PROVE  /\ Reservations(LiveLeasesOf(t))' =
              Minus(accounts[t].reserved, Reservations(S \cap LeasesOf(t)))
         /\ Cardinality(InState(t, from)') =
              Monus(Cardinality(InState(t, from)), Cardinality(S \cap LeasesOf(t)))
         /\ InState(t, other)' = InState(t, other)
         /\ LeasesOf(t)' = LeasesOf(t)
<1> DEFINE E == S \cap LeasesOf(t)
<1>1. LeasesOf(t)' = LeasesOf(t)
  BY DEF TermsKept, LeasesOf
<1>2. LiveLeasesOf(t)' = LiveLeasesOf(t) \ E
  BY <1>1 DEF LiveLeasesOf, LeasesOf
<1>3. /\ LiveLeasesOf(t) \in SUBSET (1 .. leaseSeq)
      /\ LiveLeasesOf(t) \ E \in SUBSET (1 .. leaseSeq)
      /\ E \in SUBSET LiveLeasesOf(t)
  BY DEF LiveLeasesOf, LeasesOf
<1>4. Reservations(LiveLeasesOf(t))' = Reservations(LiveLeasesOf(t) \ E)
  BY Zenon, <1>2, <1>3, ReservationsKept
<1>5. Minus(Reservations(LiveLeasesOf(t)), Reservations(E)) = Reservations(LiveLeasesOf(t) \ E)
  BY <1>3, ReservationsRemove DEF AccountInv
<1>6. accounts[t].reserved = Reservations(LiveLeasesOf(t))
  BY DEF AccountInv, ReservationsMatch
<1>7. Reservations(LiveLeasesOf(t))' = Minus(accounts[t].reserved, Reservations(E))
  BY <1>4, <1>5, <1>6
<1>8. InState(t, from)' = InState(t, from) \ E
  BY <1>1 DEF InState, LeasesOf
<1>9. InState(t, other)' = InState(t, other)
  BY <1>1 DEF InState, LeasesOf
<1>10. Cardinality(InState(t, from) \ E) = Monus(Cardinality(InState(t, from)), Cardinality(E))
  <2>1. E \subseteq InState(t, from) /\ InState(t, from) \in SUBSET (1 .. leaseSeq)
    BY DEF InState, LeasesOf
  <2>2. IsFiniteSet(InState(t, from)) /\ Cardinality(InState(t, from)) \in Nat
    BY <2>1, LeaseSetsFinite DEF AccountInv
  <2>3. InState(t, from) \cap E = E
    BY <2>1
  <2> HIDE DEF E
  <2>4. Cardinality(InState(t, from) \ E) =
          Cardinality(InState(t, from)) - Cardinality(InState(t, from) \cap E)
    BY Zenon, <2>2, FS_Difference
  <2>5. IsFiniteSet(E) /\ Cardinality(E) <= Cardinality(InState(t, from))
    BY <2>1, <2>2, FS_Subset
  <2>6. Cardinality(E) \in Nat
    BY <2>5, FS_CardinalityType
  <2>7. Cardinality(InState(t, from) \ E) = Cardinality(InState(t, from)) - Cardinality(E)
    BY <2>3, <2>4, Zenon
  <2>8. QED
    BY <2>2, <2>5, <2>6, <2>7 DEF Monus
<1>11. QED
  BY <1>1, <1>7, <1>8, <1>9, <1>10

(* A step that ends leases the way the module does keeps the invariant. *)
LEMMA EndingKeeps ==
  ASSUME AccountInv, TypeOK', TermsKept, NEW S \in SUBSET (1 .. leaseSeq),
         NEW from \in {"PENDING", "ACTIVE"},
         \A l \in S : /\ leases[l].state = from
                      /\ leases'[l].state \notin {"PENDING", "ACTIVE"},
         \A l \in (1 .. leaseSeq) \ S : leases'[l].state = leases[l].state,
         accounts' = [t \in Tenants |->
                        IF from = "ACTIVE" THEN EndActive(accounts[t], S \cap LeasesOf(t))
                        ELSE EndPending(accounts[t], S \cap LeasesOf(t))]
  PROVE  AccountInv'
<1>1. OwnMinDuration'
  BY DEF TermsKept, AccountInv, OwnMinDuration
<1>2. ASSUME NEW t \in Tenants
      PROVE  /\ accounts'[t].reserved = Reservations(LiveLeasesOf(t))'
             /\ accounts'[t].active = Cardinality(InState(t, "ACTIVE")')
             /\ accounts'[t].pending = Cardinality(InState(t, "PENDING")')
             /\ LeasesOf(t)' # {} => accounts'[t].exists
  <2> DEFINE E == S \cap LeasesOf(t)
             a == accounts[t]
  <2>1. /\ a \in CreditAccount
        /\ a.active = Cardinality(InState(t, "ACTIVE"))
        /\ a.pending = Cardinality(InState(t, "PENDING"))
        /\ LeasesOf(t) # {} => a.exists
    BY DEF AccountInv, CountsMatch, TypeOK
  <2>2. CASE from = "ACTIVE"
    <3>1. accounts'[t] = EndActive(a, E)
      BY <2>2
    <3>2. /\ accounts'[t].reserved = Minus(a.reserved, Reservations(E))
          /\ accounts'[t].active = Monus(a.active, Cardinality(E))
          /\ accounts'[t].pending = a.pending
          /\ accounts'[t].exists = a.exists
      BY Zenon, <2>1, <3>1 DEF EndActive, CreditAccount
    <3>3. QED
      BY <2>1, <2>2, <3>2, EndingLeases
  <2>3. CASE from = "PENDING"
    <3>1. accounts'[t] = EndPending(a, E)
      BY <2>3
    <3>2. /\ accounts'[t].reserved = Minus(a.reserved, Reservations(E))
          /\ accounts'[t].pending = Monus(a.pending, Cardinality(E))
          /\ accounts'[t].active = a.active
          /\ accounts'[t].exists = a.exists
      BY Zenon, <2>1, <3>1 DEF EndPending, CreditAccount
    <3>3. QED
      BY <2>1, <2>3, <3>2, EndingLeases
  <2>4. QED
    BY <2>2, <2>3
<1>3. QED
  BY Zenon, <1>1, <1>2 DEF AccountInv, ReservationsMatch, CountsMatch

-----------------------------------------------------------------------------
(* The steps *)

(* Rejection, cancellation and expiration of the pending leases S. *)
LEMMA DropKeeps ==
  ASSUME AccountInv, TypeOK', NEW S \in SUBSET (1 .. leaseSeq),
         NEW state \in {"REJECTED", "EXPIRED"},
         \A l \in S : leases[l].state = "PENDING",
         DropPending(S, state), leaseSeq' = leaseSeq
  PROVE  AccountInv'
<1>1. leases \in [1 .. leaseSeq -> Lease]
  BY DEF AccountInv, TypeOK
<1>2. ASSUME NEW l \in 1 .. leaseSeq
      PROVE  /\ leases'[l].tenant = leases[l].tenant
             /\ leases'[l].rates = leases[l].rates
             /\ leases'[l].minDur = leases[l].minDur
             /\ leases'[l].state = IF l \in S THEN state ELSE leases[l].state
  <2>1. leases[l] \in Lease
    BY <1>1
  <2>2. leases'[l] = IF l \in S THEN [leases[l] EXCEPT !.state = state, !.endedAt = now]
                     ELSE leases[l]
    BY Zenon DEF DropPending
  <2>3. QED
    BY <2>1, <2>2 DEF Lease
<1>3. TermsKept
  BY <1>2 DEF TermsKept
<1>4. accounts' = [t \in Tenants |-> EndPending(accounts[t], S \cap LeasesOf(t))]
  BY Zenon DEF DropPending
<1>5. /\ \A l \in S : leases'[l].state \notin {"PENDING", "ACTIVE"}
      /\ \A l \in (1 .. leaseSeq) \ S : leases'[l].state = leases[l].state
  BY Zenon, <1>2
<1>6. QED
  BY Zenon, <1>3, <1>4, <1>5, EndingKeeps

(* Closing and withdrawing: the active leases C are closed. *)
LEMMA CloseKeeps ==
  ASSUME AccountInv, TypeOK', NEW C \in SUBSET (1 .. leaseSeq),
         \A l \in C : leases[l].state = "ACTIVE",
         \A l \in 1 .. leaseSeq :
           IF l \in C
           THEN \E b \in BOOLEAN : leases'[l] = Closed(leases[l], b)
           ELSE \/ leases'[l] = leases[l]
                \/ leases'[l] = [leases[l] EXCEPT !.lastSettledAt = SettleTime(leases[l])],
         accounts' = [t \in Tenants |-> EndActive(accounts[t], C \cap LeasesOf(t))],
         leaseSeq' = leaseSeq
  PROVE  AccountInv'
<1>1. leases \in [1 .. leaseSeq -> Lease]
  BY DEF AccountInv, TypeOK
<1>2. ASSUME NEW l \in 1 .. leaseSeq
      PROVE  /\ leases'[l].tenant = leases[l].tenant
             /\ leases'[l].rates = leases[l].rates
             /\ leases'[l].minDur = leases[l].minDur
             /\ leases'[l].state = IF l \in C THEN "CLOSED" ELSE leases[l].state
  <2>1. leases[l] \in Lease
    BY <1>1
  <2>2. CASE l \in C
    <3>1. PICK b \in BOOLEAN : leases'[l] = Closed(leases[l], b)
      BY Zenon, <2>2
    <3>2. QED
      BY Zenon, <2>1, <2>2, <3>1 DEF Closed, Lease
  <2>3. CASE l \notin C
    <3>1. \/ leases'[l] = leases[l]
          \/ leases'[l] = [leases[l] EXCEPT !.lastSettledAt = SettleTime(leases[l])]
      BY <2>3
    <3>2. QED
      BY <2>1, <2>3, <3>1 DEF Lease
  <2>4. QED
    BY <2>2, <2>3
<1>3. TermsKept
  BY <1>2 DEF TermsKept
<1>4. /\ \A l \in C : leases'[l].state \notin {"PENDING", "ACTIVE"}
      /\ \A l \in (1 .. leaseSeq) \ C : leases'[l].state = leases[l].state
  BY <1>2
<1>5. QED
  BY Zenon, <1>3, <1>4, EndingKeeps

(* A step that changes no lease, and in an account at most its existence. *)
LEMMA QuietKeeps ==
  ASSUME AccountInv, TypeOK', UNCHANGED <<leaseSeq, leases>>,
         \A t \in Tenants : /\ accounts'[t].reserved = accounts[t].reserved
                            /\ accounts'[t].active = accounts[t].active
                            /\ accounts'[t].pending = accounts[t].pending
                            /\ accounts[t].exists => accounts'[t].exists
  PROVE  AccountInv'
<1>1. TermsKept
  BY DEF TermsKept
<1>2. OwnMinDuration'
  BY DEF AccountInv, OwnMinDuration
<1>3. ASSUME NEW t \in Tenants
      PROVE  Reservations(LiveLeasesOf(t))' = Reservations(LiveLeasesOf(t))
  <2>1. LiveLeasesOf(t)' = LiveLeasesOf(t)
    BY DEF LiveLeasesOf, LeasesOf
  <2>2. LiveLeasesOf(t) \in SUBSET (1 .. leaseSeq)
    BY DEF LiveLeasesOf, LeasesOf
  <2>3. QED
    BY <1>1, <2>1, <2>2, ReservationsKept
<1>4. \A t \in Tenants : /\ LeasesOf(t)' = LeasesOf(t)
                         /\ InState(t, "ACTIVE")' = InState(t, "ACTIVE")
                         /\ InState(t, "PENDING")' = InState(t, "PENDING")
  BY DEF InState, LeasesOf
<1>5. QED
  BY <1>2, <1>3, <1>4 DEF AccountInv, ReservationsMatch, CountsMatch

(* Acknowledgement: pending leases become active and keep their reservations. *)
LEMMA AcknowledgeKeeps ==
  ASSUME AccountInv, TypeOK', NEW sender, NEW p, NEW S \in SUBSET (1 .. leaseSeq),
         AcknowledgeLease(sender, p, S)
  PROVE  AccountInv'
<1>1. leases \in [1 .. leaseSeq -> Lease] /\ leaseSeq' = leaseSeq
  BY Zenon DEF AccountInv, TypeOK, AcknowledgeLease
<1>2. ASSUME NEW l \in 1 .. leaseSeq
      PROVE  /\ leases'[l].tenant = leases[l].tenant
             /\ leases'[l].rates = leases[l].rates
             /\ leases'[l].minDur = leases[l].minDur
             /\ leases'[l].state = IF l \in S THEN "ACTIVE" ELSE leases[l].state
  <2>1. leases[l] \in Lease
    BY <1>1
  <2>2. leases'[l] = IF l \in S
                     THEN [leases[l] EXCEPT !.state = "ACTIVE", !.acknowledgedAt = now,
                                            !.lastSettledAt = now]
                     ELSE leases[l]
    BY Zenon DEF AcknowledgeLease
  <2>3. QED
    BY <2>1, <2>2 DEF Lease
<1>3. \A l \in S : leases[l].state = "PENDING"
  BY Zenon DEF AcknowledgeLease, validatePendingLeaseBatch
<1>4. TermsKept
  BY <1>1, <1>2 DEF TermsKept
<1>5. OwnMinDuration'
  BY <1>4 DEF TermsKept, AccountInv, OwnMinDuration
<1>6. ASSUME NEW t \in Tenants
      PROVE  /\ accounts'[t].reserved = Reservations(LiveLeasesOf(t))'
             /\ accounts'[t].active = Cardinality(InState(t, "ACTIVE")')
             /\ accounts'[t].pending = Cardinality(InState(t, "PENDING")')
             /\ LeasesOf(t)' # {} => accounts'[t].exists
  <2> DEFINE E == S \cap LeasesOf(t)
             P == InState(t, "PENDING")
             A == InState(t, "ACTIVE")
             n == Cardinality(E)
             a == accounts[t]
  <2>1. /\ a \in CreditAccount
        /\ a.reserved = Reservations(LiveLeasesOf(t))
        /\ a.active = Cardinality(A) /\ a.pending = Cardinality(P)
        /\ LeasesOf(t) # {} => a.exists
    BY DEF AccountInv, ReservationsMatch, CountsMatch, TypeOK
  <2>2. LeasesOf(t)' = LeasesOf(t)
    BY <1>1, <1>2 DEF LeasesOf
  <2>3. LiveLeasesOf(t)' = LiveLeasesOf(t) /\ LiveLeasesOf(t) \in SUBSET (1 .. leaseSeq)
    BY <1>2, <1>3, <2>2 DEF LiveLeasesOf, LeasesOf
  <2>4. Reservations(LiveLeasesOf(t))' = Reservations(LiveLeasesOf(t))
    BY <1>4, <2>3, ReservationsKept
  <2>5. P' = P \ E /\ A' = A \cup E
    BY <1>2, <1>3, <2>2 DEF InState, LeasesOf
  <2>6. /\ E \subseteq P /\ A \cap E = {}
        /\ P \in SUBSET (1 .. leaseSeq) /\ A \in SUBSET (1 .. leaseSeq)
    BY <1>3 DEF InState, LeasesOf
  <2>7. accounts'[t] = [a EXCEPT !.pending = Monus(a.pending, n), !.active = a.active + n]
    BY Zenon DEF AcknowledgeLease
  <2> HIDE DEF E, P, A, n, a
  <2>8. /\ accounts'[t].reserved = a.reserved
        /\ accounts'[t].pending = Monus(a.pending, n)
        /\ accounts'[t].active = a.active + n
        /\ accounts'[t].exists = a.exists
    BY <2>1, <2>7 DEF CreditAccount
  <2>9. /\ IsFiniteSet(P) /\ Cardinality(P) \in Nat
        /\ IsFiniteSet(A) /\ Cardinality(A) \in Nat
    BY <2>6, LeaseSetsFinite DEF AccountInv
  <2>10. IsFiniteSet(E) /\ Cardinality(E) <= Cardinality(P)
    BY Zenon, <2>6, <2>9, FS_Subset
  <2>11. n \in Nat /\ n <= Cardinality(P)
    BY <2>10, FS_CardinalityType DEF n
  <2>12. Cardinality(P \ E) = Cardinality(P) - n
    <3>1. P \cap E = E
      BY Zenon, <2>6
    <3>2. Cardinality(P \ E) = Cardinality(P) - Cardinality(P \cap E)
      BY Zenon, <2>9, FS_Difference
    <3>3. QED
      BY <3>1, <3>2, Zenon DEF n
  <2>13. Cardinality(A \cup E) = Cardinality(A) + n
    <3>1. Cardinality(A \cup E) = Cardinality(A) + Cardinality(E) - Cardinality(A \cap E)
      BY <2>9, <2>10, FS_Union
    <3>2. Cardinality(A \cap E) = 0
      BY Zenon, <2>6, FS_EmptySet
    <3>3. QED
      BY <2>9, <2>11, <3>1, <3>2 DEF n
  <2>14. Monus(Cardinality(P), n) = Cardinality(P) - n
    BY <2>9, <2>11 DEF Monus
  <2>15. QED
    BY <2>1, <2>2, <2>4, <2>5, <2>8, <2>12, <2>13, <2>14 DEF P, A
<1>7. QED
  BY <1>5, <1>6 DEF AccountInv, ReservationsMatch, CountsMatch

(* Validated parameters have a minimum duration. *)
LEMMA MinDurationPositive ==
  ASSUME NEW q, ValidParams(q)
  PROVE  q.minDur > 0
BY SMT DEF ValidParams

(* Creation: one more pending lease, and its reservation. *)
LEMMA CreationKeeps ==
  ASSUME AccountInv, TypeOK', NEW t \in Tenants, NEW p,
         NEW n \in Nat, NEW items \in [1 .. n -> Item],
         createLeaseInternal(t, p, items)
  PROVE  AccountInv'
<1> DEFINE rates == TotalRatesPerSecond(items)
           reservation == CalculateLeaseReservationFromRates(rates, params.minDur)
<1>y. PICK y : y = leaseSeq + 1
  OBVIOUS
<1>1. /\ leaseSeq' = y
      /\ leases' = Extend(leases, y, NewLease(t, p, rates))
      /\ accounts' = [accounts EXCEPT ![t] = AddPending(accounts[t], reservation)]
      /\ params' = params
      /\ accounts[t].exists
  BY <1>y DEF createLeaseInternal
<1>2. /\ TypeOK
      /\ leaseSeq \in Nat /\ leases \in [1 .. leaseSeq -> Lease]
      /\ accounts \in [Tenants -> CreditAccount]
      /\ params.minDur \in Nat /\ ValidParams(params)
  BY DEF AccountInv, TypeOK, Params
<1> HIDE DEF rates, reservation
<1>3. /\ 1 .. leaseSeq' = (1 .. leaseSeq) \cup {y} /\ y \notin 1 .. leaseSeq
      /\ leases'[y].tenant = t /\ leases'[y].state = "PENDING"
      /\ leases'[y].rates = rates /\ leases'[y].minDur = params.minDur
      /\ \A l \in 1 .. leaseSeq : leases'[l] = leases[l]
  <2>1. 1 .. leaseSeq' = (1 .. leaseSeq) \cup {y} /\ y \notin 1 .. leaseSeq
    BY <1>y, <1>1, <1>2
  <2>2. leases'[y] = NewLease(t, p, rates)
    BY <1>y, <1>1, <1>2 DEF Extend
  <2>3. \A l \in 1 .. leaseSeq : leases'[l] = leases[l]
    BY <1>y, <1>1, <1>2 DEF Extend
  <2>4. QED
    BY <2>1, <2>2, <2>3 DEF NewLease
<1>4. OwnMinDuration'
  <2>1. params.minDur > 0
    BY <1>2, MinDurationPositive
  <2>2. QED
    BY <1>3, <2>1 DEF OwnMinDuration, AccountInv
<1>p. params' = params
  BY <1>1
<1>5. \A l \in 1 .. leaseSeq :
        GetLeaseReservationAmount(leases[l])' = GetLeaseReservationAmount(leases[l])
  BY <1>p, <1>3 DEF GetLeaseReservationAmount
<1>6. GetLeaseReservationAmount(leases[y])' = reservation
  BY <1>p, <1>3 DEF GetLeaseReservationAmount, reservation
<1>7. reservation \in AllCoins
  BY Zenon, <1>2, RatesType, CoinOps
  DEF reservation, rates, CalculateLeaseReservationFromRates
<1>8. ASSUME NEW u \in Tenants, u # t
      PROVE  /\ accounts'[u] = accounts[u]
             /\ Reservations(LiveLeasesOf(u))' = Reservations(LiveLeasesOf(u))
             /\ InState(u, "ACTIVE")' = InState(u, "ACTIVE")
             /\ InState(u, "PENDING")' = InState(u, "PENDING")
             /\ LeasesOf(u)' = LeasesOf(u)
  <2>1. LeasesOf(u)' = LeasesOf(u)
    BY <1>3, <1>8 DEF LeasesOf
  <2>2. LiveLeasesOf(u)' = LiveLeasesOf(u)
    BY <1>3, <2>1 DEF LiveLeasesOf, LeasesOf
  <2>3. Reservations(LiveLeasesOf(u))' = Reservations(LiveLeasesOf(u))
    <3> DEFINE S == LiveLeasesOf(u)
               F == [l \in S |-> GetLeaseReservationAmount(leases[l])]
               G == [l \in S |-> GetLeaseReservationAmount(leases[l])']
    <3>1. Reservations(S) = SumCoins(S, F)
      BY DEF Reservations
    <3>2. Reservations(S)' = SumCoins(S, G)
      BY <2>2 DEF Reservations
    <3>3. \A l \in S : F[l] = G[l]
      BY <1>5 DEF LiveLeasesOf, LeasesOf
    <3> HIDE DEF F, G
    <3>4. QED
      BY <3>1, <3>2, <3>3, SumCoinsCong
  <2>4. /\ InState(u, "ACTIVE")' = InState(u, "ACTIVE")
        /\ InState(u, "PENDING")' = InState(u, "PENDING")
    BY <1>3, <2>1 DEF InState, LeasesOf
  <2>5. accounts'[u] = accounts[u]
    BY <1>1, <1>2, <1>8
  <2>6. QED
    BY <2>1, <2>3, <2>4, <2>5
<1>9. LeasesOf(t)' = LeasesOf(t) \cup {y}
  BY <1>3 DEF LeasesOf
<1>10. Reservations(LiveLeasesOf(t))' = Plus(Reservations(LiveLeasesOf(t)), reservation)
  <2> DEFINE S == LiveLeasesOf(t)
             F == [l \in S |-> GetLeaseReservationAmount(leases[l])]
             G == [l \in S \cup {y} |-> GetLeaseReservationAmount(leases[l])']
  <2>1. S \in SUBSET (1 .. leaseSeq) /\ y \notin S
    BY <1>3 DEF LiveLeasesOf, LeasesOf
  <2>2. S' = S \cup {y}
    BY <1>3, <1>9 DEF LiveLeasesOf, LeasesOf
  <2>3. Reservations(S) = SumCoins(S, F)
    BY DEF Reservations
  <2>4. Reservations(S)' = SumCoins(S \cup {y}, G)
    BY <2>2 DEF Reservations
  <2>5. G[y] = reservation /\ \A l \in S : G[l] = F[l] /\ F[l] \in AllCoins
    BY <1>2, <1>5, <1>6, <2>1, LeaseAmounts
  <2>6. IsFiniteSet(S)
    BY <1>2, <2>1, LeaseSetsFinite
  <2> HIDE DEF S, F, G
  <2>7. \A x \in S \cup {y} : G[x] \in AllCoins
    BY <1>7, <2>5
  <2>8. SumCoins(S \cup {y}, G) = Plus(SumCoins(S, G), G[y])
    BY Zenon, <2>1, <2>6, <2>7, SumCoinsAdd
  <2>9. SumCoins(S, G) = SumCoins(S, F)
    BY <2>5, SumCoinsCong
  <2>10. QED
    BY <2>3, <2>4, <2>5, <2>8, <2>9 DEF S
<1>11. /\ InState(t, "ACTIVE")' = InState(t, "ACTIVE")
       /\ InState(t, "PENDING")' = InState(t, "PENDING") \cup {y}
  BY <1>3, <1>9 DEF InState, LeasesOf
<1>12. Cardinality(InState(t, "PENDING") \cup {y}) = Cardinality(InState(t, "PENDING")) + 1
  <2>1. InState(t, "PENDING") \in SUBSET (1 .. leaseSeq) /\ y \notin InState(t, "PENDING")
    BY <1>3 DEF InState, LeasesOf
  <2>2. IsFiniteSet(InState(t, "PENDING"))
    BY <1>2, <2>1, LeaseSetsFinite
  <2>3. QED
    BY <2>1, <2>2, FS_AddElement
<1>13. /\ accounts'[t].reserved = Plus(accounts[t].reserved, reservation)
       /\ accounts'[t].pending = accounts[t].pending + 1
       /\ accounts'[t].active = accounts[t].active
       /\ accounts'[t].exists
  <2>1. accounts'[t] = AddPending(accounts[t], reservation) /\ accounts[t] \in CreditAccount
    BY <1>1, <1>2
  <2>2. QED
    BY Zenon, <1>1, <2>1 DEF AddPending, CreditAccount
<1>14. ASSUME NEW u \in Tenants
       PROVE  /\ accounts'[u].reserved = Reservations(LiveLeasesOf(u))'
              /\ accounts'[u].active = Cardinality(InState(u, "ACTIVE")')
              /\ accounts'[u].pending = Cardinality(InState(u, "PENDING")')
              /\ LeasesOf(u)' # {} => accounts'[u].exists
  <2>1. /\ accounts[u].reserved = Reservations(LiveLeasesOf(u))
        /\ accounts[u].active = Cardinality(InState(u, "ACTIVE"))
        /\ accounts[u].pending = Cardinality(InState(u, "PENDING"))
        /\ LeasesOf(u) # {} => accounts[u].exists
    BY DEF AccountInv, ReservationsMatch, CountsMatch
  <2>2. CASE u # t
    BY <1>8, <2>1, <2>2
  <2>3. CASE u = t
    BY Zenon, <1>10, <1>11, <1>12, <1>13, <2>1, <2>3
  <2>4. QED
    BY <2>2, <2>3
<1>15. QED
  BY <1>4, <1>14 DEF AccountInv, ReservationsMatch, CountsMatch

(* Every message of x/billing, and every block. *)
LEMMA BillingNextKeeps ==
  ASSUME AccountInv, TypeOK', BillingNext PROVE AccountInv'
<1>1. CASE CreditNext
  <2>1. PICK t \in Tenants :
          /\ accounts' = [accounts EXCEPT ![t].exists = TRUE] \/ accounts' = accounts
          /\ UNCHANGED <<leaseSeq, leases>>
    BY <1>1 DEF CreditNext, FundCredit, BankSend
  <2>2. accounts \in [Tenants -> CreditAccount]
    BY DEF AccountInv, TypeOK
  <2>3. \A u \in Tenants : /\ accounts'[u].reserved = accounts[u].reserved
                           /\ accounts'[u].active = accounts[u].active
                           /\ accounts'[u].pending = accounts[u].pending
                           /\ accounts[u].exists => accounts'[u].exists
    BY <2>1, <2>2 DEF CreditAccount
  <2>4. QED
    BY <2>1, <2>3, QuietKeeps
<1>2. CASE CreationNext
  <2>1. PICK t \in Tenants, p \in 1 .. providerSeq, n \in 1 .. params.maxItems :
          \E items \in [1 .. n -> Item] : createLeaseInternal(t, p, items)
    BY <1>2 DEF CreationNext, CreateLease, CreateLeaseForTenant
  <2>2. n \in Nat
    BY <2>1
  <2>3. QED
    BY <2>1, <2>2, CreationKeeps
<1>3. CASE PendingNext
  <2>1. PICK S \in SUBSET (1 .. leaseSeq) :
          \/ \E sender \in Accounts, p \in 1 .. providerSeq :
               AcknowledgeLease(sender, p, S) \/ RejectLease(sender, p, S)
          \/ \E t \in Tenants : CancelLease(t, S)
    BY <1>3 DEF PendingNext
  <2>2. ASSUME NEW sender, NEW p, AcknowledgeLease(sender, p, S) PROVE AccountInv'
    BY <2>2, AcknowledgeKeeps
  <2>3. ASSUME \A l \in S : leases[l].state = "PENDING",
               DropPending(S, "REJECTED"), leaseSeq' = leaseSeq
        PROVE  AccountInv'
    BY <2>3, DropKeeps
  <2>4. QED
    BY <2>1, <2>2, <2>3 DEF RejectLease, CancelLease, validatePendingLeaseBatch
<1>4. CASE SettlementNext
  <2>1. ASSUME NEW sender, NEW S \in SUBSET (1 .. leaseSeq), NEW order \in Orders(S),
               CloseLease(sender, order)
        PROVE  AccountInv'
    <3>1. DOMAIN order = S
      BY DEF Orders
    <3>2. /\ \A l \in S : leases[l].state = "ACTIVE"
          /\ leaseSeq' = leaseSeq
          /\ accounts' = [t \in Tenants |-> EndActive(accounts[t], S \cap LeasesOf(t))]
      BY <2>1, <3>1 DEF CloseLease, CloseAllowed
    <3>3. \A l \in S : ShouldAutoCloseLease(order, l) \in BOOLEAN
      BY DEF ShouldAutoCloseLease
    <3>4. leases' = [l \in 1 .. leaseSeq |->
            IF l \in S THEN Closed(leases[l], ShouldAutoCloseLease(order, l))
                       ELSE leases[l]]
      BY <2>1, <3>1 DEF CloseLease
    <3>5. \A l \in 1 .. leaseSeq :
            IF l \in S THEN \E b \in BOOLEAN : leases'[l] = Closed(leases[l], b)
                       ELSE leases'[l] = leases[l]
      BY <3>3, <3>4
    <3>6. QED
      BY Zenon, <3>2, <3>5, CloseKeeps
  <2>2. ASSUME NEW order, DOMAIN order \subseteq 1 .. leaseSeq, NEW W,
               SettleAndClose(order, {l \in DOMAIN order : ShouldAutoCloseLease(order, l)}, W)
        PROVE  AccountInv'
    <3>1. PICK C \in SUBSET (1 .. leaseSeq) :
            /\ \A l \in C : leases[l].state = "ACTIVE"
            /\ SettleAndClose(order, C, W)
      BY <2>2 DEF ShouldAutoCloseLease
    <3>2. /\ leaseSeq' = leaseSeq
          /\ accounts' = [t \in Tenants |-> EndActive(accounts[t], C \cap LeasesOf(t))]
      BY <3>1 DEF SettleAndClose
    <3>3. leases' = [l \in 1 .. leaseSeq |->
            CASE l \in C -> Closed(leases[l], TRUE)
              [] l \in W \ C -> [leases[l] EXCEPT !.lastSettledAt = SettleTime(leases[l])]
              [] OTHER   -> leases[l]]
      BY <3>1 DEF SettleAndClose
    <3>4. ASSUME NEW l \in 1 .. leaseSeq
          PROVE  IF l \in C
                 THEN \E b \in BOOLEAN : leases'[l] = Closed(leases[l], b)
                 ELSE \/ leases'[l] = leases[l]
                      \/ leases'[l] = [leases[l] EXCEPT !.lastSettledAt = SettleTime(leases[l])]
      BY Zenon, <3>3
    <3>5. QED
      BY Zenon, <3>1, <3>2, <3>4, CloseKeeps
  <2>3. ASSUME NEW sender, NEW S \in SUBSET (1 .. leaseSeq), NEW order \in Orders(S),
               NEW p, withdrawFromLeases(sender, p, order)
        PROVE  AccountInv'
    <3>1. DOMAIN order \subseteq 1 .. leaseSeq
      BY DEF Orders
    <3>2. PICK W : SettleAndClose(order,
                     {l \in DOMAIN order : ShouldAutoCloseLease(order, l)}, W)
      BY Zenon, <2>3 DEF withdrawFromLeases
    <3>3. QED
      BY <2>2, <3>1, <3>2
  <2>4. ASSUME NEW sender, NEW p, NEW limit, withdrawFromProvider(sender, p, limit)
        PROVE  AccountInv'
    <3> DEFINE order == CollectLeases(p, EffectiveWithdrawLimit(limit))
    <3>1. PICK W : SettleAndClose(order,
                     {l \in DOMAIN order : ShouldAutoCloseLease(order, l)}, W)
      BY <2>4 DEF withdrawFromProvider
    <3>2. DOMAIN order \subseteq 1 .. leaseSeq
      BY DEF CollectLeases, WithdrawCandidates
    <3> HIDE DEF order
    <3>3. QED
      BY <2>2, <3>1, <3>2
  <2>5. QED
    BY <1>4, <2>1, <2>3, <2>4 DEF SettlementNext
<1>5. ASSUME NEW sender, NEW p, UpdateParams(sender, p)
      PROVE  AccountInv'
  BY <1>5, QuietKeeps DEF UpdateParams
<1>6. ASSUME NEW dt, NextBlock(dt)
      PROVE  AccountInv'
  <2> DEFINE S == {l \in ExpiringLeases : accounts[leases[l].tenant].exists}
  <2>1. S \in SUBSET (1 .. leaseSeq) /\ \A l \in S : leases[l].state = "PENDING"
    BY DEF ExpiringLeases, Overdue
  <2>2. DropPending(S, "EXPIRED") /\ leaseSeq' = leaseSeq
    BY <1>6 DEF NextBlock
  <2> HIDE DEF S
  <2>3. QED
    BY <2>1, <2>2, DropKeeps
<1>7. QED
  BY <1>1, <1>2, <1>3, <1>4, <1>5, <1>6 DEF BillingNext

(* The invariant holds at genesis. *)
LEMMA InitAccountInv == Init => AccountInv
<1> SUFFICES ASSUME Init PROVE AccountInv
  OBVIOUS
<1>1. leaseSeq = 0 /\ TypeOK
  BY InitTypeOK DEF Init, BillingInit
<1>2. OwnMinDuration
  BY <1>1 DEF OwnMinDuration
<1>3. ASSUME NEW t \in Tenants
      PROVE  /\ LeasesOf(t) = {} /\ LiveLeasesOf(t) = {}
             /\ InState(t, "ACTIVE") = {} /\ InState(t, "PENDING") = {}
  BY <1>1 DEF LeasesOf, LiveLeasesOf, InState
<1>4. Reservations({}) = NoCoins
  BY SumCoinsEmpty DEF Reservations
<1>5. \A t \in Tenants : /\ accounts[t].active = 0 /\ accounts[t].pending = 0
                         /\ accounts[t].reserved = NoCoins
  BY DEF Init, BillingInit
<1>6. ReservationsMatch
  BY <1>3, <1>4, <1>5 DEF ReservationsMatch
<1>7. CountsMatch
  BY <1>3, <1>5, FS_EmptySet DEF CountsMatch
<1>8. QED
  BY <1>1, <1>2, <1>6, <1>7 DEF AccountInv

(* The invariant is kept by every step. *)
LEMMA NextAccountInv == AccountInv /\ [Next]_vars => AccountInv'
<1> SUFFICES ASSUME AccountInv, [Next]_vars PROVE AccountInv'
  OBVIOUS
<1>1. TypeOK'
  BY NextTypeOK DEF AccountInv
<1>2. CASE BillingNext
  BY <1>1, <1>2, BillingNextKeeps
<1>3. CASE UNCHANGED billingVars
  BY <1>1, <1>3, QuietKeeps DEF billingVars
<1>4. QED
  BY <1>2, <1>3 DEF Next, vars

(***************************************************************************)
(* The invariant of types/credit.go: in every reachable state the reserved *)
(* amount of every account is the sum over its PENDING and ACTIVE leases.  *)
(***************************************************************************)
THEOREM ReservationsAlwaysMatch == Spec => []ReservationsMatch
<1>1. AccountInv => ReservationsMatch
  BY DEF AccountInv
<1>2. QED
  BY InitAccountInv, NextAccountInv, <1>1, PTL DEF Spec

(***************************************************************************)
(* The counts of an account never drift from its leases: the decrements    *)
(* that stop at zero never hide a mistake.                                 *)
(***************************************************************************)
THEOREM CountsAlwaysMatch == Spec => []CountsMatch
<1>1. AccountInv => CountsMatch
  BY DEF AccountInv
<1>2. QED
  BY InitAccountInv, NextAccountInv, <1>1, PTL DEF Spec
=============================================================================
