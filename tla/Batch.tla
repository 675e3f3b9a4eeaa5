------------------------------- MODULE Batch -------------------------------
(***************************************************************************)
(* The loops of the batch handlers, one lease at a time.  Billing gives    *)
(* the outcome of a batch in closed form, as sums over the leases settled  *)
(* before; here the outcome is what the loop bodies of CloseLease and of   *)
(* Withdraw leave behind, each reading the balances and the credit account *)
(* its predecessors wrote.                                                 *)
(***************************************************************************)
EXTENDS Chain

(* What a loop reads and writes. *)
Books == [credit |-> credit, wallet |-> wallet, paid |-> paid,
          leases |-> leases, accounts |-> accounts]

BooksAfter == [credit |-> credit', wallet |-> wallet', paid |-> paid',
               leases |-> leases', accounts |-> accounts']

(* What lease l can be charged, and whether that exhausts its credit. *)
AccruedIn(b, l) ==
  LET lease == b.leases[l]
  IN  IF AccrualOverflows(lease)
      THEN [d \in Denoms |->
              IF lease.rates[d] > 0 THEN b.credit[lease.tenant][d] ELSE 0]
      ELSE CalculateTotalAccruedForLease(lease)

ExhaustedIn(b, l) ==
  LET lease   == b.leases[l]
      balance == b.credit[lease.tenant]
      accrued == CalculateTotalAccruedForLease(lease)
  IN  /\ lease.state = "ACTIVE"
      /\ \/ AccrualOverflows(lease)
         \/ \E d \in Denoms : accrued[d] > 0 /\ accrued[d] >= balance[d]
         \/ Elapsed(lease) = 0 /\ \E d \in Denoms : lease.rates[d] > 0 /\ balance[d] = 0

(* One transfer from the tenant's credit address to the payout address. *)
SettleOne(b, l) ==
  LET t      == b.leases[l].tenant
      payout == providers[b.leases[l].provider].payout
      amount == LeastOf(AccruedIn(b, l), b.credit[t])
  IN  [b EXCEPT !.credit = [b.credit EXCEPT ![t] = Minus(@, amount)],
                !.wallet = [b.wallet EXCEPT ![payout] = Plus(@, amount)],
                !.paid   = [b.paid EXCEPT ![l] = Plus(@, amount)]]

(* Count one active lease less and release its reservation. *)
ReleaseOne(account, lease) ==
  [account EXCEPT !.active = Monus(@, 1),
                  !.reserved = Minus(@, GetLeaseReservationAmount(lease))]

(* Settle, close and release. *)
CloseOne(b, l) ==
  LET t == b.leases[l].tenant
  IN  [SettleOne(b, l) EXCEPT
         !.leases   = [b.leases EXCEPT ![l] = Closed(@, ExhaustedIn(b, l))],
         !.accounts = [b.accounts EXCEPT ![t] = ReleaseOne(@, b.leases[l])]]

(* A lease that accrued nothing is passed over. *)
WithdrawOne(b, l) ==
  CASE ExhaustedIn(b, l) -> CloseOne(b, l)
    [] ~ExhaustedIn(b, l) /\ AccruedIn(b, l) = NoCoins -> b
    [] OTHER -> [SettleOne(b, l) EXCEPT
                   !.leases = [b.leases EXCEPT ![l] =
                     [b.leases[l] EXCEPT !.lastSettledAt = SettleTime(b.leases[l])]]]

(* The n-th lease of a batch in its order. *)
Turn(order, n) ==
  CHOOSE l \in DOMAIN order :
    Cardinality({m \in DOMAIN order : order[m] < order[l]}) = n - 1

(* The loops over the leases of a batch, in their order. *)
CloseLoop(order) ==
  LET loop[n \in 0 .. Cardinality(DOMAIN order)] ==
        IF n = 0 THEN Books ELSE CloseOne(loop[n - 1], Turn(order, n))
  IN  loop[Cardinality(DOMAIN order)]

WithdrawLoop(order) ==
  LET loop[n \in 0 .. Cardinality(DOMAIN order)] ==
        IF n = 0 THEN Books ELSE WithdrawOne(loop[n - 1], Turn(order, n))
  IN  loop[Cardinality(DOMAIN order)]

-----------------------------------------------------------------------------
(***************************************************************************)
(* A batch of CloseLease leaves the balances, the leases and the credit    *)
(* accounts that its loop leaves: a lease closed early in the batch takes  *)
(* the credit its successors do not get, in every order of the batch.      *)
(***************************************************************************)
CloseIsSequential ==
  [][\A S \in SUBSET (1 .. leaseSeq) : \A order \in Orders(S) :
       (\E sender \in Accounts : CloseLease(sender, order))
         => BooksAfter = CloseLoop(order)]_vars

(***************************************************************************)
(* So does a withdrawal, of named leases or of a whole provider: which     *)
(* leases it closes depends on what the earlier ones have left.            *)
(***************************************************************************)
WithdrawIsSequential ==
  [][\A p \in 1 .. providerSeq :
       /\ \A S \in SUBSET (1 .. leaseSeq) : \A order \in Orders(S) :
            (\E sender \in Accounts : withdrawFromLeases(sender, p, order))
              => BooksAfter = WithdrawLoop(order)
       /\ \A limit \in 0 .. MaxBatchLeaseSize :
            (\E sender \in Accounts : withdrawFromProvider(sender, p, limit))
              => BooksAfter = WithdrawLoop(CollectLeases(p, EffectiveWithdrawLimit(limit)))]_vars
=============================================================================
