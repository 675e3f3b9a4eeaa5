----------------------------- MODULE MCGenesis -----------------------------
(***************************************************************************)
(* Instances of the ledger that start from a genesis file.                 *)
(***************************************************************************)
EXTENDS MCChain, Genesis

(* Suffix zone covers shop; blog is under no suffix. *)
ShopInZone == [s \in {"zone"} |-> {"shop"}]

(* Two SKUs at the price of one. *)
TwoOffers == OneSku \o OneSku

TwoItems == ParamsOf(2, 2, 1, 1)
ZoneReserved == [TwoItems EXCEPT !.reserved = {"zone"}]
LongerTerm == ParamsOf(2, 2, 2, 1)

OpenOrReserved == {TwoItems, ZoneReserved}
OnlyReserved == {ZoneReserved}
OnlyLongerTerm == {LongerTerm}

GenesisLease(state, minDur, ended) ==
  [tenant |-> ann, provider |-> 1, rates |-> [d \in Denoms |-> 1],
   minDur |-> minDur, state |-> state, createdAt |-> 0, acknowledgedAt |-> 0,
   lastSettledAt |-> 0, endedAt |-> ended, exhausted |-> FALSE]

AccountWith(active, pending, reserved) ==
  [exists |-> TRUE, active |-> active, pending |-> pending,
   reserved |-> [d \in Denoms |-> reserved]]

(* A closed lease that still carries a domain, not settled up to its end. *)
ClosedLedger ==
  [params |-> TwoItems, leases |-> <<GenesisLease("CLOSED", 1, 1)>>,
   claims |-> <<[s \in {""} |-> "shop"]>>,
   accounts |-> [t \in {ann} |-> AccountWith(0, 0, 0)], leaseSequence |-> 1]

(* A running lease from before minimum durations were recorded. *)
LegacyLedger ==
  [params |-> TwoItems, leases |-> <<GenesisLease("ACTIVE", 0, 0)>>,
   claims |-> <<[s \in {""} |-> "shop"]>>,
   accounts |-> [t \in {ann} |-> AccountWith(1, 0, 1)], leaseSequence |-> 1]

EmptyLedger ==
  [params |-> TwoItems, leases |-> <<>>, claims |-> <<>>,
   accounts |-> [t \in {ann} |-> AccountWith(0, 0, 0)], leaseSequence |-> 0]

AllLedgers == {EmptyLedger, ClosedLedger, LegacyLedger}
OnlyLegacy == {LegacyLedger}
OnlyEmpty == {EmptyLedger}
=============================================================================
