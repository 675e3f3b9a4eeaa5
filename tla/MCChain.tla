------------------------------ MODULE MCChain ------------------------------
(***************************************************************************)
(* Instances of the ledger for model checking: the genesis states and the  *)
(* parameter sets the configurations choose from.                          *)
(***************************************************************************)
EXTENDS Batch, Queries, Manifest

CONSTANTS gov, ann, bob, prov, umfx, upwr

(* One provider; SKU 1 costs 1 umfx a second. *)
OneProvider == <<[address |-> prov, payout |-> prov, active |-> TRUE]>>

(* The provider is the authority itself: one sender less to try. *)
AuthorityProvides == <<[address |-> gov, payout |-> gov, active |-> TRUE]>>

OneSku == <<[provider |-> 1, unit |-> "hour", denom |-> umfx, amount |-> 3600,
             active |-> TRUE]>>

(* A second SKU, priced by the day in another denomination. *)
TwoSkus == OneSku \o <<[provider |-> 1, unit |-> "day", denom |-> upwr,
                        amount |-> 86400, active |-> TRUE]>>

NoAllowed == {}

(* Parameters. *)
ParamsOf(active, items, minDur, timeout) ==
  [maxLeases |-> active, maxItems |-> items, maxPending |-> 2,
   minDur |-> minDur, timeout |-> timeout, allowed |-> {},
   reserved |-> {}]

BaseParams == ParamsOf(2, 1, 2, 1)
BriefParams == ParamsOf(3, 1, 1, 1)
ShortParams == [ParamsOf(2, 1, 1, 2) EXCEPT !.allowed = {bob}]
ManyPending == [BriefParams EXCEPT !.maxPending = 3]
TwoItemParams == ParamsOf(2, 2, 1, 1)

OnlyBaseParams == {BaseParams}
OnlyBriefParams == {BriefParams}
OnlyManyPending == {ManyPending}
OnlyTwoItemParams == {TwoItemParams}
TwoParams == {BaseParams, ShortParams}

(* Balances: every tenant starts with n of everything in its credit. *)
CreditOf(n) == [t \in Tenants |-> [d \in Denoms |-> n]]

Credit2 == CreditOf(2)
Credit3 == CreditOf(3)
Credit4 == CreditOf(4)

UnequalCredit == [t \in Tenants |-> [d \in Denoms |-> IF t = ann THEN 2 ELSE 1]]

WalletsOf(a, n) == [x \in Accounts |-> [d \in Denoms |-> IF x = a THEN n ELSE 0]]

AnnHas1 == WalletsOf(ann, 1)
NobodyHas == WalletsOf(ann, 0)

(* A payout may go into a credit account or to the authority, or both. *)
CreditOrAuthority == {<<"credit", ann>>, <<"wallet", gov>>}
OneUmfx == {[denom |-> umfx, amount |-> 1]}
=============================================================================
