----------------------------- MODULE Manifest -----------------------------
(***************************************************************************)
(* x/manifest: the authority mints coins to any address, and burns coins   *)
(* it holds.  It has no state of its own: it changes the balances that     *)
(* x/billing settles from.                                                 *)
(***************************************************************************)
EXTENDS Chain

CONSTANTS
  PayoutAddresses, \* addresses that payouts may go to
  PayoutCoins,     \* coins that a payout pair or a burn may carry
  MaxSupply        \* bound of the model on what is in circulation

(* Credit addresses are ordinary addresses to the bank. *)
Addresses == ({"wallet"} \X Accounts) \cup ({"credit"} \X Tenants)

(* The bank keeps finitely many balances. *)
ASSUME ManifestAssumption ==
  /\ IsFiniteSet(Accounts)
  /\ PayoutAddresses \subseteq Addresses
  /\ PayoutCoins \subseteq [denom : Denoms, amount : Nat]
  /\ MaxSupply \in Nat

Single(coin) == [d \in Denoms |-> IF d = coin.denom THEN coin.amount ELSE 0]

PaidTo(pays, address) ==
  IF address \in DOMAIN pays THEN Single(pays[address]) ELSE NoCoins

TotalPayout(pays) ==
  SumCoins(DOMAIN pays, [a \in DOMAIN pays |-> PaidTo(pays, a)])

(* One pair of address and coin after the other; addresses are different. *)
Payout(sender, pays) ==
  /\ sender = Authority
  /\ DOMAIN pays # {}
  /\ \A a \in DOMAIN pays : pays[a].amount > 0
  /\ \A d \in Denoms : TotalSupply[d] + TotalPayout(pays)[d] <= MaxSupply
  /\ wallet' = [a \in Accounts |-> Plus(wallet[a], PaidTo(pays, <<"wallet", a>>))]
  /\ credit' = [t \in Tenants |-> Plus(credit[t], PaidTo(pays, <<"credit", t>>))]
  /\ UNCHANGED <<now, params, leaseSeq, leases, accounts, paid>>

BurnHeldBalance(sender, coins) ==
  /\ sender = Authority
  /\ coins # NoCoins
  /\ \A d \in Denoms : wallet[sender][d] >= coins[d]
  /\ wallet' = [wallet EXCEPT ![sender] = Minus(wallet[sender], coins)]
  /\ UNCHANGED <<now, params, leaseSeq, leases, accounts, credit, paid>>

(* The messages: each recipient once. *)
Payouts == UNION {[S -> PayoutCoins] : S \in SUBSET PayoutAddresses}

ManifestNext ==
  \/ \E sender \in Accounts, pays \in Payouts : Payout(sender, pays)
  \/ \E sender \in Accounts, coin \in PayoutCoins :
       BurnHeldBalance(sender, Single(coin))

LedgerNext ==
  /\ BillingNext \/ ManifestNext
  /\ UNCHANGED skuVars

LedgerSpec == Init /\ [][LedgerNext]_vars

-----------------------------------------------------------------------------
(***************************************************************************)
(* Coins come into being by a payout and go by a burn of the authority,    *)
(* by the amounts of the message; fundings and settlements, in whatever    *)
(* batches, move them and neither create nor destroy any.                  *)
(***************************************************************************)
SupplyAccounted ==
  [][\/ TotalSupply' = TotalSupply
     \/ \E pays \in Payouts :
          /\ Payout(Authority, pays)
          /\ TotalSupply' = Plus(TotalSupply, TotalPayout(pays))
     \/ \E coin \in PayoutCoins :
          /\ BurnHeldBalance(Authority, Single(coin))
          /\ TotalSupply = Plus(TotalSupply', Single(coin))]_vars
=============================================================================
