-------------------------------- MODULE Sku --------------------------------
(***************************************************************************)
(* The catalogue kept by x/sku: providers and the SKUs they offer.         *)
(*                                                                         *)
(* A UUID is the position of the record in its table: UUIDs are generated  *)
(* from the block time and the module's sequence, so they sort in the      *)
(* order of creation, which is the order the indexes iterate in.           *)
(* providerSeq and skuSeq are the module's two sequences.  Names, hashes   *)
(* and URLs do not influence any later step and are left out.              *)
(***************************************************************************)
EXTENDS Coins, Sequences

CONSTANTS
  Accounts,                   \* addresses
  Authority,                  \* the module authority (the group policy)
  Prices,                     \* base price amounts a message may carry
  DefaultDeactivateSKULimit,  \* SKUs per cascade call when the limit is 0
  MaxDeactivateSKULimit,      \* greatest limit a message may carry
  MaxProviders, MaxSkus,      \* bounds of the model on the two tables
  GenesisProviders, GenesisSkus, GenesisSkuAllowed

VARIABLES providerSeq, providers, skuSeq, skus, skuAllowed

skuVars == <<providerSeq, providers, skuSeq, skus, skuAllowed>>

PriceUnits == {"hour", "day"}

Provider == [address : Accounts, payout : Accounts, active : BOOLEAN]

(* A SKU in a catalogue of n providers. *)
SKU(n) == [provider : 1 .. n, unit : PriceUnits, denom : Denoms,
           amount : Nat, active : BOOLEAN]

(* The table f with one more record, x, at position n. *)
Extend(f, n, x) == [i \in 1 .. n |-> IF i = n THEN x ELSE f[i]]

-----------------------------------------------------------------------------
(* Prices *)

divisorForUnit(unit) == IF unit = "hour" THEN 3600 ELSE 86400

(* Validate accepts a price only if the rate per second is exact and not 0. *)
ValidatePriceAndUnit(amount, unit) ==
  /\ amount \div divisorForUnit(unit) # 0
  /\ amount % divisorForUnit(unit) = 0

CalculatePricePerSecond(amount, unit) == amount \div divisorForUnit(unit)

RatePerSecond(sku) == CalculatePricePerSecond(sku.amount, sku.unit)

(* What Validate of the genesis state requires of the imported catalogue;  *)
(* the limits of a cascade are unsigned integers.                          *)
ASSUME SkuAssumption ==
  /\ Authority \in Accounts
  /\ Prices \subseteq Nat
  /\ DefaultDeactivateSKULimit \in Nat
  /\ GenesisProviders \in Seq(Provider)
  /\ GenesisSkus \in Seq(SKU(Len(GenesisProviders)))
  /\ \A s \in 1 .. Len(GenesisSkus) :
       ValidatePriceAndUnit(GenesisSkus[s].amount, GenesisSkus[s].unit)
  /\ GenesisSkuAllowed \in SUBSET Accounts

-----------------------------------------------------------------------------
(* Handlers of the message server *)

isAuthorizedSender(sender) == sender = Authority \/ sender \in skuAllowed

CreateProvider(sender, addr, payout) ==
  /\ isAuthorizedSender(sender)
  /\ providerSeq < MaxProviders
  /\ providerSeq' = providerSeq + 1
  /\ providers' = Extend(providers, providerSeq + 1,
                     [address |-> addr, payout |-> payout, active |-> TRUE])
  /\ UNCHANGED <<skuSeq, skus, skuAllowed>>

UpdateProvider(sender, p, addr, payout, active) ==
  /\ isAuthorizedSender(sender)
  /\ p \in 1 .. providerSeq
  /\ providers[p].active => active
  /\ providers' = [providers EXCEPT ![p] =
                     [address |-> addr, payout |-> payout, active |-> active]]
  /\ UNCHANGED <<providerSeq, skuSeq, skus, skuAllowed>>

ActiveSKUsByProvider(p) ==
  {s \in 1 .. skuSeq : skus[s].provider = p /\ skus[s].active}

(* Mutant: SKUs that are already inactive use up the limit. *)
IterateInactiveToo(p, limit) ==
  {s \in ActiveSKUsByProvider(p) :
     Cardinality({r \in 1 .. skuSeq : skus[r].provider = p /\ r < s}) < limit}

(* The SKUs one call reaches: the first `limit` of the active ones. *)
IterateActiveSKUsByProvider(p, limit) ==
  {s \in ActiveSKUsByProvider(p) :
     Cardinality({r \in ActiveSKUsByProvider(p) : r < s}) < limit}

EffectiveLimit(limit) == IF limit = 0 THEN DefaultDeactivateSKULimit ELSE limit

(* Mutant: the flag is set although the last SKU was reached. *)
HasMoreOffByOne(p, limit) ==
  Cardinality(ActiveSKUsByProvider(p)) >= EffectiveLimit(limit)

(* The has_more flag of the response. *)
HasMoreSKUs(p, limit) ==
  Cardinality(ActiveSKUsByProvider(p)) > EffectiveLimit(limit)

DeactivateProvider(sender, p, limit) ==
  /\ isAuthorizedSender(sender)
  /\ limit <= MaxDeactivateSKULimit
  /\ p \in 1 .. providerSeq
  /\ providers[p].active \/ ActiveSKUsByProvider(p) # {}
  /\ providers' = [providers EXCEPT ![p].active = FALSE]
  /\ LET batch == IterateActiveSKUsByProvider(p, EffectiveLimit(limit))
     IN  skus' = [s \in 1 .. skuSeq |->
                    IF s \in batch THEN [skus[s] EXCEPT !.active = FALSE]
                                   ELSE skus[s]]
  /\ UNCHANGED <<providerSeq, skuSeq, skuAllowed>>

(* Mutant: the price is not validated. *)
CreateUnpricedSKU(sender, p, unit, denom, amount) ==
  /\ isAuthorizedSender(sender)
  /\ p \in 1 .. providerSeq
  /\ providers[p].active
  /\ skuSeq < MaxSkus
  /\ skuSeq' = skuSeq + 1
  /\ skus' = Extend(skus, skuSeq + 1,
               [provider |-> p, unit |-> unit, denom |-> denom,
                amount |-> amount, active |-> TRUE])
  /\ UNCHANGED <<providerSeq, providers, skuAllowed>>

CreateSKU(sender, p, unit, denom, amount) ==
  /\ isAuthorizedSender(sender)
  /\ ValidatePriceAndUnit(amount, unit)
  /\ p \in 1 .. providerSeq
  /\ providers[p].active
  /\ skuSeq < MaxSkus
  /\ skuSeq' = skuSeq + 1
  /\ skus' = Extend(skus, skuSeq + 1,
               [provider |-> p, unit |-> unit, denom |-> denom,
                amount |-> amount, active |-> TRUE])
  /\ UNCHANGED <<providerSeq, providers, skuAllowed>>

(* Mutant: a SKU is reactivated whatever its provider's state. *)
UpdateIgnoresProvider(s, p, active) ==
  skus[s].provider = p /\ (skus[s].active => active)

(* The update keeps the provider, deactivates nothing, and reactivates a   *)
(* SKU only under an active provider.                                      *)
AcceptedUpdate(s, p, active) ==
  /\ skus[s].provider = p
  /\ skus[s].active => active
  /\ ~skus[s].active /\ active => providers[p].active

UpdateSKU(sender, s, p, unit, denom, amount, active) ==
  /\ isAuthorizedSender(sender)
  /\ ValidatePriceAndUnit(amount, unit)
  /\ s \in 1 .. skuSeq
  /\ AcceptedUpdate(s, p, active)
  /\ skus' = [skus EXCEPT ![s] =
                [provider |-> p, unit |-> unit, denom |-> denom,
                 amount |-> amount, active |-> active]]
  /\ UNCHANGED <<providerSeq, providers, skuSeq, skuAllowed>>

DeactivateSKU(sender, s) ==
  /\ isAuthorizedSender(sender)
  /\ s \in 1 .. skuSeq
  /\ skus[s].active
  /\ skus' = [skus EXCEPT ![s].active = FALSE]
  /\ UNCHANGED <<providerSeq, providers, skuSeq, skuAllowed>>

UpdateSkuParams(sender, allowed) ==
  /\ sender = Authority
  /\ skuAllowed' = allowed
  /\ UNCHANGED <<providerSeq, providers, skuSeq, skus>>

-----------------------------------------------------------------------------
SkuInit ==
  /\ providers = GenesisProviders
  /\ providerSeq = Len(GenesisProviders)
  /\ skus = GenesisSkus
  /\ skuSeq = Len(GenesisSkus)
  /\ skuAllowed = GenesisSkuAllowed

SkuNext ==
  \E sender \in Accounts :
    \/ \E addr, payout \in Accounts : CreateProvider(sender, addr, payout)
    \/ \E p \in 1 .. providerSeq, addr, payout \in Accounts, active \in BOOLEAN :
         UpdateProvider(sender, p, addr, payout, active)
    \/ \E p \in 1 .. providerSeq, limit \in 0 .. MaxDeactivateSKULimit :
         DeactivateProvider(sender, p, limit)
    \/ \E p \in 1 .. providerSeq, unit \in PriceUnits, denom \in Denoms,
          amount \in Prices : CreateSKU(sender, p, unit, denom, amount)
    \/ \E s \in 1 .. skuSeq, p \in 1 .. providerSeq, unit \in PriceUnits,
          denom \in Denoms, amount \in Prices, active \in BOOLEAN :
         UpdateSKU(sender, s, p, unit, denom, amount, active)
    \/ \E s \in 1 .. skuSeq : DeactivateSKU(sender, s)
    \/ \E allowed \in SUBSET Accounts : UpdateSkuParams(sender, allowed)

SkuSpec == SkuInit /\ [][SkuNext]_skuVars

(***************************************************************************)
(* A caller told has_more repeats the call (the comment on                 *)
(* DeactivateProvider asks for it): the authority does not stop halfway.   *)
(***************************************************************************)
CascadeRepeated ==
  \A p \in 1 .. MaxProviders :
    WF_skuVars(\E limit \in 0 .. MaxDeactivateSKULimit :
                 DeactivateProvider(Authority, p, limit))

SkuFairSpec == SkuSpec /\ CascadeRepeated

-----------------------------------------------------------------------------
(* Properties *)

(***************************************************************************)
(* Every record of the catalogue is well formed: a SKU belongs to an       *)
(* existing provider and its price is one the validation accepts.          *)
(***************************************************************************)
SkuTypeOK ==
  /\ providerSeq \in Nat
  /\ providers \in [1 .. providerSeq -> Provider]
  /\ skuSeq \in Nat
  /\ skus \in [1 .. skuSeq -> SKU(providerSeq)]
  /\ \A s \in 1 .. skuSeq : ValidatePriceAndUnit(skus[s].amount, skus[s].unit)
  /\ skuAllowed \in SUBSET Accounts

(***************************************************************************)
(* While a provider stays inactive none of its SKUs becomes active, so the *)
(* calls of one cascade (DeactivateProvider with has_more) only ever have  *)
(* less to do: neither CreateSKU nor UpdateSKU undoes their work.          *)
(***************************************************************************)
CascadeNeverUndone ==
  [][\A p \in 1 .. providerSeq :
       ~providers[p].active /\ ~providers'[p].active
         => ActiveSKUsByProvider(p)' \subseteq ActiveSKUsByProvider(p)]_skuVars

(***************************************************************************)
(* The response of DeactivateProvider is truthful: has_more is set exactly *)
(* if the provider still has active SKUs after the call.                   *)
(***************************************************************************)
HasMoreIsTruthful ==
  [][\A p \in 1 .. providerSeq, limit \in 0 .. MaxDeactivateSKULimit,
        sender \in Accounts :
       DeactivateProvider(sender, p, limit)
         => (HasMoreSKUs(p, limit) <=> ActiveSKUsByProvider(p)' # {})]_skuVars

(***************************************************************************)
(* Every call of DeactivateProvider does its share: it leaves no active    *)
(* SKU or exactly as many fewer as its limit says, however many SKUs were  *)
(* deactivated before, so that the number of calls is known beforehand.    *)
(***************************************************************************)
CascadeAdvances ==
  [][\A p \in 1 .. providerSeq, limit \in 0 .. MaxDeactivateSKULimit,
        sender \in Accounts :
       DeactivateProvider(sender, p, limit) /\ ActiveSKUsByProvider(p)' # {}
         => Cardinality(ActiveSKUsByProvider(p)') + EffectiveLimit(limit)
              = Cardinality(ActiveSKUsByProvider(p))]_skuVars

(***************************************************************************)
(* A cascade whose caller repeats the call while has_more is set comes to  *)
(* an end: the provider has no active SKU left, or was reactivated.        *)
(***************************************************************************)
CascadeCompletes ==
  \A p \in 1 .. MaxProviders :
    (p \in 1 .. providerSeq /\ ~providers[p].active)
      ~> (p \in 1 .. providerSeq /\
            (providers[p].active \/ ActiveSKUsByProvider(p) = {}))
=============================================================================
