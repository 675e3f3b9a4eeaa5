----------------------------- MODULE SkuGenesis -----------------------------
(***************************************************************************)
(* Export and import of the catalogue.  The file holds the parameters, the *)
(* two tables and the two sequences from which the next UUIDs are made.    *)
(* Addresses, names and URLs are well formed by their sets, and records    *)
(* in the order of their UUIDs are different.                              *)
(***************************************************************************)
EXTENDS Sku

(* Mutant: only SKUs still on offer are exported. *)
ExportActiveSKUs ==
  [allowed |-> skuAllowed, providers |-> providers, providerSequence |-> providerSeq,
   skus |-> SelectSeq(skus, LAMBDA s : s.active), skuSequence |-> skuSeq]

ExportSkuGenesis ==
  [allowed |-> skuAllowed, providers |-> providers, providerSequence |-> providerSeq,
   skus |-> skus, skuSequence |-> skuSeq]

ValidateSkuGenesis(g) ==
  /\ \A s \in DOMAIN g.skus :
       /\ g.skus[s].provider \in DOMAIN g.providers
       /\ g.skus[s].unit \in PriceUnits
       /\ ValidatePriceAndUnit(g.skus[s].amount, g.skus[s].unit)
  /\ \A n \in DOMAIN g.providers : n <= g.providerSequence
  /\ \A n \in DOMAIN g.skus : n <= g.skuSequence

(* A sequence that is not set starts at 0, as does one that is set to 0. *)
InitSkuGenesis(g) ==
  <<g.providerSequence, g.providers, g.skuSequence, g.skus, g.allowed>>

-----------------------------------------------------------------------------
(***************************************************************************)
(* types/genesis.go: "a valid export always has sequence >= len(entities)".*)
(* In any state, halfway through a cascade included, the export of x/sku   *)
(* passes its own validation and InitGenesis restores every record, the    *)
(* inactive ones that old leases still refer to among them.                *)
(***************************************************************************)
SkuRestartRestoresState ==
  /\ ValidateSkuGenesis(ExportSkuGenesis)
  /\ InitSkuGenesis(ExportSkuGenesis) = skuVars
=============================================================================
