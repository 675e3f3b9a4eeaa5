------------------------------- MODULE MCSku -------------------------------
(***************************************************************************)
(* Instances of Sku for model checking: an empty genesis.                  *)
(***************************************************************************)
EXTENDS SkuGenesis

MCNoProviders == <<>>
MCNoSkus == <<>>
MCNoAllowed == {}
=============================================================================
