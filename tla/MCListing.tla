----------------------------- MODULE MCListing -----------------------------
(***************************************************************************)
(* An instance of the ledger with a client that reads a listing.           *)
(***************************************************************************)
EXTENDS MCChain, Listing

Ask(by, of, state, limit, offset, reverse) ==
  [by |-> by, of |-> of, state |-> state, limit |-> limit, offset |-> offset,
   reverse |-> reverse]

Listings ==
  {Ask("tenant", ann, state, limit, 0, reverse) :
     state \in {"ANY", "PENDING", "ACTIVE"}, limit \in 1 .. 2, reverse \in BOOLEAN}
    \cup {Ask("sku", 1, state, 1, offset, FALSE) :
            state \in {"ANY", "PENDING", "ACTIVE"}, offset \in 0 .. 1}
    \cup {Ask("provider", 1, "PENDING", 1, 0, FALSE),
          Ask("all", 0, "PENDING", 1, 1, FALSE)}
=============================================================================
