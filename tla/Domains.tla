------------------------------ MODULE Domains ------------------------------
(***************************************************************************)
(* Custom domains of x/billing.  A tenant may let a domain lead to an item *)
(* of a lease.  The domain is a field of the item, and an index from       *)
(* domains to items is kept beside the leases: every SetLease reconciles   *)
(* it with the items and the state of the lease it saves.  A lease that    *)
(* has ended keeps the field, for the record, and loses the index entry.   *)
(*                                                                         *)
(* An item is addressed by its service name.  A lease of one item may have *)
(* no names, then "" stands for the item; no item of an unnamed lease of   *)
(* several can be addressed.                                               *)
(***************************************************************************)
EXTENDS Chain

CONSTANTS
  ServiceNames,   \* service names that items may carry
  CustomDomains,  \* domains that may be claimed, in canonical form
  DomainsUnder    \* the domains that each reservable suffix covers

VARIABLES
  claims,       \* the domain of each addressable item, by lease and service
  domainIndex   \* CustomDomainIndex: the item each domain leads to

domainVars == <<claims, domainIndex>>

NoDomain == ""
NoTarget == <<0, "">>

ASSUME DomainsAssumption ==
  /\ ServiceNames \subseteq STRING /\ "" \notin ServiceNames
  /\ NoDomain \notin CustomDomains
  /\ DomainsUnder \in [ReservableSuffixes -> SUBSET CustomDomains]

Editable(lease) == lease.state \in {"PENDING", "ACTIVE"}

MatchesReservedSuffix(d, reserved) == \E s \in reserved : d \in DomainsUnder[s]

(* Items that carry domain d in lease l, under the claims c. *)
Carries(c, l, d) == {s \in DOMAIN c[l] : c[l][s] = d}

-----------------------------------------------------------------------------
(* Mutant: an entry is removed whoever it belongs to. *)
KeptUnlessDropped(S, d) ==
  IF \E l \in S \cap DOMAIN claims : \E s \in Carries(claims, l, d) :
       ~(Editable(leases'[l]) /\ s \in Carries(claims', l, d))
  THEN NoTarget ELSE domainIndex[d]

(* The entry of d after the leases S, as saved, have released theirs: only *)
(* an entry that still leads to the item that gives it up is removed.      *)
Kept(S, d) ==
  IF \E l \in S \cap DOMAIN claims : \E s \in Carries(claims, l, d) :
       /\ domainIndex[d] = <<l, s>>
       /\ ~(Editable(leases'[l]) /\ s \in Carries(claims', l, d))
  THEN NoTarget ELSE domainIndex[d]

(* The items of the saved leases S that want the entry of d. *)
Claimants(S, d) ==
  UNION {{<<l, s>> : s \in Carries(claims', l, d)} :
         l \in {m \in S : Editable(leases'[m])}}

(***************************************************************************)
(* The index part of SetLease, for all leases S that a message saves.  The *)
(* order does not matter: a lease that is saved releases its own entries   *)
(* only.  A claim to an entry of another item is an error.                 *)
(***************************************************************************)
reconcileCustomDomainIndex(S) ==
  /\ \A d \in CustomDomains : \A c \in Claimants(S, d) :
       Claimants(S, d) = {c} /\ Kept(S, d) \in {NoTarget, c}
  /\ domainIndex' = [d \in CustomDomains |->
       IF Claimants(S, d) = {} THEN Kept(S, d)
                               ELSE CHOOSE c \in Claimants(S, d) : TRUE]

(* The leases a step of the ledger saves. *)
SavedLeases ==
  {l \in 1 .. leaseSeq' : l > leaseSeq \/ leases'[l] # leases[l]}

-----------------------------------------------------------------------------
(* Service names are given to all items, all different, or to none; then   *)
(* the SKUs are different.                                                 *)
AddressableServices(n) ==
  {IF n = 1 THEN {""} ELSE {}} \cup {S \in SUBSET ServiceNames : Cardinality(S) = n}

CreateWithServices ==
  \E t \in Tenants, p \in 1 .. providerSeq, n \in 1 .. params.maxItems :
    \E items \in [1 .. n -> Item], S \in AddressableServices(n) :
      /\ \/ CreateLease(t, p, items)
         \/ \E sender \in Accounts : CreateLeaseForTenant(sender, t, p, items)
      /\ S = {} => \A i, j \in 1 .. n : items[i].sku = items[j].sku => i = j
      /\ claims' = Extend(claims, leaseSeq + 1, [s \in S |-> NoDomain])
      /\ reconcileCustomDomainIndex(SavedLeases)

(* All other steps of x/billing save leases whose items do not change. *)
LedgerStep ==
  /\ \/ CreditNext
     \/ PendingNext
     \/ SettlementNext
     \/ \E sender \in Accounts, p \in ParamChoices : UpdateParams(sender, p)
     \/ \E dt \in TimeSteps : NextBlock(dt)
  /\ claims' = claims
  /\ reconcileCustomDomainIndex(SavedLeases)

IsAuthorizedForTenant(sender, t) ==
  sender = t \/ sender = Authority \/ sender \in params.allowed

(* Setting the domain an item has already, or none where there is none, is *)
(* accepted and changes nothing.                                           *)
SetItemCustomDomain(sender, l, s, d) ==
  /\ IsAuthorizedForTenant(sender, leases[l].tenant)
  /\ Editable(leases[l])
  /\ s \in DOMAIN claims[l]
  /\ \/ d = NoDomain /\ claims[l][s] # NoDomain
     \/ /\ d # NoDomain
        /\ ~MatchesReservedSuffix(d, params.reserved)
        /\ domainIndex[d] = NoTarget
  /\ claims' = [claims EXCEPT ![l][s] = d]
  /\ UNCHANGED billingVars
  /\ reconcileCustomDomainIndex({l})

DomainStep ==
  \E sender \in Accounts, l \in 1 .. leaseSeq, d \in CustomDomains \cup {NoDomain} :
    \E s \in DOMAIN claims[l] : SetItemCustomDomain(sender, l, s, d)

DomainsInit ==
  /\ claims = <<>>
  /\ domainIndex = [d \in CustomDomains |-> NoTarget]

DomainsNext ==
  /\ CreateWithServices \/ LedgerStep \/ DomainStep
  /\ UNCHANGED skuVars

DomainsSpec == Init /\ DomainsInit /\ [][DomainsNext]_<<vars, domainVars>>

-----------------------------------------------------------------------------
(***************************************************************************)
(* The index that SetLease maintains step by step holds exactly the        *)
(* domains that items of live leases carry: a domain leads to at most one  *)
(* item, never to an ended lease, no live claim is missing, and a lease    *)
(* that is saved again after its end leaves the next owner's entry alone.  *)
(***************************************************************************)
IndexIsLiveClaims ==
  /\ \A d \in CustomDomains :
       domainIndex[d] # NoTarget =>
         \E l \in 1 .. leaseSeq : \E s \in Carries(claims, l, d) :
           domainIndex[d] = <<l, s>> /\ Editable(leases[l])
  /\ \A l \in 1 .. leaseSeq, d \in CustomDomains :
       Editable(leases[l]) =>
         \A s \in Carries(claims, l, d) : domainIndex[d] = <<l, s>>
=============================================================================
