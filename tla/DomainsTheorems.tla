-------------------------- MODULE DomainsTheorems --------------------------
(***************************************************************************)
(* Proofs about custom domains (module Domains) and about genesis files    *)
(* (module Genesis), for every ledger, every number of leases, services    *)
(* and domains and every reserved suffix: the index of domains holds the   *)
(* claims of the live leases, an import rebuilds it, and a restart from an *)
(* export gives back the state.                                            *)
(***************************************************************************)
EXTENDS Genesis, AccountTheorems

(* The provers get more time than by default. *)
USE SMTT(30), ZenonT(30)

(* The index is right, and every lease has an entry in claims. *)
DomainsInv ==
  /\ TypeOK
  /\ DOMAIN claims = 1 .. leaseSeq
  /\ IndexIsLiveClaims

(* What SetLease relies on: leases that are not saved stay as they are. *)
OnlySavedChange(S) ==
  /\ leaseSeq \in Nat /\ leaseSeq' \in Nat /\ leaseSeq <= leaseSeq'
  /\ S \subseteq 1 .. leaseSeq'
  /\ \A l \in (1 .. leaseSeq') \ S :
       /\ l \in 1 .. leaseSeq
       /\ leases'[l] = leases[l]
       /\ claims'[l] = claims[l]

(* An entry that leads to a lease that is not saved is kept. *)
LEMMA UnsavedKept ==
  ASSUME NEW S, NEW d, NEW l, NEW s, l \notin S, domainIndex[d] = <<l, s>>
  PROVE  Kept(S, d) = domainIndex[d]
BY DEF Kept

(* reconcileCustomDomainIndex restores the agreement of index and claims. *)
LEMMA ReconcileKeeps ==
  ASSUME NEW S, OnlySavedChange(S), DOMAIN claims = 1 .. leaseSeq,
         IndexIsLiveClaims, reconcileCustomDomainIndex(S)
  PROVE  IndexIsLiveClaims'
<1>1. ASSUME NEW d \in CustomDomains, domainIndex'[d] # NoTarget
      PROVE  \E l \in 1 .. leaseSeq' : \E s \in Carries(claims', l, d) :
               domainIndex'[d] = <<l, s>> /\ Editable(leases'[l])
  <2>1. CASE Claimants(S, d) = {}
    <3>1. domainIndex'[d] = Kept(S, d)
      BY <2>1 DEF reconcileCustomDomainIndex
    <3>2. Kept(S, d) = domainIndex[d]
      BY <3>1, <1>1 DEF Kept
    <3>3. PICK l \in 1 .. leaseSeq : \E s \in Carries(claims, l, d) :
                 domainIndex[d] = <<l, s>> /\ Editable(leases[l])
      BY <1>1, <3>1, <3>2 DEF IndexIsLiveClaims
    <3>4. PICK s \in Carries(claims, l, d) :
                 domainIndex[d] = <<l, s>> /\ Editable(leases[l])
      BY <3>3
    <3>5. CASE l \in S
      BY <3>1, <3>2, <3>4, <3>5, <1>1 DEF Kept, OnlySavedChange
    <3>6. CASE l \notin S
      BY <3>1, <3>2, <3>4, <3>6 DEF OnlySavedChange, Carries
    <3>7. QED
      BY <3>5, <3>6
  <2>2. CASE Claimants(S, d) # {}
    <3>1. domainIndex'[d] \in Claimants(S, d)
      BY <2>2 DEF reconcileCustomDomainIndex
    <3>2. QED
      BY ZenonT(30), <3>1 DEF Claimants, OnlySavedChange
  <2>3. QED
    BY <2>1, <2>2
<1>2. ASSUME NEW l \in 1 .. leaseSeq', NEW d \in CustomDomains,
             Editable(leases'[l]), NEW s \in Carries(claims', l, d)
      PROVE  domainIndex'[d] = <<l, s>>
  <2>1. CASE l \in S
    <3>1. <<l, s>> \in Claimants(S, d)
      BY <1>2, <2>1 DEF Claimants
    <3>2. Claimants(S, d) = {<<l, s>>}
      BY <3>1 DEF reconcileCustomDomainIndex
    <3>3. QED
      BY ZenonT(30), <3>2 DEF reconcileCustomDomainIndex
  <2>2. CASE l \notin S
    <3>1. l \in 1 .. leaseSeq /\ leases'[l] = leases[l] /\ claims'[l] = claims[l]
      BY <2>2 DEF OnlySavedChange
    <3>2. domainIndex[d] = <<l, s>>
      <4>1. s \in Carries(claims, l, d) /\ Editable(leases[l])
        BY <1>2, <3>1 DEF Carries
      <4>2. QED
        BY <3>1, <4>1 DEF IndexIsLiveClaims
    <3>3. Kept(S, d) = <<l, s>>
      BY ZenonT(30), <2>2, <3>2, UnsavedKept
    <3>4. Kept(S, d) # NoTarget
      <4>1. <<l, s>>[1] # 0
        BY <3>1 DEF OnlySavedChange
      <4>2. NoTarget[1] = 0
        BY DEF NoTarget
      <4>3. QED
        BY <3>3, <4>1, <4>2
    <3>5. \A c \in Claimants(S, d) : c # <<l, s>>
      BY <2>2 DEF Claimants
    <3>6. Claimants(S, d) = {}
      BY <3>3, <3>4, <3>5 DEF reconcileCustomDomainIndex
    <3>7. QED
      BY <3>3, <3>6 DEF reconcileCustomDomainIndex
  <2>3. QED
    BY <2>1, <2>2
<1>3. QED
  BY <1>1, <1>2 DEF IndexIsLiveClaims

-----------------------------------------------------------------------------
(* Steps of the ledger only add leases, one at a time. *)
LEMMA LeasesAreKept ==
  ASSUME BillingNext
  PROVE  leaseSeq' \in {leaseSeq, leaseSeq + 1}
<1>1. CASE CreditNext
  BY <1>1 DEF CreditNext, FundCredit, BankSend
<1>2. CASE CreationNext
  BY <1>2 DEF CreationNext, CreateLease, CreateLeaseForTenant, createLeaseInternal
<1>3. CASE PendingNext
  BY ZenonT(30), <1>3 DEF PendingNext, AcknowledgeLease, RejectLease, CancelLease
<1>4. CASE SettlementNext
  BY ZenonT(30), <1>4
  DEF SettlementNext, CloseLease, withdrawFromLeases, withdrawFromProvider,
              SettleAndClose
<1>5. CASE \E sender \in Accounts, p \in ParamChoices : UpdateParams(sender, p)
  BY <1>5 DEF UpdateParams
<1>6. CASE \E dt \in TimeSteps : NextBlock(dt)
  BY <1>6 DEF NextBlock
<1>7. QED
  BY <1>1, <1>2, <1>3, <1>4, <1>5, <1>6 DEF BillingNext

(* Leases a step of the ledger does not save are those it leaves alone. *)
LEMMA SavedAreAllThatChange ==
  ASSUME TypeOK, BillingNext, DOMAIN claims = 1 .. leaseSeq,
         \A l \in 1 .. leaseSeq : claims'[l] = claims[l]
  PROVE  OnlySavedChange(SavedLeases)
<1>1. leaseSeq \in Nat /\ leaseSeq' \in Nat /\ leaseSeq <= leaseSeq'
  BY LeasesAreKept DEF TypeOK
<1>2. QED
  BY <1>1 DEF OnlySavedChange, SavedLeases

(* Steps with custom domains are steps of the ledger or leave it alone. *)
LEMMA DomainsNextIsLedgerStep ==
  ASSUME [DomainsNext]_<<vars, domainVars>>
  PROVE  [FixedCatalogueNext]_vars
<1>1. CASE CreateWithServices /\ UNCHANGED skuVars
  <2>1. CreationNext
    BY <1>1 DEF CreateWithServices, CreationNext
  <2>2. QED
    BY <1>1, <2>1 DEF FixedCatalogueNext, BillingNext
<1>2. CASE LedgerStep /\ UNCHANGED skuVars
  BY <1>2 DEF LedgerStep, FixedCatalogueNext, BillingNext
<1>3. CASE DomainStep /\ UNCHANGED skuVars
  <2>1. UNCHANGED billingVars
    BY <1>3 DEF DomainStep, SetItemCustomDomain
  <2>2. QED
    BY <1>3, <2>1 DEF vars
<1>4. QED
  BY <1>1, <1>2, <1>3 DEF DomainsNext, vars

(* So they preserve what every step of the ledger preserves. *)
LEMMA DomainsTypeOK ==
  TypeOK /\ [DomainsNext]_<<vars, domainVars>> => TypeOK'
BY DomainsNextIsLedgerStep, NextTypeOK DEF FixedCatalogueNext, Next

-----------------------------------------------------------------------------
(* A new lease has no domain yet. *)
LEMMA CreateKeepsIndex ==
  ASSUME DomainsInv, CreateWithServices, TypeOK'
  PROVE  DomainsInv'
<1>1. PICK S : claims' = Extend(claims, leaseSeq + 1, [s \in S |-> NoDomain])
  BY DEF CreateWithServices
<1>2. reconcileCustomDomainIndex(SavedLeases)
  BY DEF CreateWithServices
<1>3. CreationNext
  BY DEF CreateWithServices, CreationNext
<1>4. leaseSeq \in Nat /\ leaseSeq' = leaseSeq + 1
  BY <1>3 DEF CreationNext, CreateLease, CreateLeaseForTenant, createLeaseInternal,
              DomainsInv, TypeOK
<1>5. /\ DOMAIN claims' = 1 .. leaseSeq'
      /\ \A l \in 1 .. leaseSeq : claims'[l] = claims[l]
  BY <1>1, <1>4 DEF Extend
<1>6. OnlySavedChange(SavedLeases)
  BY <1>3, <1>5, SavedAreAllThatChange DEF DomainsInv, BillingNext
<1>7. QED
  BY <1>2, <1>5, <1>6, ReconcileKeeps DEF DomainsInv

(* Leases that end release their domains, all others keep them. *)
LEMMA LedgerKeepsIndex ==
  ASSUME DomainsInv, LedgerStep, TypeOK'
  PROVE  DomainsInv'
<1>1. claims' = claims /\ reconcileCustomDomainIndex(SavedLeases)
  BY DEF LedgerStep
<1>2. BillingNext
  BY DEF LedgerStep, BillingNext
<1>3. leaseSeq' = leaseSeq
  BY ZenonT(30)
  DEF LedgerStep, CreditNext, FundCredit, BankSend, PendingNext, AcknowledgeLease,
         RejectLease, CancelLease, SettlementNext, CloseLease, withdrawFromLeases,
         withdrawFromProvider, SettleAndClose, UpdateParams, NextBlock
<1>4. OnlySavedChange(SavedLeases)
  BY <1>1, <1>2, SavedAreAllThatChange DEF DomainsInv
<1>5. QED
  BY <1>1, <1>3, <1>4, ReconcileKeeps DEF DomainsInv

(* A tenant sets or clears the domain of one item. *)
LEMMA SetDomainKeepsIndex ==
  ASSUME DomainsInv, DomainStep, TypeOK'
  PROVE  DomainsInv'
<1>1. PICK l \in 1 .. leaseSeq, d \in CustomDomains \cup {NoDomain} :
        /\ \E s \in DOMAIN claims[l] : claims' = [claims EXCEPT ![l][s] = d]
        /\ UNCHANGED billingVars
        /\ reconcileCustomDomainIndex({l})
  BY ZenonT(30) DEF DomainStep, SetItemCustomDomain
<1>2. leaseSeq \in Nat /\ leaseSeq' = leaseSeq /\ leases' = leases
  BY <1>1 DEF billingVars, DomainsInv, TypeOK
<1>3. /\ DOMAIN claims' = 1 .. leaseSeq'
      /\ \A m \in (1 .. leaseSeq) \ {l} : claims'[m] = claims[m]
  BY <1>1, <1>2 DEF DomainsInv
<1>4. OnlySavedChange({l})
  BY <1>2, <1>3 DEF OnlySavedChange
<1>5. QED
  BY <1>1, <1>3, <1>4, ReconcileKeeps DEF DomainsInv

(* The inductive step. *)
LEMMA NextDomainsInv ==
  DomainsInv /\ [DomainsNext]_<<vars, domainVars>> => DomainsInv'
<1> SUFFICES ASSUME DomainsInv, [DomainsNext]_<<vars, domainVars>>
             PROVE  DomainsInv'
  OBVIOUS
<1>1. TypeOK'
  BY DomainsTypeOK DEF DomainsInv
<1>2. CASE CreateWithServices
  BY <1>1, <1>2, CreateKeepsIndex
<1>3. CASE LedgerStep
  BY <1>1, <1>3, LedgerKeepsIndex
<1>4. CASE DomainStep
  BY <1>1, <1>4, SetDomainKeepsIndex
<1>5. CASE UNCHANGED <<vars, domainVars>>
  BY <1>1, <1>5 DEF DomainsInv, IndexIsLiveClaims, Editable, Carries, vars, billingVars,
                    domainVars
<1>6. QED
  BY <1>2, <1>3, <1>4, <1>5 DEF DomainsNext

(* A new ledger has no claims. *)
LEMMA InitDomainsInv == Init /\ DomainsInit => DomainsInv
<1> SUFFICES ASSUME Init, DomainsInit
             PROVE  DomainsInv
  OBVIOUS
<1>1. TypeOK
  BY InitTypeOK
<1>2. leaseSeq = 0 /\ 1 .. leaseSeq = {}
  BY DEF Init, BillingInit
<1>3. QED
  BY <1>1, <1>2 DEF DomainsInv, DomainsInit, IndexIsLiveClaims

(***************************************************************************)
(* In every ledger, the index of custom domains that SetLease keeps up to  *)
(* date lease by lease holds exactly the domains that live leases carry.   *)
(***************************************************************************)
THEOREM IndexAlwaysLiveClaims == DomainsSpec => []IndexIsLiveClaims
<1>1. DomainsInv => IndexIsLiveClaims
  BY DEF DomainsInv
<1>2. QED
  BY <1>1, InitDomainsInv, NextDomainsInv, PTL DEF DomainsSpec

(***************************************************************************)
(* Custom domains do not interfere with the ledger: what is proved of its  *)
(* specification holds of the ledger with custom domains as well.          *)
(***************************************************************************)
THEOREM DomainsImplementLedger == DomainsSpec => FixedCatalogueSpec
BY DomainsNextIsLedgerStep, PTL DEF DomainsSpec, FixedCatalogueSpec

-----------------------------------------------------------------------------
(* The loop of InitGenesis *)

NothingImported == [ok |-> TRUE, index |-> [d \in CustomDomains |-> NoTarget]]

(* What the loop has after each of the first k leases. *)
IsImport(g, f, k) ==
  f = [n \in 0 .. k |-> IF n = 0 THEN NothingImported ELSE ImportLease(g, f[n - 1], n)]

(* The loop can be run for any number of leases. *)
LEMMA ImportExists ==
  ASSUME NEW g, NEW k \in Nat
  PROVE  \E f : IsImport(g, f, k)
<1> DEFINE G == {n \in Nat : \E f : IsImport(g, f, n)}
<1>1. 0 \in G
  <2>1. IsImport(g, [n \in 0 .. 0 |-> NothingImported], 0)
    BY DEF IsImport
  <2>2. QED
    BY <2>1
<1>2. ASSUME NEW n \in Nat, n \in G PROVE n + 1 \in G
  <2>1. PICK f : IsImport(g, f, n)
    BY <1>2
  <2> DEFINE h == [m \in 0 .. n + 1 |-> IF m = n + 1 THEN ImportLease(g, f[n], n + 1)
                                                     ELSE f[m]]
  <2>2. ASSUME NEW m \in 0 .. n + 1
        PROVE  h[m] = IF m = 0 THEN NothingImported ELSE ImportLease(g, h[m - 1], m)
    <3>1. CASE m = n + 1
      <4>1. h[n] = f[n]
        BY <1>2
      <4>2. h[m] = ImportLease(g, f[n], n + 1)
        BY <3>1
      <4>3. m # 0 /\ m - 1 = n
        BY <1>2, <3>1
      <4>4. QED
        BY <3>1, <4>1, <4>2, <4>3
    <3>2. CASE m # n + 1
      <4>1. m \in 0 .. n /\ h[m] = f[m]
        BY <3>2
      <4>2. f[m] = IF m = 0 THEN NothingImported ELSE ImportLease(g, f[m - 1], m)
        BY <2>1, <4>1 DEF IsImport
      <4>3. m # 0 => h[m - 1] = f[m - 1]
        BY <4>1
      <4>4. QED
        BY <4>1, <4>2, <4>3
    <3>3. QED
      BY <3>1, <3>2
  <2>3. IsImport(g, h, n + 1)
    <3>1. h = [m \in 0 .. n + 1 |-> h[m]]
      OBVIOUS
    <3> HIDE DEF h
    <3>2. QED
      BY ZenonT(30), <2>2, <3>1 DEF IsImport
  <2>4. QED
    BY <2>3
<1> HIDE DEF G
<1>3. G = Nat
  BY ZenonT(30), <1>1, <1>2, SetOfNumbersInduction DEF G
<1>4. QED
  BY <1>3 DEF G

(* ImportLeases is the end of such a run. *)
LEMMA ImportRuns ==
  ASSUME NEW g, Len(g.leases) \in Nat
  PROVE  \E f : /\ ImportLeases(g) = f[Len(g.leases)]
                /\ f[0] = NothingImported
                /\ \A n \in 1 .. Len(g.leases) : f[n] = ImportLease(g, f[n - 1], n)
<1> DEFINE k == Len(g.leases)
           f == CHOOSE h : IsImport(g, h, k)
<1>1. IsImport(g, f, k)
  BY ImportExists
<1>2. ImportLeases(g) = f[k]
  BY DEF ImportLeases, IsImport, NothingImported
<1> HIDE DEF f
<1>3. /\ f[0] = NothingImported
      /\ \A n \in 1 .. k : f[n] = ImportLease(g, f[n - 1], n)
  <2> HIDE DEF k
  <2>1. k \in Nat
    BY DEF k
  <2>2. \A n \in 0 .. k :
          f[n] = IF n = 0 THEN NothingImported ELSE ImportLease(g, f[n - 1], n)
    <3> DEFINE F == [n \in 0 .. k |->
                       IF n = 0 THEN NothingImported ELSE ImportLease(g, f[n - 1], n)]
    <3>1. f = F
      BY ZenonT(30), <1>1 DEF IsImport
    <3>2. \A n \in 0 .. k :
            F[n] = IF n = 0 THEN NothingImported ELSE ImportLease(g, f[n - 1], n)
      OBVIOUS
    <3> HIDE DEF F
    <3>3. QED
      BY <3>1, <3>2
  <2>3. QED
    BY <2>1, <2>2
<1>4. QED
  BY <1>2, <1>3

(* What has been imported after n leases, none of them refused. *)
Imported(g, b, n) ==
  /\ b.index = [d \in CustomDomains |-> b.index[d]]
  /\ b.ok =>
       /\ \A l \in 1 .. n : g.leases[l].provider \in 1 .. providerSeq
       /\ \A d \in CustomDomains :
            b.index[d] # NoTarget =>
              \E l \in 1 .. n : \E s \in Carries(g.claims, l, d) :
                b.index[d] = <<l, s>> /\ Editable(g.leases[l])
       /\ \A l \in 1 .. n, d \in CustomDomains :
            Editable(g.leases[l]) =>
              \A s \in Carries(g.claims, l, d) : b.index[d] = <<l, s>>

(* No entry of the index is the one that stands for none. *)
LEMMA TargetOfLease ==
  ASSUME NEW l \in Nat, l # 0, NEW s
  PROVE  <<l, s>> # NoTarget
<1>1. <<l, s>>[1] # NoTarget[1]
  BY DEF NoTarget
<1>2. QED
  BY <1>1

(* One more lease. *)
LEMMA ImportOne ==
  ASSUME NEW g, NEW b, NEW n \in Nat, Imported(g, b, n),
         IsFiniteSet(DOMAIN g.claims[n + 1])
  PROVE  Imported(g, ImportLease(g, b, n + 1), n + 1)
<1> DEFINE c == ImportLease(g, b, n + 1)
           W == WantedBy(g, n + 1)
           target(d) == CHOOSE s \in Carries(g.claims, n + 1, d) : TRUE
<1>1. /\ c.ok <=> /\ b.ok
                  /\ g.leases[n + 1].provider \in 1 .. providerSeq
                  /\ \A d \in W : /\ Cardinality(Carries(g.claims, n + 1, d)) = 1
                                  /\ b.index[d] = NoTarget
      /\ c.index = [d \in CustomDomains |-> IF d \in W THEN <<n + 1, target(d)>>
                                                       ELSE b.index[d]]
  BY DEF ImportLease
<1>2. \A d \in CustomDomains :
        d \in W <=> Editable(g.leases[n + 1]) /\ Carries(g.claims, n + 1, d) # {}
  BY DEF WantedBy
<1>3. 1 .. n + 1 = (1 .. n) \cup {n + 1}
  OBVIOUS
<1>4. \A d \in W : target(d) \in Carries(g.claims, n + 1, d)
  BY <1>2 DEF WantedBy
<1> HIDE DEF c, W, target
<1>5. c.index = [d \in CustomDomains |-> c.index[d]]
  BY <1>1
<1>6. ASSUME c.ok
      PROVE  /\ \A l \in 1 .. n + 1 : g.leases[l].provider \in 1 .. providerSeq
             /\ \A d \in CustomDomains :
                  c.index[d] # NoTarget =>
                    \E l \in 1 .. n + 1 : \E s \in Carries(g.claims, l, d) :
                      c.index[d] = <<l, s>> /\ Editable(g.leases[l])
             /\ \A l \in 1 .. n + 1, d \in CustomDomains :
                  Editable(g.leases[l]) =>
                    \A s \in Carries(g.claims, l, d) : c.index[d] = <<l, s>>
  <2>1. \A l \in 1 .. n + 1 : g.leases[l].provider \in 1 .. providerSeq
    BY <1>1, <1>3, <1>6 DEF Imported
  <2>2. ASSUME NEW d \in CustomDomains, c.index[d] # NoTarget
        PROVE  \E l \in 1 .. n + 1 : \E s \in Carries(g.claims, l, d) :
                 c.index[d] = <<l, s>> /\ Editable(g.leases[l])
    <3>1. CASE d \in W
      BY <1>1, <1>2, <1>3, <1>4, <3>1
    <3>2. CASE d \notin W
      <4>1. c.index[d] = b.index[d]
        BY <1>1, <3>2
      <4>2. QED
        BY <1>1, <1>3, <1>6, <2>2, <4>1 DEF Imported
    <3>3. QED
      BY <3>1, <3>2
  <2>3. ASSUME NEW l \in 1 .. n + 1, NEW d \in CustomDomains, Editable(g.leases[l]),
               NEW s \in Carries(g.claims, l, d)
        PROVE  c.index[d] = <<l, s>>
    <3>1. CASE l = n + 1
      <4>1. d \in W
        BY <1>2, <2>3, <3>1
      <4>2. Cardinality(Carries(g.claims, n + 1, d)) = 1
        BY <1>1, <1>6, <4>1
      <4>3. target(d) = s
        <5>1. IsFiniteSet(Carries(g.claims, n + 1, d))
          BY FS_Subset DEF Carries
        <5>2. \E x : Carries(g.claims, n + 1, d) = {x}
          BY ZenonT(30), <4>2, <5>1, FS_Singleton
        <5>3. QED
          BY <1>4, <2>3, <3>1, <4>1, <5>2
      <4>4. QED
        BY <1>1, <3>1, <4>1, <4>3
    <3>2. CASE l # n + 1
      <4>1. l \in 1 .. n /\ b.ok
        BY <1>1, <1>6, <3>2
      <4>2. b.index[d] = <<l, s>>
        BY <2>3, <4>1 DEF Imported
      <4>3. d \notin W
        BY <1>1, <1>6, <4>1, <4>2, TargetOfLease
      <4>4. QED
        BY <1>1, <4>2, <4>3
    <3>3. QED
      BY <3>1, <3>2
  <2>4. QED
    BY <2>1, <2>2, <2>3
<1>7. QED
  BY <1>5, <1>6 DEF Imported, c

(* All of them. *)
LEMMA ImportAll ==
  ASSUME NEW g, Len(g.leases) \in Nat,
         \A l \in 1 .. Len(g.leases) : IsFiniteSet(DOMAIN g.claims[l])
  PROVE  Imported(g, ImportLeases(g), Len(g.leases))
<1> DEFINE k == Len(g.leases)
<1>1. PICK f : /\ ImportLeases(g) = f[k]
               /\ f[0] = NothingImported
               /\ \A n \in 1 .. k : f[n] = ImportLease(g, f[n - 1], n)
  BY ImportRuns
<1> DEFINE G == {n \in Nat : n <= k => Imported(g, f[n], n)}
<1>2. 0 \in G
  <2>1. Imported(g, NothingImported, 0)
    BY DEF Imported, NothingImported
  <2>2. QED
    BY <1>1, <2>1
<1>3. ASSUME NEW n \in G PROVE n + 1 \in G
  <2>1. ASSUME n + 1 <= k PROVE Imported(g, f[n + 1], n + 1)
    <3>1. n \in Nat /\ Imported(g, f[n], n)
      BY <1>3, <2>1
    <3>2. f[n + 1] = ImportLease(g, f[n], n + 1)
      <4>1. n + 1 \in 1 .. k /\ (n + 1) - 1 = n
        BY <2>1, <3>1
      <4>2. QED
        BY <1>1, <4>1
    <3>3. IsFiniteSet(DOMAIN g.claims[n + 1])
      BY <2>1, <3>1
    <3>4. QED
      BY <3>1, <3>2, <3>3, ImportOne
  <2>2. QED
    BY <1>3, <2>1
<1>4. G = Nat
  <2> HIDE DEF G
  <2>1. G \in SUBSET Nat
    BY DEF G
  <2>2. QED
    BY <1>2, <1>3, <2>1, SetOfNumbersInduction
<1>5. QED
  BY <1>1, <1>4

-----------------------------------------------------------------------------
(* The invariant of a chain started from a genesis file *)

NothingInFuture ==
  \A l \in 1 .. leaseSeq :
    /\ leases[l].lastSettledAt <= now
    /\ leases[l].createdAt <= now
    /\ leases[l].state = "CLOSED" => leases[l].endedAt <= now

(* The counts of an account that was not opened are zero. *)
OpenedOrNone == \A t \in Tenants : accounts[t].exists \/ accounts[t] = NoAccount

GenesisInv ==
  /\ DomainsInv
  /\ domainIndex = [d \in CustomDomains |-> domainIndex[d]]
  /\ now <= MaxTime
  /\ NothingInFuture
  /\ OpenedOrNone

(* It is what a valid file gives. *)
LEMMA InitGenesisInv == GenesisInit => GenesisInv
<1> SUFFICES ASSUME GenesisInit PROVE GenesisInv
  OBVIOUS
<1>1. PICK g \in GenesisFiles :
        /\ Validate(g) /\ ValidateWithBlockTime(g, GenesisTime) /\ ImportLeases(g).ok
        /\ params = g.params /\ leaseSeq = g.leaseSequence /\ leases = g.leases
        /\ claims = g.claims
        /\ accounts = [t \in Tenants |-> IF t \in DOMAIN g.accounts THEN g.accounts[t]
                                                                    ELSE NoAccount]
        /\ domainIndex = ImportLeases(g).index
        /\ paid = [l \in DOMAIN g.leases |-> NoCoins]
  BY DEF GenesisInit, InitGenesis
<1>2. /\ now = GenesisTime /\ credit = GenesisCredit /\ wallet = GenesisWallets
      /\ SkuTypeOK
  BY SkuInitTypeOK DEF GenesisInit
<1>3. WellFormed(g) /\ GenesisTime \in 0 .. MaxTime
  BY GenesisAssumption
<1>4. leaseSeq \in Nat /\ leaseSeq = Len(g.leases) /\ DOMAIN g.leases = 1 .. leaseSeq
  BY <1>1, <1>3 DEF WellFormed
<1>5. Imported(g, ImportLeases(g), leaseSeq)
  <2>1. \A l \in 1 .. leaseSeq : IsFiniteSet(DOMAIN g.claims[l])
    BY ZenonT(30), <1>3, <1>4 DEF WellFormed
  <2>2. QED
    BY <1>4, <2>1, ImportAll
<1>6. leases \in [1 .. leaseSeq -> Lease]
  <2>1. ASSUME NEW l \in 1 .. leaseSeq PROVE leases[l] \in Lease
    <3>1. leases[l].provider \in 1 .. providerSeq
      BY <1>1, <1>5 DEF Imported
    <3>2. leases[l] \in [tenant : Tenants, provider : Nat, rates : AllCoins, minDur : Nat,
                         state : LeaseStates, createdAt : Nat, acknowledgedAt : Nat,
                         lastSettledAt : Nat, endedAt : Nat, exhausted : BOOLEAN]
      <4>1. \A R : g.leases \in Seq(R) => g.leases[l] \in R
        BY <1>4
      <4>2. QED
        BY ZenonT(30), <1>1, <1>3, <4>1 DEF WellFormed
    <3>3. QED
      BY <3>1, <3>2 DEF Lease
  <2>2. leases = [l \in 1 .. leaseSeq |-> leases[l]]
    BY <1>1, <1>3, <1>4 DEF WellFormed
  <2>3. QED
    BY <2>1, <2>2
<1>7. accounts \in [Tenants -> CreditAccount] /\ OpenedOrNone
  <2>1. NoAccount \in CreditAccount
    BY DEF NoAccount, CreditAccount, AllCoins, NoCoins
  <2>2. QED
    BY <1>1, <1>3, <2>1 DEF WellFormed, OpenedOrNone
<1>8. TypeOK
  <2>1. NoCoins \in AllCoins
    BY DEF NoCoins, AllCoins
  <2>2. paid \in [1 .. leaseSeq -> AllCoins]
    BY <1>1, <1>4, <2>1
  <2>3. params \in Params /\ ValidParams(params)
    BY <1>1, <1>3 DEF WellFormed, Validate
  <2>4. now \in Nat
    BY <1>2, <1>3
  <2>5. QED
    BY <1>2, <1>4, <1>6, <1>7, <2>2, <2>3, <2>4, BillingAssumption DEF TypeOK
<1>9. DomainsInv
  BY ZenonT(30), <1>1, <1>3, <1>4, <1>5, <1>8
  DEF DomainsInv, WellFormed, Imported, IndexIsLiveClaims
<1>10. NothingInFuture /\ now <= MaxTime
  BY <1>1, <1>2, <1>3, <1>4, BillingAssumption
  DEF ValidateWithBlockTime, NothingInFuture
<1>11. QED
  BY <1>1, <1>5, <1>7, <1>9, <1>10 DEF GenesisInv, Imported

(* What every message does to the times of a lease. *)
TimesKept(l) ==
  /\ leases'[l].createdAt = leases[l].createdAt
  /\ leases'[l].lastSettledAt \in {leases[l].lastSettledAt, now, SettleTime(leases[l])}
  /\ leases'[l].state = "CLOSED" =>
       \/ leases[l].state = "CLOSED" /\ leases'[l].endedAt = leases[l].endedAt
       \/ leases'[l].endedAt = now

(* So no time is in the future. *)
LEMMA FutureStaysEmpty ==
  ASSUME TypeOK, TypeOK', NothingInFuture, leaseSeq' = leaseSeq, now <= now',
         \A l \in 1 .. leaseSeq : TimesKept(l)
  PROVE  NothingInFuture'
<1>1. ASSUME NEW l \in 1 .. leaseSeq
      PROVE  /\ leases'[l].lastSettledAt <= now'
             /\ leases'[l].createdAt <= now'
             /\ leases'[l].state = "CLOSED" => leases'[l].endedAt <= now'
  <2>1. leases[l] \in Lease /\ leases'[l] \in Lease' /\ now \in Nat /\ now' \in Nat
    BY DEF TypeOK
  <2>2. /\ leases[l].lastSettledAt \in Nat /\ leases[l].createdAt \in Nat
        /\ leases[l].endedAt \in Nat
    BY <2>1 DEF Lease
  <2>3. /\ leases[l].lastSettledAt <= now /\ leases[l].createdAt <= now
        /\ leases[l].state = "CLOSED" => leases[l].endedAt <= now
    BY DEF NothingInFuture
  <2>4. SettleTime(leases[l]) \in Nat /\ SettleTime(leases[l]) <= now
    BY <2>1, <2>2, <2>3 DEF SettleTime
  <2>5. QED
    BY <2>1, <2>2, <2>3, <2>4 DEF TimesKept
<1>2. QED
  BY <1>1 DEF NothingInFuture

(* The record of no account, field by field. *)
LEMMA SameAccount ==
  ASSUME NEW a \in CreditAccount, ~a.exists, a.active = 0, a.pending = 0,
         a.reserved = NoCoins
  PROVE  a = NoAccount
BY DEF CreditAccount, NoAccount

(* An account that was not opened has nothing to lose. *)
LEMMA NoneStaysNone ==
  ASSUME TypeOK, NEW t \in Tenants, accounts[t].exists \/ accounts[t] = NoAccount,
         NEW S \in SUBSET (1 .. leaseSeq)
  PROVE  /\ EndActive(accounts[t], S).exists \/ EndActive(accounts[t], S) = NoAccount
         /\ EndPending(accounts[t], S).exists \/ EndPending(accounts[t], S) = NoAccount
<1>1. Reservations(S) \in AllCoins /\ Cardinality(S) \in Nat
  BY LeaseSums, LeaseSetsFinite, FS_CardinalityType
<1>2. Monus(0, Cardinality(S)) = 0
  BY <1>1 DEF Monus
<1>3. Minus(NoCoins, Reservations(S)) = NoCoins
  BY <1>1 DEF Minus, NoCoins, Monus, AllCoins
<1>4. accounts[t] \in CreditAccount
  BY DEF TypeOK
<1>5. CASE accounts[t].exists
  BY <1>4, <1>5 DEF EndActive, EndPending, CreditAccount
<1>6. CASE accounts[t] = NoAccount
  <2> DEFINE e == EndActive(accounts[t], S)
             f == EndPending(accounts[t], S)
  <2>1. /\ ~accounts[t].exists /\ accounts[t].active = 0 /\ accounts[t].pending = 0
        /\ accounts[t].reserved = NoCoins
    BY <1>6 DEF NoAccount
  <2>2. /\ e \in CreditAccount /\ f \in CreditAccount
        /\ ~e.exists /\ e.active = 0 /\ e.pending = 0 /\ e.reserved = NoCoins
        /\ ~f.exists /\ f.active = 0 /\ f.pending = 0 /\ f.reserved = NoCoins
    BY ZenonT(30), <1>2, <1>3, <1>4, <2>1 DEF EndActive, EndPending, CreditAccount
  <2>3. QED
    BY <2>2, SameAccount
<1>7. QED
  BY <1>5, <1>6

(* Leases that leave PENDING for another state than ACTIVE. *)
LEMMA DropKeepsRecords ==
  ASSUME TypeOK, TypeOK', NothingInFuture, OpenedOrNone, NEW S \in SUBSET (1 .. leaseSeq),
         NEW state \in {"REJECTED", "EXPIRED"}, DropPending(S, state),
         leaseSeq' = leaseSeq, now <= now'
  PROVE  NothingInFuture' /\ OpenedOrNone'
<1>1. ASSUME NEW l \in 1 .. leaseSeq PROVE TimesKept(l)
  <2>1. leases[l] \in Lease
    BY DEF TypeOK
  <2>2. QED
    BY ZenonT(30), <2>1 DEF DropPending, TimesKept, Lease
<1>2. ASSUME NEW t \in Tenants PROVE accounts'[t].exists \/ accounts'[t] = NoAccount
  <2>1. S \cap LeasesOf(t) \in SUBSET (1 .. leaseSeq)
    BY ZenonT(30)
  <2>2. QED
    BY ZenonT(30), <2>1, NoneStaysNone DEF DropPending, OpenedOrNone
<1>3. QED
  BY <1>1, <1>2, FutureStaysEmpty DEF OpenedOrNone

(* Settlements. *)
LEMMA SettlementKeepsRecords ==
  ASSUME TypeOK, TypeOK', NothingInFuture, OpenedOrNone, SettlementNext
  PROVE  NothingInFuture' /\ OpenedOrNone' /\ now' = now
<1>1. ASSUME NEW C \in SUBSET (1 .. leaseSeq), UNCHANGED <<now, leaseSeq>>,
             accounts' = [t \in Tenants |-> EndActive(accounts[t], C \cap LeasesOf(t))],
             \A l \in 1 .. leaseSeq :
               \/ leases'[l] = leases[l]
               \/ \E exhausted \in BOOLEAN : leases'[l] = Closed(leases[l], exhausted)
               \/ leases'[l] = [leases[l] EXCEPT !.lastSettledAt = SettleTime(leases[l])]
      PROVE  NothingInFuture' /\ OpenedOrNone' /\ now' = now
  <2>1. ASSUME NEW l \in 1 .. leaseSeq PROVE TimesKept(l)
    <3>1. leases[l] \in Lease
      BY DEF TypeOK
    <3>2. QED
      BY ZenonT(30), <1>1, <3>1 DEF TimesKept, Closed, Lease
  <2>2. ASSUME NEW t \in Tenants PROVE accounts'[t].exists \/ accounts'[t] = NoAccount
    <3>1. C \cap LeasesOf(t) \in SUBSET (1 .. leaseSeq)
      BY ZenonT(30)
    <3>2. QED
      BY <1>1, <3>1, NoneStaysNone DEF OpenedOrNone
  <2>3. now <= now'
    BY <1>1 DEF TypeOK
  <2>4. QED
    BY <1>1, <2>1, <2>2, <2>3, FutureStaysEmpty DEF OpenedOrNone
<1>2. ASSUME NEW sender, NEW S \in SUBSET (1 .. leaseSeq), NEW order \in Orders(S),
             CloseLease(sender, order)
      PROVE  NothingInFuture' /\ OpenedOrNone' /\ now' = now
  <2>1. DOMAIN order \in SUBSET (1 .. leaseSeq)
    BY DEF Orders
  <2>2. \A l \in 1 .. leaseSeq : \/ leases'[l] = leases[l]
                                 \/ \E e \in BOOLEAN : leases'[l] = Closed(leases[l], e)
    <3>1. \A l : ShouldAutoCloseLease(order, l) \in BOOLEAN
      BY DEF ShouldAutoCloseLease
    <3>2. QED
      BY <1>2, <3>1 DEF CloseLease
  <2>3. QED
    BY ZenonT(30), <1>1, <1>2, <2>1, <2>2 DEF CloseLease
<1>3. ASSUME NEW order, DOMAIN order \in SUBSET (1 .. leaseSeq), NEW W,
             NEW C \in SUBSET DOMAIN order, SettleAndClose(order, C, W)
      PROVE  NothingInFuture' /\ OpenedOrNone' /\ now' = now
  <2>1. \A l \in 1 .. leaseSeq :
          \/ leases'[l] = leases[l]
          \/ \E e \in BOOLEAN : leases'[l] = Closed(leases[l], e)
          \/ leases'[l] = [leases[l] EXCEPT !.lastSettledAt = SettleTime(leases[l])]
    BY ZenonT(30), <1>3 DEF SettleAndClose
  <2>2. C \in SUBSET (1 .. leaseSeq)
    BY <1>3
  <2>3. QED
    BY ZenonT(30), <1>1, <1>3, <2>1, <2>2 DEF SettleAndClose
<1>4. ASSUME NEW sender, NEW S \in SUBSET (1 .. leaseSeq), NEW order \in Orders(S), NEW p,
             withdrawFromLeases(sender, p, order)
      PROVE  NothingInFuture' /\ OpenedOrNone' /\ now' = now
  <2>1. DOMAIN order \in SUBSET (1 .. leaseSeq)
    BY DEF Orders
  <2>2. QED
    BY <1>3, <1>4, <2>1 DEF withdrawFromLeases
<1>5. ASSUME NEW sender, NEW p, NEW limit, withdrawFromProvider(sender, p, limit)
      PROVE  NothingInFuture' /\ OpenedOrNone' /\ now' = now
  <2> DEFINE order == CollectLeases(p, EffectiveWithdrawLimit(limit))
  <2>1. DOMAIN order \in SUBSET (1 .. leaseSeq)
    BY DEF CollectLeases, WithdrawCandidates
  <2>2. \E C \in SUBSET DOMAIN order : \E W : SettleAndClose(order, C, W)
    BY <1>5 DEF withdrawFromProvider
  <2> HIDE DEF order
  <2>3. QED
    BY <1>3, <2>1, <2>2
<1>6. QED
  BY <1>2, <1>4, <1>5 DEF SettlementNext

(* Every message and every block. *)
LEMMA BillingKeepsRecords ==
  ASSUME TypeOK, TypeOK', now <= MaxTime, NothingInFuture, OpenedOrNone, BillingNext
  PROVE  now' <= MaxTime /\ NothingInFuture' /\ OpenedOrNone'
<1>1. now \in Nat /\ now' \in Nat /\ MaxTime \in Nat /\ leaseSeq \in Nat
  BY BillingAssumption DEF TypeOK
<1>2. CASE CreditNext
  <2>1. UNCHANGED <<now, leaseSeq, leases>>
    BY <1>2 DEF CreditNext, FundCredit, BankSend
  <2>2. OpenedOrNone'
    <3>1. PICK t \in Tenants : accounts' \in {accounts, [accounts EXCEPT ![t].exists = TRUE]}
      BY <1>2 DEF CreditNext, FundCredit, BankSend
    <3>2. \A x \in Tenants : accounts[x] \in CreditAccount
      BY DEF TypeOK
    <3>3. QED
      BY <3>1, <3>2 DEF OpenedOrNone, TypeOK, CreditAccount
  <2>3. QED
    BY <2>1, <2>2 DEF NothingInFuture
<1>3. CASE CreationNext
  <2>1. PICK t \in Tenants, p \in 1 .. providerSeq, n \in 1 .. params.maxItems :
          \E items \in [1 .. n -> Item] : createLeaseInternal(t, p, items)
    BY <1>3 DEF CreationNext, CreateLease, CreateLeaseForTenant
  <2>2. PICK items \in [1 .. n -> Item] : createLeaseInternal(t, p, items)
    BY <2>1
  <2>3. PICK rates, reservation :
          /\ accounts[t].exists /\ leaseSeq' = leaseSeq + 1 /\ now' = now
          /\ leases' = Extend(leases, leaseSeq + 1, NewLease(t, p, rates))
          /\ accounts' = [accounts EXCEPT ![t] = AddPending(accounts[t], reservation)]
    BY ZenonT(30), <2>2 DEF createLeaseInternal
  <2>4. NothingInFuture'
    <3>1. /\ \A l \in 1 .. leaseSeq : leases'[l] = leases[l]
          /\ leases'[leaseSeq + 1] = NewLease(t, p, rates)
          /\ 1 .. leaseSeq' = (1 .. leaseSeq) \cup {leaseSeq + 1}
      BY <1>1, <2>3 DEF Extend
    <3>2. /\ leases'[leaseSeq + 1].lastSettledAt = now
          /\ leases'[leaseSeq + 1].createdAt = now
          /\ leases'[leaseSeq + 1].state = "PENDING"
      BY <3>1 DEF NewLease
    <3>3. QED
      BY <1>1, <2>3, <3>1, <3>2 DEF NothingInFuture
  <2>5. OpenedOrNone'
    <3>1. accounts[t] \in CreditAccount
      BY DEF TypeOK
    <3>2. accounts'[t].exists
      BY <2>3, <3>1 DEF AddPending, TypeOK, CreditAccount
    <3>3. \A x \in Tenants \ {t} : accounts'[x] = accounts[x]
      BY <2>3 DEF TypeOK
    <3>4. QED
      BY <3>2, <3>3 DEF OpenedOrNone
  <2>6. QED
    BY <2>3, <2>4, <2>5
<1>4. CASE PendingNext
  <2>1. PICK S \in SUBSET (1 .. leaseSeq) :
          \/ \E sender \in Accounts, p \in 1 .. providerSeq :
               AcknowledgeLease(sender, p, S) \/ RejectLease(sender, p, S)
          \/ \E t \in Tenants : CancelLease(t, S)
    BY <1>4 DEF PendingNext
  <2>2. UNCHANGED <<now, leaseSeq>> /\ now <= now'
    <3>1. UNCHANGED <<now, leaseSeq>>
      BY ZenonT(30), <2>1 DEF AcknowledgeLease, RejectLease, CancelLease
    <3>2. QED
      BY <1>1, <3>1
  <2>3. CASE DropPending(S, "REJECTED")
    BY <2>2, <2>3, DropKeepsRecords
  <2>4. ASSUME NEW sender, NEW p, AcknowledgeLease(sender, p, S)
        PROVE  NothingInFuture' /\ OpenedOrNone'
    <3>1. ASSUME NEW l \in 1 .. leaseSeq PROVE TimesKept(l)
      <4>1. leases[l] \in Lease
        BY DEF TypeOK
      <4>2. l \in S => leases[l].state = "PENDING"
        BY ZenonT(30), <2>4 DEF AcknowledgeLease, validatePendingLeaseBatch
      <4>3. QED
        BY ZenonT(30), <2>4, <4>1, <4>2 DEF AcknowledgeLease, TimesKept, Lease
    <3>2. ASSUME NEW t \in Tenants PROVE accounts'[t].exists \/ accounts'[t] = NoAccount
      <4> DEFINE n == Cardinality(S \cap LeasesOf(t))
      <4>1. /\ accounts[t] \in CreditAccount
            /\ accounts'[t] = [accounts[t] EXCEPT !.pending = Monus(@, n), !.active = @ + n]
        BY ZenonT(30), <2>4 DEF AcknowledgeLease, TypeOK
      <4>2. CASE accounts[t].exists
        <5> HIDE DEF n
        <5>1. QED
          BY <4>1, <4>2 DEF CreditAccount
      <4>3. CASE ~accounts[t].exists
        <5>1. S \cap LeasesOf(t) = {}
          BY ZenonT(30), <2>4, <4>3
          DEF AcknowledgeLease, validatePendingLeaseBatch, LeasesOf
        <5>2. n = 0
          BY <5>1, FS_EmptySet
        <5>3. accounts[t] = NoAccount
          BY <4>3 DEF OpenedOrNone
        <5>4. /\ ~accounts[t].exists /\ accounts[t].active = 0 /\ accounts[t].pending = 0
              /\ accounts[t].reserved = NoCoins
          BY <5>3 DEF NoAccount
        <5> HIDE DEF n
        <5>5. /\ accounts'[t] \in CreditAccount /\ ~accounts'[t].exists
              /\ accounts'[t].active = 0 /\ accounts'[t].pending = 0
              /\ accounts'[t].reserved = NoCoins
          <6>1. accounts'[t] \in CreditAccount
            BY DEF TypeOK
          <6>2. Monus(accounts[t].pending, n) = 0 /\ accounts[t].active + n = 0
            BY <5>2, <5>4 DEF Monus
          <6>3. accounts'[t] = [accounts[t] EXCEPT !.pending = 0, !.active = 0]
            BY ZenonT(30), <4>1, <6>2
          <6>4. QED
            BY ZenonT(30), <4>1, <5>4, <6>1, <6>3 DEF CreditAccount
        <5>6. QED
          BY <5>5, SameAccount
      <4>4. QED
        BY <4>2, <4>3
    <3>3. QED
      BY <2>2, <3>1, <3>2, FutureStaysEmpty DEF OpenedOrNone
  <2>5. QED
    BY <2>1, <2>2, <2>3, <2>4 DEF RejectLease, CancelLease
<1>5. CASE SettlementNext
  BY <1>5, SettlementKeepsRecords
<1>6. CASE \E sender \in Accounts, p \in ParamChoices : UpdateParams(sender, p)
  BY <1>6 DEF UpdateParams, NothingInFuture, OpenedOrNone
<1>7. ASSUME NEW dt \in TimeSteps, NextBlock(dt)
      PROVE  now' <= MaxTime /\ NothingInFuture' /\ OpenedOrNone'
  <2> DEFINE S == {l \in ExpiringLeases : accounts[leases[l].tenant].exists}
  <2>1. now <= now' /\ now' <= MaxTime /\ leaseSeq' = leaseSeq
    BY <1>1, <1>7, BillingAssumption DEF NextBlock
  <2>2. S \in SUBSET (1 .. leaseSeq) /\ DropPending(S, "EXPIRED")
    BY <1>7 DEF NextBlock, ExpiringLeases
  <2> HIDE DEF S
  <2>3. QED
    BY <2>1, <2>2, DropKeepsRecords
<1>8. QED
  BY <1>2, <1>3, <1>4, <1>5, <1>6, <1>7 DEF BillingNext

(* The inductive step. *)
LEMMA NextGenesisInv ==
  GenesisInv /\ [DomainsNext]_<<vars, domainVars>> => GenesisInv'
<1> SUFFICES ASSUME GenesisInv, [DomainsNext]_<<vars, domainVars>>
             PROVE  GenesisInv'
  OBVIOUS
<1>1. DomainsInv /\ DomainsInv' /\ TypeOK /\ TypeOK'
  BY NextDomainsInv DEF GenesisInv, DomainsInv
<1>2. domainIndex' = [d \in CustomDomains |-> domainIndex'[d]]
  <2>1. ASSUME NEW S, reconcileCustomDomainIndex(S)
        PROVE  domainIndex' = [d \in CustomDomains |-> domainIndex'[d]]
    BY <2>1 DEF reconcileCustomDomainIndex
  <2>2. CASE UNCHANGED <<vars, domainVars>>
    BY <2>2 DEF GenesisInv, domainVars
  <2>3. CASE DomainsNext
    BY ZenonT(30), <2>1, <2>3
    DEF DomainsNext, CreateWithServices, LedgerStep, DomainStep,
                      SetItemCustomDomain
  <2>4. QED
    BY <2>2, <2>3
<1>3. now' <= MaxTime /\ NothingInFuture' /\ OpenedOrNone'
  <2>1. CASE UNCHANGED vars
    BY <2>1 DEF GenesisInv, NothingInFuture, OpenedOrNone, vars, billingVars
  <2>2. CASE BillingNext
    BY <1>1, <2>2, BillingKeepsRecords DEF GenesisInv
  <2>3. QED
    BY <2>1, <2>2, DomainsNextIsLedgerStep DEF FixedCatalogueNext
<1>4. QED
  BY <1>1, <1>2, <1>3 DEF GenesisInv

(* A ledger that starts empty is a special case. *)
LEMMA InitIsGenesis == Init /\ DomainsInit => GenesisInv
<1> SUFFICES ASSUME Init, DomainsInit PROVE GenesisInv
  OBVIOUS
<1>1. DomainsInv /\ now = 0 /\ leaseSeq = 0 /\ MaxTime \in Nat
  BY ZenonT(30), InitDomainsInv, BillingAssumption DEF Init, BillingInit
<1>2. domainIndex = [d \in CustomDomains |-> domainIndex[d]]
  BY DEF DomainsInit
<1>3. OpenedOrNone
  <2>1. ASSUME NEW t \in Tenants, ~accounts[t].exists PROVE accounts[t] = NoAccount
    <3>1. /\ accounts[t] \in CreditAccount
          /\ accounts[t].active = 0 /\ accounts[t].pending = 0
          /\ accounts[t].reserved = NoCoins
      BY <1>1 DEF DomainsInv, TypeOK, Init, BillingInit
    <3>2. QED
      BY <2>1, <3>1, SameAccount
  <2>2. QED
    BY <2>1 DEF OpenedOrNone
<1>4. QED
  BY <1>1, <1>2, <1>3 DEF GenesisInv, NothingInFuture

-----------------------------------------------------------------------------
(* The index is built again *)

(* After n leases the index has its entries for them. *)
Rebuilt(b, n) ==
  /\ b.ok
  /\ b.index = [d \in CustomDomains |->
                  IF domainIndex[d][1] \in 1 .. n THEN domainIndex[d] ELSE NoTarget]

(* One more lease. *)
LEMMA RebuildOne ==
  ASSUME GenesisInv, NEW b, NEW n \in Nat, n + 1 \in 1 .. leaseSeq, Rebuilt(b, n)
  PROVE  Rebuilt(ImportLease(ExportGenesis, b, n + 1), n + 1)
<1> DEFINE g == ExportGenesis
           c == ImportLease(g, b, n + 1)
           W == WantedBy(g, n + 1)
           target(d) == CHOOSE s \in Carries(claims, n + 1, d) : TRUE
<1>1. g.leases = leases /\ g.claims = claims
  BY DEF ExportGenesis
<1>2. /\ c.ok <=> /\ b.ok
                  /\ leases[n + 1].provider \in 1 .. providerSeq
                  /\ \A d \in W : /\ Cardinality(Carries(claims, n + 1, d)) = 1
                                  /\ b.index[d] = NoTarget
      /\ c.index = [d \in CustomDomains |-> IF d \in W THEN <<n + 1, target(d)>>
                                                       ELSE b.index[d]]
  BY <1>1 DEF ImportLease
<1>3. /\ W \in SUBSET CustomDomains
      /\ \A d \in CustomDomains :
           d \in W <=> Editable(leases[n + 1]) /\ Carries(claims, n + 1, d) # {}
  BY <1>1 DEF WantedBy
<1>4. ASSUME NEW d \in W
      PROVE  /\ Cardinality(Carries(claims, n + 1, d)) = 1
             /\ domainIndex[d] = <<n + 1, target(d)>>
  <2>1. \A s \in Carries(claims, n + 1, d) : domainIndex[d] = <<n + 1, s>>
    BY <1>3 DEF GenesisInv, DomainsInv, IndexIsLiveClaims
  <2>2. target(d) \in Carries(claims, n + 1, d)
    BY <1>3
  <2> HIDE DEF target
  <2>3. Carries(claims, n + 1, d) = {target(d)}
    BY <2>1, <2>2
  <2>4. QED
    BY ZenonT(30), <2>1, <2>2, <2>3, FS_Singleton
<1>5. ASSUME NEW d \in CustomDomains, domainIndex[d][1] = n + 1
      PROVE  d \in W
  <2>1. domainIndex[d] # NoTarget
    <3>1. NoTarget[1] = 0 /\ n + 1 # 0
      BY DEF NoTarget
    <3>2. QED
      BY <1>5, <3>1
  <2>2. PICK l \in 1 .. leaseSeq : \E s \in Carries(claims, l, d) :
               domainIndex[d] = <<l, s>> /\ Editable(leases[l])
    BY <2>1 DEF GenesisInv, DomainsInv, IndexIsLiveClaims
  <2>3. l = n + 1
    BY <1>5, <2>2
  <2>4. QED
    BY <1>3, <2>2, <2>3
<1>6. leases[n + 1].provider \in 1 .. providerSeq
  BY DEF GenesisInv, DomainsInv, TypeOK, Lease
<1> HIDE DEF W, target, g, c
<1>7. \A d \in W : domainIndex[d][1] = n + 1
  BY <1>4
<1>8. c.ok
  <2>1. \A d \in W : b.index[d] = NoTarget
    BY <1>3, <1>7 DEF Rebuilt
  <2>2. QED
    BY <1>2, <1>4, <1>6, <2>1 DEF Rebuilt
<1>9. ASSUME NEW d \in CustomDomains
      PROVE  c.index[d] = IF domainIndex[d][1] \in 1 .. n + 1 THEN domainIndex[d] ELSE NoTarget
  <2>1. CASE d \in W
    BY <1>2, <1>4, <1>7, <2>1
  <2>2. CASE d \notin W
    <3>1. c.index[d] = b.index[d] /\ domainIndex[d][1] # n + 1
      BY <1>2, <1>5, <2>2
    <3>2. domainIndex[d][1] \in 1 .. n + 1 <=> domainIndex[d][1] \in 1 .. n
      BY <3>1
    <3>3. QED
      BY <3>1, <3>2 DEF Rebuilt
  <2>3. QED
    BY <2>1, <2>2
<1>10. QED
  BY <1>2, <1>8, <1>9 DEF Rebuilt, c, g

(* All of them. *)
LEMMA RebuildAll ==
  ASSUME GenesisInv
  PROVE  ImportLeases(ExportGenesis).ok /\ ImportLeases(ExportGenesis).index = domainIndex
<1> DEFINE g == ExportGenesis
           k == leaseSeq
<1>1. k \in Nat /\ Len(g.leases) = k
  <2>1. leases \in [1 .. leaseSeq -> Lease] /\ leaseSeq \in Nat
    BY DEF GenesisInv, DomainsInv, TypeOK
  <2>2. Len(leases) = leaseSeq
    BY <2>1
  <2>3. QED
    BY <2>1, <2>2 DEF ExportGenesis
<1> HIDE DEF g
<1>2. PICK f : /\ ImportLeases(g) = f[k]
               /\ f[0] = NothingImported
               /\ \A n \in 1 .. k : f[n] = ImportLease(g, f[n - 1], n)
  BY <1>1, ImportRuns
<1> DEFINE G == {n \in Nat : n <= k => Rebuilt(f[n], n)}
<1>3. 0 \in G
  <2>1. Rebuilt(NothingImported, 0)
    BY DEF Rebuilt, NothingImported
  <2>2. QED
    BY <1>2, <2>1
<1>4. ASSUME NEW n \in G PROVE n + 1 \in G
  <2>1. ASSUME n + 1 <= k PROVE Rebuilt(f[n + 1], n + 1)
    <3>1. n \in Nat /\ Rebuilt(f[n], n) /\ n + 1 \in 1 .. k
      BY <1>1, <1>4, <2>1
    <3>2. f[n + 1] = ImportLease(g, f[n], n + 1)
      <4>1. (n + 1) - 1 = n
        BY <3>1
      <4>2. QED
        BY <1>2, <3>1, <4>1
    <3>3. QED
      BY <3>1, <3>2, RebuildOne DEF g
  <2>2. QED
    BY <1>4, <2>1
<1>5. G = Nat
  <2> HIDE DEF G
  <2>1. G \in SUBSET Nat
    BY DEF G
  <2>2. QED
    BY <1>3, <1>4, <2>1, SetOfNumbersInduction
<1>6. Rebuilt(ImportLeases(g), k)
  BY <1>1, <1>2, <1>5
<1>7. ASSUME NEW d \in CustomDomains, domainIndex[d][1] \notin 1 .. k
      PROVE  domainIndex[d] = NoTarget
  BY <1>7 DEF GenesisInv, DomainsInv, IndexIsLiveClaims
<1>8. ImportLeases(g).index = [d \in CustomDomains |-> domainIndex[d]]
  BY <1>6, <1>7 DEF Rebuilt
<1>9. domainIndex = [d \in CustomDomains |-> domainIndex[d]]
  BY DEF GenesisInv
<1>10. QED
  BY <1>6, <1>8, <1>9 DEF Rebuilt, g

(* The export of a state restores it. *)
LEMMA RestartRestores == GenesisInv => RestartRestoresState
<1> SUFFICES ASSUME GenesisInv PROVE RestartRestoresState
  OBVIOUS
<1> DEFINE g == ExportGenesis
<1>1. /\ g.params = params /\ g.leases = leases /\ g.claims = claims
      /\ g.leaseSequence = leaseSeq
      /\ g.accounts = [t \in {x \in Tenants : accounts[x].exists} |-> accounts[t]]
  BY DEF ExportGenesis
<1>2. ValidateWithBlockTime(g, now)
  BY <1>1 DEF GenesisInv, DomainsInv, TypeOK, NothingInFuture, ValidateWithBlockTime
<1>3. ImportLeases(g).ok /\ ImportLeases(g).index = domainIndex
  BY RebuildAll
<1>4. [t \in Tenants |-> IF t \in DOMAIN g.accounts THEN g.accounts[t] ELSE NoAccount]
        = accounts
  <2>1. \A t \in Tenants :
          (IF t \in DOMAIN g.accounts THEN g.accounts[t] ELSE NoAccount) = accounts[t]
    BY <1>1 DEF GenesisInv, OpenedOrNone
  <2>2. accounts = [t \in Tenants |-> accounts[t]]
    BY DEF GenesisInv, DomainsInv, TypeOK
  <2>3. QED
    BY <2>1, <2>2
<1> HIDE DEF g
<1>5. InitGenesis(g) = CurrentState
  BY ZenonT(30), <1>1, <1>3, <1>4 DEF InitGenesis, CurrentState
<1>6. QED
  BY <1>2, <1>3, <1>5 DEF RestartRestoresState, g

(***************************************************************************)
(* A chain started from any valid genesis file, with any leases, accounts  *)
(* and domains: at any block its export is accepted and restores every     *)
(* record and the index of custom domains, which is not part of the file.  *)
(***************************************************************************)
THEOREM RestartAlwaysRestores ==
  /\ GenesisSpec => []RestartRestoresState
  /\ DomainsSpec => []RestartRestoresState
<1>1. GenesisSpec => []RestartRestoresState
  BY InitGenesisInv, NextGenesisInv, RestartRestores, PTL DEF GenesisSpec
<1>2. DomainsSpec => []RestartRestoresState
  BY InitIsGenesis, NextGenesisInv, RestartRestores, PTL DEF DomainsSpec
<1>3. QED
  BY <1>1, <1>2

(***************************************************************************)
(* Saving the leases of any valid genesis file one by one leaves the right *)
(* index, and every later step keeps it.                                   *)
(***************************************************************************)
THEOREM ImportedIndexAlwaysLiveClaims == GenesisSpec => []IndexIsLiveClaims
<1>1. GenesisInv => IndexIsLiveClaims
  BY DEF GenesisInv, DomainsInv
<1>2. QED
  BY <1>1, InitGenesisInv, NextGenesisInv, PTL DEF GenesisSpec

-----------------------------------------------------------------------------
(* The export passes the validation *)

(* Exact accounts and unreserved domains are all that Validate asks for. *)
LEMMA ExportPasses ==
  AccountInv /\ DOMAIN claims = 1 .. leaseSeq => ExportValidIfUnreserved
<1> SUFFICES ASSUME AccountInv, DOMAIN claims = 1 .. leaseSeq,
                    \A d \in CarriedDomains : ~MatchesReservedSuffix(d, params.reserved)
             PROVE  Validate(ExportGenesis)
  BY DEF ExportValidIfUnreserved
<1> DEFINE g == ExportGenesis
<1>1. /\ g.params = params /\ g.leases = leases /\ g.claims = claims
      /\ g.leaseSequence = leaseSeq
      /\ g.accounts = [t \in {x \in Tenants : accounts[x].exists} |-> accounts[t]]
  BY DEF ExportGenesis
<1>2. /\ TypeOK /\ ReservationsMatch /\ CountsMatch
      /\ DOMAIN leases = 1 .. leaseSeq /\ leaseSeq \in Nat /\ Len(leases) = leaseSeq
  <2>1. TypeOK /\ ReservationsMatch /\ CountsMatch
    BY DEF AccountInv
  <2>2. leaseSeq \in Nat /\ leases \in [1 .. leaseSeq -> Lease]
    BY <2>1 DEF TypeOK
  <2>3. QED
    BY <2>1, <2>2
<1> HIDE DEF g
<1>3. \A t : /\ LeasesIn(g, t, {"PENDING", "ACTIVE"}) = LiveLeasesOf(t)
             /\ LeasesIn(g, t, {"PENDING"}) = InState(t, "PENDING")
             /\ LeasesIn(g, t, {"ACTIVE"}) = InState(t, "ACTIVE")
  BY <1>1, <1>2 DEF LeasesIn, LiveLeasesOf, InState, LeasesOf
<1>4. ASSUME NEW t \in Tenants
      PROVE  CalculateExpectedReservationsByTenant(g, t) = accounts[t].reserved
  <2>1. accounts[t].reserved = Reservations(LiveLeasesOf(t))
    BY <1>2 DEF ReservationsMatch
  <2>2. CalculateExpectedReservationsByTenant(g, t) = Reservations(LiveLeasesOf(t))
    BY <1>1, <1>3 DEF CalculateExpectedReservationsByTenant, Reservations,
                      GetLeaseReservationAmount
  <2>3. QED
    BY <2>1, <2>2
<1>5. ASSUME NEW t \in Tenants, ~accounts[t].exists
      PROVE  CalculateExpectedReservationsByTenant(g, t) = NoCoins
  <2>1. LiveLeasesOf(t) = {}
    BY <1>2, <1>5 DEF CountsMatch, LiveLeasesOf
  <2>2. CalculateExpectedReservationsByTenant(g, t) = SumCoins({}, [l \in {} |-> NoCoins])
    <3>1. \A F, G : [l \in {} |-> F[l]] = [l \in {} |-> G[l]]
      OBVIOUS
    <3>2. QED
      BY ZenonT(30), <1>3, <2>1, <3>1 DEF CalculateExpectedReservationsByTenant
  <2>3. QED
    BY <2>2, SumCoinsEmpty
<1>6. \A l \in DOMAIN g.leases : \A d \in CustomDomains :
        Carries(g.claims, l, d) # {} => ~MatchesReservedSuffix(d, g.params.reserved)
  BY <1>1, <1>2 DEF CarriedDomains
<1>7. ValidParams(g.params)
  BY <1>1, <1>2 DEF TypeOK
<1>8. \A t \in DOMAIN g.accounts :
        /\ g.accounts[t].reserved = CalculateExpectedReservationsByTenant(g, t)
        /\ g.accounts[t].active = Cardinality(LeasesIn(g, t, {"ACTIVE"}))
        /\ g.accounts[t].pending = Cardinality(LeasesIn(g, t, {"PENDING"}))
  BY <1>1, <1>2, <1>3, <1>4 DEF CountsMatch
<1>9. \A t \in Tenants \ DOMAIN g.accounts :
        CalculateExpectedReservationsByTenant(g, t) = NoCoins
  BY <1>1, <1>5
<1>10. Len(g.leases) <= g.leaseSequence
  BY <1>1, <1>2
<1>11. Validate(g)
  BY ZenonT(30), <1>6, <1>7, <1>8, <1>9, <1>10 DEF Validate
<1>12. QED
  BY <1>11 DEF g

(***************************************************************************)
(* For a ledger that started empty: the export of any state in which no    *)
(* lease carries a domain reserved since passes the validation of genesis  *)
(* files, whatever mixture of batches, expirations, auto-closes and        *)
(* parameter changes led to it.                                            *)
(***************************************************************************)
THEOREM ExportAlwaysValidIfUnreserved == DomainsSpec => []ExportValidIfUnreserved
<1>1. Init /\ DomainsInit => DomainsInv /\ AccountInv
  BY InitDomainsInv, InitAccountInv
<1>2. DomainsInv /\ AccountInv /\ [DomainsNext]_<<vars, domainVars>>
        => DomainsInv' /\ AccountInv'
  BY NextDomainsInv, NextAccountInv, DomainsNextIsLedgerStep
  DEF FixedCatalogueNext, Next
<1>3. DomainsInv /\ AccountInv => ExportValidIfUnreserved
  BY ExportPasses DEF DomainsInv
<1>4. QED
  BY <1>1, <1>2, <1>3, PTL DEF DomainsSpec

-----------------------------------------------------------------------------
(* Accounts that were imported *)

(***************************************************************************)
(* Every lease has a minimum duration of its own and a tenant with an      *)
(* account, as the leases of every exported state have.  Validate demands  *)
(* neither: it takes the minimum duration of the parameters for a legacy   *)
(* lease, which a change of the parameters then makes wrong, and it asks   *)
(* only for the reservations of a tenant without an account.               *)
(***************************************************************************)
OwnTerms ==
  \A l \in 1 .. leaseSeq : leases[l].minDur > 0 /\ accounts[leases[l].tenant].exists

(* A valid file with such leases has exact accounts. *)
LEMMA ValidFileIsExact == GenesisInit /\ OwnTerms => AccountInv
<1> SUFFICES ASSUME GenesisInit, OwnTerms PROVE AccountInv
  OBVIOUS
<1>1. PICK g \in GenesisFiles :
        /\ Validate(g)
        /\ params = g.params /\ leaseSeq = g.leaseSequence /\ leases = g.leases
        /\ accounts = [t \in Tenants |-> IF t \in DOMAIN g.accounts THEN g.accounts[t]
                                                                    ELSE NoAccount]
  BY DEF GenesisInit, InitGenesis
<1>2. TypeOK
  BY InitGenesisInv DEF GenesisInv, DomainsInv
<1>3. DOMAIN g.leases = 1 .. leaseSeq
  BY <1>1, <1>2 DEF TypeOK
<1>4. \A t : /\ LeasesIn(g, t, {"PENDING", "ACTIVE"}) = LiveLeasesOf(t)
             /\ LeasesIn(g, t, {"PENDING"}) = InState(t, "PENDING")
             /\ LeasesIn(g, t, {"ACTIVE"}) = InState(t, "ACTIVE")
  BY <1>1, <1>3 DEF LeasesIn, LiveLeasesOf, InState, LeasesOf
<1>5. \A t : CalculateExpectedReservationsByTenant(g, t) = Reservations(LiveLeasesOf(t))
  BY <1>1, <1>4 DEF CalculateExpectedReservationsByTenant, Reservations,
                    GetLeaseReservationAmount
<1>6. ASSUME NEW t \in Tenants
      PROVE  /\ accounts[t].reserved = Reservations(LiveLeasesOf(t))
             /\ accounts[t].active = Cardinality(InState(t, "ACTIVE"))
             /\ accounts[t].pending = Cardinality(InState(t, "PENDING"))
             /\ LeasesOf(t) # {} => accounts[t].exists
  <2>1. CASE t \in DOMAIN g.accounts
    <3>1. accounts[t] = g.accounts[t] /\ accounts[t].exists
      BY <1>1, <2>1, GenesisAssumption DEF WellFormed
    <3>2. QED
      BY ZenonT(30), <1>1, <1>4, <1>5, <2>1, <3>1 DEF Validate
  <2>2. CASE t \notin DOMAIN g.accounts
    <3>1. /\ accounts[t] = NoAccount /\ ~accounts[t].exists
          /\ CalculateExpectedReservationsByTenant(g, t) = NoCoins
      BY <1>1, <2>2 DEF NoAccount, Validate
    <3>2. LeasesOf(t) = {}
      BY <3>1 DEF OwnTerms, LeasesOf
    <3>3. InState(t, "ACTIVE") = {} /\ InState(t, "PENDING") = {}
      BY <3>2 DEF InState
    <3>4. Cardinality({}) = 0
      BY FS_EmptySet
    <3>5. QED
      BY <1>5, <3>1, <3>2, <3>3, <3>4 DEF NoAccount
  <2>3. QED
    BY <2>1, <2>2
<1>7. OwnMinDuration
  BY DEF OwnTerms, OwnMinDuration
<1>8. QED
  BY <1>2, <1>6, <1>7 DEF AccountInv, ReservationsMatch, CountsMatch

(***************************************************************************)
(* Validate is enough to start from: a chain imported from a valid file    *)
(* without legacy leases has exact reservations and lease counts, keeps    *)
(* them, and what it exports is such a file again.                         *)
(***************************************************************************)
THEOREM ImportedAccountsStayExact ==
  GenesisSpec /\ OwnTerms =>
    [](ReservationsMatch /\ CountsMatch /\ OwnTerms /\ ExportValidIfUnreserved)
<1>1. GenesisInit => DomainsInv
  BY InitGenesisInv DEF GenesisInv
<1>2. DomainsInv /\ AccountInv /\ [DomainsNext]_<<vars, domainVars>>
        => DomainsInv' /\ AccountInv'
  BY NextDomainsInv, NextAccountInv, DomainsNextIsLedgerStep
  DEF FixedCatalogueNext, Next
<1>3. DomainsInv /\ AccountInv =>
        ReservationsMatch /\ CountsMatch /\ ExportValidIfUnreserved
  BY ExportPasses DEF DomainsInv, AccountInv
<1>4. AccountInv => OwnTerms
  <2> SUFFICES ASSUME AccountInv, NEW l \in 1 .. leaseSeq
               PROVE  leases[l].minDur > 0 /\ accounts[leases[l].tenant].exists
    BY DEF OwnTerms
  <2>1. leases[l].tenant \in Tenants /\ l \in LeasesOf(leases[l].tenant)
    BY DEF AccountInv, TypeOK, Lease, LeasesOf
  <2>2. QED
    BY <2>1 DEF AccountInv, OwnMinDuration, CountsMatch
<1>5. QED
  BY <1>1, <1>2, <1>3, <1>4, ValidFileIsExact, PTL DEF GenesisSpec
=============================================================================
