------------------------------ MODULE Genesis ------------------------------
(***************************************************************************)
(* Export and import of the state of x/billing.  A chain is upgraded by    *)
(* exporting its state, validating the file and starting a new chain from  *)
(* it.  The file holds the parameters, the leases with the domains of      *)
(* their items, the credit accounts and the UUID sequence; the domain      *)
(* index is not in it and is built again by saving every lease.            *)
(*                                                                         *)
(* The x/sku state is imported before, and balances are the bank's: both   *)
(* are taken as they are.                                                  *)
(***************************************************************************)
EXTENDS Domains

CONSTANTS
  GenesisFiles,   \* the files the chain may have been started from
  GenesisTime     \* time of its first block

(***************************************************************************)
(* The shape of a file.  The sequence counts the leases there have been,   *)
(* and none is ever removed: a file that a chain has exported has them all.*)
(***************************************************************************)
WellFormed(g) ==
  /\ g.params \in Params
  /\ g.leases \in Seq([tenant : Tenants, provider : Nat, rates : AllCoins, minDur : Nat,
                       state : LeaseStates, createdAt : Nat, acknowledgedAt : Nat,
                       lastSettledAt : Nat, endedAt : Nat, exhausted : BOOLEAN])
  /\ DOMAIN g.claims = DOMAIN g.leases
  /\ \A l \in DOMAIN g.claims : IsFiniteSet(DOMAIN g.claims[l])
  /\ DOMAIN g.accounts \subseteq Tenants
  /\ \A t \in DOMAIN g.accounts : g.accounts[t] \in CreditAccount /\ g.accounts[t].exists
  /\ g.leaseSequence = Len(g.leases)

ASSUME GenesisAssumption ==
  /\ \A g \in GenesisFiles : WellFormed(g)
  /\ GenesisTime \in 0 .. MaxTime

(* Mutant: accounts without a live lease are left out. *)
ExportBusyAccounts ==
  [params |-> params, leases |-> leases, claims |-> claims,
   accounts |-> [t \in {x \in Tenants : LiveLeasesOf(x) # {}} |-> accounts[t]],
   leaseSequence |-> leaseSeq]

ExportGenesis ==
  [params |-> params, leases |-> leases, claims |-> claims,
   accounts |-> [t \in {x \in Tenants : accounts[x].exists} |-> accounts[t]],
   leaseSequence |-> leaseSeq]

-----------------------------------------------------------------------------
(* Validation *)

LeasesIn(g, t, states) ==
  {l \in DOMAIN g.leases : g.leases[l].tenant = t /\ g.leases[l].state \in states}

(* A lease without a minimum duration of its own is a legacy lease. *)
CalculateExpectedReservationsByTenant(g, t) ==
  LET S == LeasesIn(g, t, {"PENDING", "ACTIVE"})
  IN  SumCoins(S, [l \in S |->
        CalculateLeaseReservationFromRates(g.leases[l].rates,
          IF g.leases[l].minDur = 0 THEN g.params.minDur ELSE g.leases[l].minDur)])

(* What is left of the shape checks: identifiers, prices and quantities    *)
(* are valid by the type of a lease, and every claim is addressable.       *)
Validate(g) ==
  /\ ValidParams(g.params)
  /\ \A l \in DOMAIN g.leases : \A d \in CustomDomains :
       Carries(g.claims, l, d) # {} => ~MatchesReservedSuffix(d, g.params.reserved)
  /\ \A t \in DOMAIN g.accounts :
       /\ g.accounts[t].reserved = CalculateExpectedReservationsByTenant(g, t)
       /\ g.accounts[t].active = Cardinality(LeasesIn(g, t, {"ACTIVE"}))
       /\ g.accounts[t].pending = Cardinality(LeasesIn(g, t, {"PENDING"}))
  /\ \A t \in Tenants \ DOMAIN g.accounts :
       CalculateExpectedReservationsByTenant(g, t) = NoCoins
  /\ Len(g.leases) <= g.leaseSequence

ValidateWithBlockTime(g, time) ==
  \A l \in DOMAIN g.leases :
    /\ g.leases[l].lastSettledAt <= time
    /\ g.leases[l].createdAt <= time
    /\ g.leases[l].state = "CLOSED" => g.leases[l].endedAt <= time

-----------------------------------------------------------------------------
(* Import *)

(* The domains lease l claims when it is saved. *)
WantedBy(g, l) ==
  {d \in CustomDomains : Editable(g.leases[l]) /\ Carries(g.claims, l, d) # {}}

(* SetLease for a lease that was not there: it releases nothing. *)
ImportLease(g, b, l) ==
  [ok |-> /\ b.ok
          /\ g.leases[l].provider \in 1 .. providerSeq
          /\ \A d \in WantedBy(g, l) :
               Cardinality(Carries(g.claims, l, d)) = 1 /\ b.index[d] = NoTarget,
   index |-> [d \in CustomDomains |->
                IF d \in WantedBy(g, l)
                THEN <<l, CHOOSE s \in Carries(g.claims, l, d) : TRUE>>
                ELSE b.index[d]]]

ImportLeases(g) ==
  LET import[n \in 0 .. Len(g.leases)] ==
        IF n = 0 THEN [ok |-> TRUE, index |-> [d \in CustomDomains |-> NoTarget]]
                 ELSE ImportLease(g, import[n - 1], n)
  IN  import[Len(g.leases)]

NoAccount == [exists |-> FALSE, active |-> 0, pending |-> 0, reserved |-> NoCoins]

(* The state InitGenesis leaves, if no lease is refused. *)
InitGenesis(g) ==
  [params |-> g.params, leaseSeq |-> g.leaseSequence, leases |-> g.leases,
   claims |-> g.claims,
   accounts |-> [t \in Tenants |->
     IF t \in DOMAIN g.accounts THEN g.accounts[t] ELSE NoAccount],
   domainIndex |-> ImportLeases(g).index]

CurrentState ==
  [params |-> params, leaseSeq |-> leaseSeq, leases |-> leases, claims |-> claims,
   accounts |-> accounts, domainIndex |-> domainIndex]

GenesisInit ==
  /\ SkuInit
  /\ now = GenesisTime
  /\ credit = GenesisCredit /\ wallet = GenesisWallets
  /\ \E g \in GenesisFiles :
       /\ Validate(g) /\ ValidateWithBlockTime(g, GenesisTime) /\ ImportLeases(g).ok
       /\ params = InitGenesis(g).params
       /\ leaseSeq = InitGenesis(g).leaseSeq
       /\ leases = InitGenesis(g).leases
       /\ claims = InitGenesis(g).claims
       /\ accounts = InitGenesis(g).accounts
       /\ domainIndex = InitGenesis(g).domainIndex
       /\ paid = [l \in DOMAIN g.leases |-> NoCoins]

GenesisSpec == GenesisInit /\ [][DomainsNext]_<<vars, domainVars>>

-----------------------------------------------------------------------------
(***************************************************************************)
(* keeper/adversarial_state_test.go: "exporting genesis and re-importing   *)
(* it produces identical state".  The export of any state is accepted at   *)
(* the time of the block and brings every record back, the sequence that   *)
(* new UUIDs are made from, and the index that is not part of the file.    *)
(***************************************************************************)
RestartRestoresState ==
  /\ ValidateWithBlockTime(ExportGenesis, now)
  /\ ImportLeases(ExportGenesis).ok
  /\ InitGenesis(ExportGenesis) = CurrentState

CarriedDomains == {d \in CustomDomains :
                     \E l \in 1 .. leaseSeq : Carries(claims, l, d) # {}}

(***************************************************************************)
(* The export of a state passes the validation of genesis files, as long   *)
(* as no lease carries a domain that has been reserved since: the          *)
(* reservations and the lease counts of every account, kept step by step,  *)
(* are the ones the file's leases add up to.                               *)
(***************************************************************************)
ExportValidIfUnreserved ==
  (\A d \in CarriedDomains : ~MatchesReservedSuffix(d, params.reserved))
    => Validate(ExportGenesis)

(***************************************************************************)
(* keeper/adversarial_invariants_test.go:274, CheckGenesisRoundTrip-       *)
(* Invariant: the exported genesis is valid, in any state.                 *)
(***************************************************************************)
ExportValid == Validate(ExportGenesis)
=============================================================================
