# A TLA+ verification of manifest-ledger

manifest-ledger is a Cosmos SDK chain on which tenants lease resources from
providers and pay for them by the second out of prepaid credit. This directory
models the part of it that holds other people's money: the catalogue (`x/sku`),
the billing module (`x/billing`) and the minting of coins (`x/manifest`). The
specifications are checked with TLC on small instances, and the properties that
matter most are proved with TLAPS for every instance.

## The system

| Part | Source | Module | State |
|---|---|---|---|
| SKU catalogue, its genesis | `x/sku/keeper`, `x/sku/types` | `Sku`, `SkuGenesis` | modelled |
| credit accounts, reservations | `x/billing/types/credit.go`, `keeper` | `Billing` | modelled |
| lease life cycle | `x/billing/keeper/msg_server.go` | `Billing`, `LeaseLifecycle` | modelled |
| accrual, settlement, automatic closing | `accrual.go`, `settlement.go`, `keeper.go` | `Billing`, `Batch` | modelled |
| withdrawal | `msg_server.go` | `Billing`, `Batch` | modelled |
| end blocker (expiry) | `keeper.go` | `Billing` | modelled |
| billing parameters | `params.go` | `Billing`, `Domains` | modelled |
| custom domains | `custom_domain.go`, `keeper.go` | `Domains` | modelled |
| billing genesis, migrations | `keeper.go`, `genesis.go`, `migrations.go` | `Genesis` | modelled |
| billing queries | `querier.go` | `Queries`, `Listing` | those that compute or list |
| pagination | `pkg/pagination` | `Listing` | modelled |
| SKU queries | `x/sku/keeper/querier.go` | `Listing` | partly: the same pagination |
| `x/manifest` (payout, burn) | `x/manifest` | `Manifest` | modelled |
| UUID generation | `pkg/uuid` | `Uuid` | modelled, the hash is any number |
| wiring, ante handlers, CLI, simulation, sanitising | `app`, `client`, `simulation`, `pkg/sanitize` | | not modelled |

A provider and its SKUs are registered in the catalogue by the authority (a group
policy) or by an allowed account. A tenant funds a *credit address* derived from
its own and creates a lease on SKUs of one provider; the price is locked and
`min_lease_duration` seconds of it are *reserved*. The provider acknowledges or
rejects the pending lease, or it expires. An active lease accrues by the second
and is settled when somebody touches it: on closing, on a withdrawal of named
leases, or on a withdrawal over all leases of a provider. A settlement that
exhausts the credit closes the lease. Items of a live lease may carry a custom
domain, and an index from domains to items is kept beside the leases. The
authority mints coins to any address, credit addresses among them, and burns what
it holds. The state of both modules can be exported, validated and imported by a
new chain.

## Modules

* `Coins`: amounts by denomination. A sum over a set is the cardinality of a set
  of units; sums of the library are recursive and could not be reasoned about.
* `Sku`: the catalogue. One action per message.
* `Billing`: leases, accounts, balances, blocks. One action per message and one
  for the end of a block.
* `Chain`: both together, the specifications and the properties.
* `LeaseLifecycle`: what billing promises about a lease, without accounts,
  reservations and batches; `Chain` is shown to implement it.
* `Batch`: the loops of the batch handlers, one lease at a time, against which the
  closed forms of `Billing` are checked.
* `Domains`: `SetItemCustomDomain`, and what every `SetLease` does to the domain
  index, around the messages of `Billing`.
* `Genesis`, `SkuGenesis`: export, validation and import. `Genesis` starts the
  ledger from a file.
* `Manifest`: payouts and burns beside the messages of `Billing`.
* `Queries`: the answers that are computed from the state.
* `Listing`: a client that reads a listing page by page beside the ledger.
* `Uuid`: the layout of identifiers.
* `MCSku`, `MCChain`, `MCGenesis`, `MCListing`: instances for TLC.
* The proofs: `CoinTheorems` (sums and ranks), `ChainTheorems` (the catalogue, and
  types), `AccountTheorems` (credit accounts), `MeterTheorems` (charges, and what
  settling a batch does), `RefinementTheorems` (`LeaseLifecycle` and the loops of
  `Batch`), `SettlementTheorems` (supply, reservations, expiry, limits), `DomainsTheorems`
  (domains and genesis files), `QueriesTheorems` (listings, identifiers, computed
  answers).

### How the state corresponds to the code

| Variable | Code |
|---|---|
| `providers`, `skus`, `providerSeq`, `skuSeq`, `skuAllowed` | `Providers`, `SKUs`, the two sequences, `Params.AllowedList` of `x/sku` |
| `leases`, `leaseSeq` | `Leases`, `LeaseSequence` |
| `accounts` | `CreditAccounts`; `exists` tells whether there is a record |
| `credit`, `wallet` | bank balances of credit addresses and of all other addresses |
| `params`, `now` | module parameters, block time |
| `paid` | history: what a lease has transferred so far; not in the code |
| `claims` | `CustomDomain` of the items of each lease, by service name |
| `domainIndex` | `CustomDomainIndex` |
| `query`, `nextKey`, `pages` | a client: what it asked for, the key and the pages it got |
| `steady`, `lost` | history for `ListingComplete`; not in the code |

What is abstracted:

* A record's UUID is its number in order of creation. UUIDv7s built from the
  block time and a sequence sort that way, and the indexes iterate in that order;
  `IdentifiersInOrder` and `IdentifiersDiffer` say when this is so.
* A lease keeps its total rate per denomination instead of its items.
* A handler either fails, and the transaction is rolled back, or succeeds; an
  action is a success, and its guard the conditions of success.
* `endedAt` is `ClosedAt`, `RejectedAt` or `ExpiredAt`, according to the state.
* A batch is a function `order` from its leases to numbers. Settling a batch has a
  closed form: lease `l` finds the balance less the demands of the leases before
  it. `Batch` writes the same as the loop of the code.
* A save of a lease that changes nothing, such as a settlement without any time
  to charge, reconciles nothing: in `Domains` the saved leases are those that are
  new or changed.
* Domains are in canonical form, and a suffix is the set of domains it covers.
* Names, URLs, hashes, events and log lines are left out.
* Payout addresses are not credit addresses: an address that is both would need a
  tenant whose derived address is registered as a payout address.
* An account that is missing for a lease is an error path in several handlers. It
  is a guard where a message fails and is not treated apart where a lease is
  skipped; `CountsMatch` shows that it does not occur.
* Negative amounts do not exist in `sdk.Coins`. Amounts are unbounded naturals:
  `math.Int` has 256 bits. The overflow the code handles, a duration beyond
  `MaxDurationSeconds`, is modelled.

## What is checked

Passing runs:

| Run | Question | Instance |
|---|---|---|
| `catalogue_cascade` | Does a paginated deactivation end, is it ever undone, and can the catalogue be restarted in the middle? | 2 providers, 3 SKUs, limits 0 to 2 |
| `accounts` | Do reservations, counts and charges stay exact, do overdue leases expire, and do the queries answer what settlements do? | 2 leases, 2 rates, half seconds, changing parameters, late funding, creation for a tenant |
| `shared_credit` | Are coins accounted for, reservations backed, and charges exact? | 2 tenants, 2 denominations, 2 items, payouts to credit addresses, burns |
| `changing_catalogue` | Does a lease depend on the catalogue of today? | 1 lease, everything in the catalogue changes |
| `batches` | Is the closed form of a batch the loop, also when accrual overflows? | 3 leases on one credit, longest duration 1 s |
| `restart` | Is the domain index exact, and is a restart from any state harmless? | 2 leases of up to 2 items, 2 domains, one reservable suffix, 3 genesis files |
| `listing` | Does a client that reads a changing listing miss a lease or see one twice? | 3 leases, listings by tenant and by SKU, in any and in one state, pages of 1 and 2, forward, reverse, with offset |

What the less obvious properties say:

* `CascadeAdvances`: a deactivation call that leaves active SKUs has deactivated
  exactly as many as its limit. SKUs that were inactive before do not count.
* `ExpiryInTurn`: nothing comes to stand before an overdue lease, and every block
  expires it or as many pending leases before it as one block may expire.
* `WithdrawableIsPaid`: the answer of the query is what the next settlement of that
  lease alone pays, and a bound on what it pays in any batch.
* `EstimateHolds`: before the estimated time no settlement exhausts a lease, and
  after it closing all leases exhausts one. Leases settled at different times are
  outside its statement: the query ignores what has accrued since.
* `ExportValidIfUnreserved`, `RestartRestoresState`: an export brings everything
  back, the domain index included, which is not in the file.
* `ListingComplete`: no lease twice, and none missing that was listed all the time,
  unless the key of a page has left the index.

Every property of these runs is also checked to fail on a mutated definition, a
plausible error in the code it models; the mutants stand before the definitions
they replace and say what they change.

Disagreements between the code and what is written about it, each shown by a run
in which the written statement is violated:

| Run | Written | The code |
|---|---|---|
| `minimum_duration` | `x/billing/types/credit.go:6` "sufficient credit is guaranteed for at least min_lease_duration seconds" | a lease that runs on uses the credit reserved for another |
| `withdraw_all` | `x/billing/docs/API.md:342` "Call repeatedly until `has_more` is false" | with more ACTIVE and CLOSED leases than the limit it stays true |
| `export_valid` | `adversarial_invariants_test.go:274` "exports genesis, validates it, and verifies the export is self-consistent" | a suffix reserved after a domain under it was claimed makes the export invalid |
| `legacy_reservations` | `x/billing/types/credit.go:11` "must always hold for each tenant" | a lease imported without a minimum duration is worth another amount when the parameter changes |
| `provider_withdrawable` | `query.proto:64` "total amount available for a provider to withdraw" | leases on one credit are each counted up to all of it |

Three more observations, plain enough from the code to need no run. The limit on
active leases is compared at creation only, so acknowledging pending leases may
exceed it (`types.proto:17` "maximum number of active leases a tenant can have");
`LiveLeasesAlwaysBounded`, below, says what the two limits do guarantee.
Between the calls of a cascade an inactive provider has active SKUs
(`x/billing/docs/ARCHITECTURE.md:911` "an inactive provider has no active SKUs").
And if the record that a page key names leaves an index by state before the next
page is asked for, that page is empty and has no further key.

`ReservationsCovered` states what the reservations do guarantee: as long as no
lease of a tenant has been charged beyond its own reservation, the credit covers
the rest of every live lease's reservation.

### Bounds

`MaxLeases`, `MaxProviders`, `MaxSkus` and `MaxTime` bound the tables and the
clock; the clock stops at `MaxTime` while blocks go on. Two leases on one credit
are enough for one to take what the other needs, three for a batch that leaves one
out, and for an expiry budget that is used up. Ticks are half seconds where
fractions matter: a settlement after one tick charges nothing and moves the
settlement time. The clock runs long enough for a lease to outlive its pending
timeout, its minimum duration and its credit. Constants of the code that are only
limits (`MaxBatchLeaseSize`, `MaxPendingLeaseExpirationsPerBlock`, the default
limits, `MaxDurationSeconds`) are constants of the model with values small enough
to be reached. A restart needs one ended and one live lease to tell an index entry
that was released from one that was taken over, and a second domain for two leases
to exchange. A listing needs three leases and pages of one, so that a lease before
the key, the key itself and one behind it can each leave between two pages.
`PayoutAddresses`, `PayoutCoins` and `MaxSupply` bound what is minted. No run uses
symmetry: leases and SKUs are ordered.

### Fairness

`FairSpec` assumes that blocks are produced: consensus runs the end blocker in
every block, whatever the users do. `SkuFairSpec` assumes that the caller of a
deactivation cascade repeats the call while there is something left, as the
comment on `DeactivateProvider` asks. `WithdrawingSpec`, used only to refute
`WithdrawTerminates`, assumes that a provider keeps calling the withdrawal. No
tenant and no provider is ever assumed to act otherwise.

## What is proved

The assumptions are what types and validation guarantee. `SkuAssumption` and
`BillingAssumption` say that the initial catalogue and the parameters are valid,
that the initial balances are not negative, and that durations, quantities and
limits are natural numbers (a second is at least one tick; a batch and the
expirations of a block are at least one lease, in the code 100 each). `ManifestAssumption`
adds that accounts are finitely many: a supply is a sum over them.
`DomainsAssumption` tells domains and service names from their absence.
`GenesisAssumption` says that the fields of a genesis file have their types and
that its lease sequence is the number of its leases, because the model numbers
leases in the order of creation. `ListingAssumption` says that limits and offsets
are natural numbers. No theorem bounds the number of tenants, leases, SKUs or
denominations, or the size of a batch; `MaxLeases` and its like may have any value.

| Theorem | For every instance |
|---|---|
| `SkuTypeCorrect`, `TypeCorrect` | every record stays well formed, every balance a natural number |
| `CascadeSafe` | a cascade is not undone while its provider is inactive |
| `HasMoreAlwaysTruthful` | `has_more` of a deactivation tells exactly whether active SKUs are left |
| `CascadeAlwaysAdvances` | a deactivation call leaves no active SKU, or as many fewer as its limit |
| `SkuRestartAlwaysRestores` | the export of a catalogue is valid and restores it |
| `ReservationsAlwaysMatch`, `CountsAlwaysMatch` | a credit account agrees with its leases |
| `SettlementTimesAlways`, `ChargesAlwaysBounded`, `ChargesAlwaysExact` | a lease is never charged for more than the time it was active, and exactly for it where there are no fractions of seconds |
| `LedgerImplementsLifecycle` | `Chain` implements `LeaseLifecycle` |
| `CloseAlwaysSequential`, `WithdrawAlwaysSequential` | the closed form of a batch is what the loops of the handlers compute |
| `SupplyAlwaysAccounted` | only payouts and burns change the supply, by their amounts |
| `ReservationsAlwaysCovered` | the credit covers what is left of the reservations, as long as no lease is charged beyond its own |
| `LedgerAlwaysSafe` | accounts, charges and coverage stay right while `x/manifest` mints and burns |
| `ExpiryAlwaysInTurn` | an overdue lease is never overtaken, and every block brings it nearer or expires it |
| `TenantAlwaysMayClose` | the conditions of `CloseLease` hold for every active lease and its tenant |
| `LiveLeasesAlwaysBounded` | a tenant has fewer live leases than the limits on active and on pending leases together |
| `WithdrawableAlwaysPaid`, `EstimateAlwaysHolds` | the two computed answers hold against the settlements that follow |
| `ListingAlwaysComplete` | a client reading page by page sees no lease twice and misses none that stays listed, unless the key of a page leaves the index |
| `IdentifiersDiffer`, `IdentifiersInOrder` | when generated UUIDs are different and in the order of creation |
| `IndexAlwaysLiveClaims`, `ImportedIndexAlwaysLiveClaims` | the domain index is exact, in a new ledger and after the import of any valid file |
| `DomainsImplementLedger` | the ledger with domains implements the ledger without, so that the theorems on `Spec` hold beside the domains |
| `RestartAlwaysRestores` | a valid export restores the state, the domain index included |
| `ExportAlwaysValidIfUnreserved` | in a ledger that starts empty, an export is valid unless a lease carries a domain that was reserved since |
| `ImportedAccountsStayExact` | so it is after the import of a valid file without legacy leases, whose accounts are exact and stay so |

### The arguments

*Accounts.* The inductive invariant is `AccountInv`: type correctness, the two
properties, and `OwnMinDuration`, that every lease records a positive duration of
its own. Without the latter the reservation of a lease would be computed from the
parameters of today, and a change of parameters would break the agreement: this is
what `legacy_reservations` shows for imported leases, and why the theorem is about a
ledger that starts without leases. The code subtracts with a stop at zero: only
because the account reserves at least what the ending leases reserve is the clamped
difference the exact one.

*Charges.* They rest on `MeterInv` (types, `SettlementTimes` and the bound on the
clock). `LeaseStep` lists what a step can do to one lease, whatever batch it is in:
nothing, acknowledgement, the end of a pending lease, a settlement, a settlement
that ends it. Each of these keeps the times in order, and adds to `paid` at most the
rate times the whole seconds that passed; the whole seconds of two consecutive
spans are never more than those of both together, so rounding down at every
settlement keeps the bound. The refinement of `LeaseLifecycle` uses the same list:
every lease's entry in the book moves by an abstract step, all in one.

*Batches.* `PartialBooks` gives the balances, leases and accounts in closed form
after a part of the batch. Nothing settled yet, it is the state the loop starts
from; all settled, it is the state after the action; and one round of the loop leads
from the part before a lease to the part with it. The last fact is where the code
could go wrong: the balance that lease finds is the credit less the *demands* of its
predecessors, stopped at zero, and paying the lesser of balance and demand leaves
the same again with its own demand added. The loops are recursive functions over
the number of rounds. That there is such a function, and that it agrees with
`PartialBooks`, follows by induction over the numbers of rounds as a set
(`SetOfNumbersInduction`), which the prover can use.

*Supply and reservations.* `TenantPays` sums the transfers of a batch: what leaves
the credit of a tenant is what its leases transfer, and grouped by payout address it
is what arrives (`SumByGroup`). `ReservationsCovered` is inductive together with
`AccountInv` and `MeterInv` (`CoverInv`). A settlement takes the same from the
credit and from what is left of the reservations, unless it is charged beyond its
reservation; an ending lease only lowers what has to be covered; and a creation is
admitted only if the credit exceeds what the account reserves, which by `AccountInv`
is what the live leases reserve.

`LedgerInv` puts these together with the properties of the charges for
`LedgerSpec`, in which the authority mints and burns: a payout or a burn touches no
lease and lowers no credit.

*Expiry.* The leases that a block expires are the overdue ones of lowest rank. If an
overdue lease is not among them, as many as the limit have a lower rank
(`FirstRanks`); they were created earlier and are pending until then. No step makes
an old lease pending again, and a new one comes last. The cascade of `x/sku` uses
the same lemma.

*Closing.* `TenantMayClose` is the guard of `CloseLease` for one lease: its tenant
has an account (`CountsMatch`), its settlement time is not ahead of the clock
(`SettlementTimes`), and the tenant always has a role.

*Limits.* A creation finds both counts below their limits and adds one pending
lease; an acknowledgement moves leases from one count to the other without any
comparison. So their sum is bounded and the count of active leases is not. The
limits are those of the latest creation: a lower limit set later ends no lease.

*Queries.* `WithdrawableAlwaysPaid` follows from the closed form of a batch: a
predecessor only lowers the balance that a lease finds. `EstimateAlwaysHolds` needs
`EstimateInv`: an active lease is not marked exhausted, and every lease has a
positive rate in some denomination, because every price is positive. Before the
estimate, the whole seconds times the sum of the rates stay below the credit. After
it, the leases settled together demand at least the credit of some denomination, so
that one of them finds a balance no larger than its accrual.

*Listings.* `ListingInv` says of the client that everything before the key that was
to be listed all the time has been read, and nothing from the key on. A page is the
leases of smallest rank behind the key; the lemmas on ranks in `CoinTheorems` (used
for the cascade of `x/sku` as well) say that a set with a limit below its size has a
lease of every smaller rank. The theorem takes the index of a SKU to hold every
lease, as `Listing` does.

*Domains and genesis files.* `DomainsInv` is the property and that every lease has
an entry in `claims`. `ReconcileKeeps` shows it for any set of saved leases in one
step: a saved lease releases an entry only if it still leads to the item that gives
it up, and takes one only if it is free or its own. The import saves the leases one
by one, and the index after `n` of them holds the claims of the live ones among
them, because a valid file has no domain twice; this is again an induction over the
number of leases saved. `GenesisInv` adds that no lease has a time in the future,
which `ValidateWithBlockTime` would refuse, and that an account that was not opened
is empty, which a restart needs because it is not in the file. `OwnTerms` is what a
file must have beyond being valid for its accounts to stay exact: leases with a
minimum duration of their own, and an account for the tenant of every lease, ended
ones included. Then `Validate` is `AccountInv` of the imported state, read
backwards; and by `AccountInv` every export has `OwnTerms` again.

### Only model-checked

* `OverdueExpires`, `CascadeCompletes` and the refuted `WithdrawTerminates`:
  liveness under fairness is beyond the prover. `ExpiryAlwaysInTurn` and
  `CascadeAlwaysAdvances` are the measures by which the first two descend; that
  blocks and calls go on to happen is the fairness TLC is given.
* `TenantCanClose`: `ENABLED` is beyond the prover. `TenantAlwaysMayClose` proves
  the conditions; the effects of `CloseLease` are assignments.
* `ExportValidIfUnreserved` for a ledger started from a file with legacy leases, as
  `restart` checks it while the minimum duration stays as it is. Their reservations
  change with the parameters (`legacy_reservations`).

## Not modelled

* The application (`app`), ante handlers and upgrades: wiring of SDK modules. What
  the modelled modules need of it is that transactions are atomic, that the end
  blocker runs in every block, and that `x/sku` is initialised before `x/billing`.
  `app/export.go` prepares staking and distribution for a restart at height zero
  and touches none of the modelled state.
* Command line, simulation and test helpers: they build the messages modelled here.
* Event attributes and their sanitising (`pkg/sanitize`): no state.
* Look-ups of one record, and `CreditAccount` and `Params` queries: they return a
  variable of the model as it is. The listings of `x/sku` go through the same
  pagination as those of leases.
* Generated code: the protobuf types, marshallers and gateways under `api/` and
  `*.pb.go` are about five sixths of the lines of the repository and have no
  behaviour of their own to specify. The definitions here cover more than a
  quarter of the code that was written by hand, and every message handler of the
  three modules; the share of all lines is necessarily small.
