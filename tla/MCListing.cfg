SPECIFICATION ListingSpec
CONSTANTS
  gov = gov
  ann = ann
  bob = bob
  prov = prov
  umfx = umfx
  upwr = upwr
  Denoms = {umfx}
  Accounts = {gov, ann}
  Authority = gov
  Prices = {3600}
  DefaultDeactivateSKULimit = 1
  MaxDeactivateSKULimit = 1
  MaxProviders = 1
  MaxSkus = 1
  GenesisProviders <- AuthorityProvides
  GenesisSkus <- OneSku
  GenesisSkuAllowed <- NoAllowed
  Tenants = {ann}
  TicksPerSecond = 1
  MaxDurationSeconds = 100
  MinPendingTimeout = 1
  MaxBatchLeaseSize = 2
  DefaultProviderWithdrawLimit = 2
  MaxPendingLeaseExpirationsPerBlock = 1
  ReservableSuffixes = {}
  ParamChoices <- OnlyManyPending
  FundAmounts = {}
  Quantities = {1}
  TimeSteps = {1}
  MaxLeases = 3
  MaxTime = 1
  GenesisParams <- ManyPending
  GenesisWallets <- NobodyHas
  GenesisCredit <- Credit3
  GenesisAccounts = {ann}
  DefaultProviderWithdrawableQueryLimit = 2
  MaxProviderWithdrawableQueryLimit = 3
  MaxCreditEstimateLeases = 2
  PayoutAddresses = {}
  PayoutCoins = {}
  MaxSupply = 0
  ListingQueries <- Listings
INVARIANT ListingComplete
