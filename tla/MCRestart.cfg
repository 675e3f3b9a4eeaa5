SPECIFICATION GenesisSpec
CONSTANTS
  gov = gov
  ann = ann
  bob = bob
  prov = prov
  umfx = umfx
  upwr = upwr
  Denoms = {umfx}
  Accounts = {gov, ann}
  Authority = gov
  Prices = {3600}
  DefaultDeactivateSKULimit = 1
  MaxDeactivateSKULimit = 1
  MaxProviders = 1
  MaxSkus = 2
  GenesisProviders <- AuthorityProvides
  GenesisSkus <- TwoOffers
  GenesisSkuAllowed <- NoAllowed
  Tenants = {ann}
  TicksPerSecond = 1
  MaxDurationSeconds = 100
  MinPendingTimeout = 1
  MaxBatchLeaseSize = 2
  DefaultProviderWithdrawLimit = 2
  MaxPendingLeaseExpirationsPerBlock = 1
  ReservableSuffixes = {"zone"}
  ParamChoices <- OpenOrReserved
  FundAmounts = {}
  Quantities = {1}
  TimeSteps = {1}
  MaxLeases = 2
  MaxTime = 2
  GenesisParams <- TwoItems
  GenesisWallets <- NobodyHas
  GenesisCredit <- Credit2
  GenesisAccounts = {ann}
  DefaultProviderWithdrawableQueryLimit = 2
  MaxProviderWithdrawableQueryLimit = 3
  MaxCreditEstimateLeases = 2
  PayoutAddresses = {}
  PayoutCoins = {}
  MaxSupply = 0
  ServiceNames = {"web", "db"}
  CustomDomains = {"shop", "blog"}
  DomainsUnder <- ShopInZone
  GenesisFiles <- AllLedgers
  GenesisTime = 1
INVARIANT IndexIsLiveClaims
INVARIANT RestartRestoresState
INVARIANT ExportValidIfUnreserved
