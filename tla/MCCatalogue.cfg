SPECIFICATION Spec
CONSTANTS
  gov = gov
  ann = ann
  bob = bob
  prov = prov
  umfx = umfx
  upwr = upwr
  Denoms = {umfx}
  Accounts = {gov, ann, prov}
  Authority = gov
  Prices = {3600, 86400}
  DefaultDeactivateSKULimit = 1
  MaxDeactivateSKULimit = 1
  MaxProviders = 1
  MaxSkus = 1
  GenesisProviders <- OneProvider
  GenesisSkus <- OneSku
  GenesisSkuAllowed <- NoAllowed
  Tenants = {ann}
  TicksPerSecond = 1
  MaxDurationSeconds = 100
  MinPendingTimeout = 1
  MaxBatchLeaseSize = 2
  DefaultProviderWithdrawLimit = 2
  MaxPendingLeaseExpirationsPerBlock = 1
  ReservableSuffixes = {}
  ParamChoices <- OnlyBaseParams
  FundAmounts = {}
  Quantities = {1}
  TimeSteps = {1, 2}
  MaxLeases = 1
  MaxTime = 3
  GenesisParams <- BaseParams
  GenesisWallets <- NobodyHas
  GenesisCredit <- Credit4
  GenesisAccounts = {ann}
  DefaultProviderWithdrawableQueryLimit = 2
  MaxProviderWithdrawableQueryLimit = 3
  MaxCreditEstimateLeases = 2
  PayoutAddresses = {}
  PayoutCoins = {}
  MaxSupply = 0
INVARIANT TenantCanClose
PROPERTY ImplementsLifecycle
