SPECIFICATION FixedCatalogueSpec
CONSTANTS
  gov = gov
  ann = ann
  bob = bob
  prov = prov
  umfx = umfx
  upwr = upwr
  Denoms = {umfx}
  Accounts = {gov, ann}
  Authority = gov
  Prices = {3600}
  DefaultDeactivateSKULimit = 1
  MaxDeactivateSKULimit = 1
  MaxProviders = 1
  MaxSkus = 1
  GenesisProviders <- AuthorityProvides
  GenesisSkus <- OneSku
  GenesisSkuAllowed <- NoAllowed
  Tenants = {ann}
  TicksPerSecond = 1
  MaxDurationSeconds = 1
  MinPendingTimeout = 1
  MaxBatchLeaseSize = 2
  DefaultProviderWithdrawLimit = 3
  MaxPendingLeaseExpirationsPerBlock = 1
  ReservableSuffixes = {}
  ParamChoices <- OnlyBriefParams
  FundAmounts = {}
  Quantities = {1}
  TimeSteps = {1, 2}
  MaxLeases = 3
  MaxTime = 2
  GenesisParams <- BriefParams
  GenesisWallets <- NobodyHas
  GenesisCredit <- Credit3
  GenesisAccounts = {ann}
  DefaultProviderWithdrawableQueryLimit = 2
  MaxProviderWithdrawableQueryLimit = 3
  MaxCreditEstimateLeases = 2
  PayoutAddresses = {}
  PayoutCoins = {}
  MaxSupply = 0
INVARIANT TypeOK
PROPERTY CloseIsSequential
PROPERTY WithdrawIsSequential
PROPERTY ImplementsLifecycle
