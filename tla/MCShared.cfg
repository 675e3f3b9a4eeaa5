SPECIFICATION LedgerSpec
CONSTANTS
  gov = gov
  ann = ann
  bob = bob
  prov = prov
  umfx = umfx
  upwr = upwr
  Denoms = {umfx, upwr}
  Accounts = {gov, ann, bob, prov}
  Authority = gov
  Prices = {3600}
  DefaultDeactivateSKULimit = 1
  MaxDeactivateSKULimit = 1
  MaxProviders = 1
  MaxSkus = 2
  GenesisProviders <- OneProvider
  GenesisSkus <- TwoSkus
  GenesisSkuAllowed <- NoAllowed
  Tenants = {ann, bob}
  TicksPerSecond = 1
  MaxDurationSeconds = 100
  MinPendingTimeout = 1
  MaxBatchLeaseSize = 2
  DefaultProviderWithdrawLimit = 2
  MaxPendingLeaseExpirationsPerBlock = 1
  ReservableSuffixes = {}
  ParamChoices <- OnlyTwoItemParams
  FundAmounts = {}
  Quantities = {1}
  TimeSteps = {1, 2}
  MaxLeases = 2
  MaxTime = 2
  GenesisParams <- TwoItemParams
  GenesisWallets <- NobodyHas
  GenesisCredit <- UnequalCredit
  GenesisAccounts = {ann, bob}
  DefaultProviderWithdrawableQueryLimit = 2
  MaxProviderWithdrawableQueryLimit = 3
  MaxCreditEstimateLeases = 2
  PayoutAddresses <- CreditOrAuthority
  PayoutCoins <- OneUmfx
  MaxSupply = 5
INVARIANT ReservationsCovered
INVARIANT ChargesExact
PROPERTY SupplyAccounted
