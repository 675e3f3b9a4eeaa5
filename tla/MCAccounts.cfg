SPECIFICATION FairSpec
CONSTANTS
  gov = gov
  ann = ann
  bob = bob
  prov = prov
  umfx = umfx
  upwr = upwr
  Denoms = {umfx}
  Accounts = {gov, ann, bob, prov}
  Authority = gov
  Prices = {3600}
  DefaultDeactivateSKULimit = 1
  MaxDeactivateSKULimit = 1
  MaxProviders = 1
  MaxSkus = 1
  GenesisProviders <- OneProvider
  GenesisSkus <- OneSku
  GenesisSkuAllowed <- NoAllowed
  Tenants = {ann}
  TicksPerSecond = 2
  MaxDurationSeconds = 100
  MinPendingTimeout = 1
  MaxBatchLeaseSize = 2
  DefaultProviderWithdrawLimit = 2
  MaxPendingLeaseExpirationsPerBlock = 1
  ReservableSuffixes = {}
  ParamChoices <- TwoParams
  FundAmounts = {1}
  Quantities = {1, 2}
  TimeSteps = {1, 3}
  MaxLeases = 2
  MaxTime = 4
  GenesisParams <- BaseParams
  GenesisWallets <- AnnHas1
  GenesisCredit <- Credit3
  GenesisAccounts = {}
  DefaultProviderWithdrawableQueryLimit = 2
  MaxProviderWithdrawableQueryLimit = 3
  MaxCreditEstimateLeases = 2
  PayoutAddresses = {}
  PayoutCoins = {}
  MaxSupply = 0
INVARIANT ReservationsMatch
INVARIANT CountsMatch
INVARIANT SettlementTimes
INVARIANT ChargesBounded
PROPERTY ExpiryInTurn
PROPERTY OverdueExpires
PROPERTY WithdrawableIsPaid
PROPERTY EstimateHolds
