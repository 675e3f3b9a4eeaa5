SPECIFICATION SkuFairSpec
CONSTANTS
  Denoms = {umfx}
  Accounts = {gov, alice}
  Authority = gov
  Prices = {3600, 5000}
  DefaultDeactivateSKULimit = 1
  MaxDeactivateSKULimit = 2
  MaxProviders = 2
  MaxSkus = 3
  GenesisProviders <- MCNoProviders
  GenesisSkus <- MCNoSkus
  GenesisSkuAllowed <- MCNoAllowed
INVARIANT SkuTypeOK
INVARIANT SkuRestartRestoresState
PROPERTY CascadeNeverUndone
PROPERTY HasMoreIsTruthful
PROPERTY CascadeAdvances
PROPERTY CascadeCompletes
