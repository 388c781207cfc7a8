SPECIFICATION Spec
CHECK_DEADLOCK FALSE
CONSTANTS
  ValidAsset <- MCValidAsset
  ValidNonce <- MCValidNonce
  UnhashableNonce <- MCUnhashableNonce
  AmountOf <- MCAmountOf
  BigIntOnly <- MCBigIntOnly
  DoubleOf <- MCDoubleOf
  AccountOf <- MCAccountOf
  TokenDomain <- MCTokenDomain
  KeyNetworks = {"casper:test"}
  RpcNetworks = {"casper:test"}
  DefaultNetworks = {"casper:main", "casper:test"}
  Margin = 1
  Backdate = 1
  PageWindow = 4
  Lags <- MCLags
  MaxTime = 6
  Keys = {"alice.key", "bob.key"}
  Challenges <- MCChallenges
  CasperNetworks <- MCCasperNetworks
INVARIANTS
  HonestPaymentIsAccepted
  
  SettlersAgree
