SPECIFICATION Spec
CONSTANTS
  ValidAsset <- MCValidAsset
  ValidNonce <- MCValidNonce
  UnhashableNonce <- MCUnhashableNonce
  AmountOf <- MCAmountOf
  BigIntOnly <- MCBigIntOnly
  DoubleOf <- MCDoubleOf
  AccountOf <- MCAccountOf
  KeyNetworks = {"casper:test"}
  RpcNetworks = {"casper:test"}
  DefaultNetworks = {"casper:main", "casper:test"}
  Margin = 2
  MaxTime = 6
  Requests <- MCRequestsAltered
INVARIANT ValidHasASigner
