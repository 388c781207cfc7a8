SPECIFICATION PairSpec
CONSTANTS
  ValidAsset <- MCValidAsset
  ValidNonce <- MCValidNonce
  UnhashableNonce <- MCUnhashableNonce
  AmountOf <- MCAmountOf
  BigIntOnly <- MCBigIntOnly
  DoubleOf <- MCDoubleOf
  AccountOf <- MCAccountOf
  TokenDomain <- MCTokenDomain
  KeyNetworks = {"casper:test"}
  RpcNetworks = {"casper:test"}
  DefaultNetworks = {"casper:main", "casper:test"}
  Margin = 1
  TTL = 2
  MaxTime = 3
  GoCalls = {g1}
  JsCalls = {j1}
  Requests <- MCRequestsFew
  Millis = {0}
  RequestTimeout = 2
  WaitTimeout = 2
  NoTx = NoTx
  NoRequest = NoRequest
PROPERTIES
  EveryCallAnswered
  KeepsPromise
