SPECIFICATION SafetySpec
CONSTANTS
  ValidAsset <- MCValidAsset
  ValidNonce <- MCValidNonce
  UnhashableNonce <- MCUnhashableNonce
  AmountOf <- MCAmountOf
  BigIntOnly <- MCBigIntOnly
  DoubleOf <- MCDoubleOf
  AccountOf <- MCAccountOf
  TokenDomain <- MCTokenDomain
  KeyNetworks = {"casper:test"}
  RpcNetworks = {"casper:test"}
  DefaultNetworks = {"casper:main", "casper:test"}
  Margin = 1
  TTL = 3
  MaxTime = 4
  Calls = {c1, c2}
  Requests <- MCRequestsGo
  Millis = {0, 1}
  RequestTimeout = 2
  NoTx = NoTx
  NoRequest = NoRequest
SYMMETRY Symmetry
INVARIANTS
  TypeOK
  SuccessIsPaid
  SuccessesShareTransfer
  SentIsWhatWasSigned
  EveryTransferIsTraceable
PROPERTIES
  KeepsPromise
