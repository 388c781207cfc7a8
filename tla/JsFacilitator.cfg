SPECIFICATION SafetySpec
CONSTANTS
  ValidAsset <- MCValidAsset
  ValidNonce <- MCValidNonce
  UnhashableNonce <- MCUnhashableNonce
  AmountOf <- MCAmountOf
  BigIntOnly <- MCBigIntOnly
  DoubleOf <- MCDoubleOf
  AccountOf <- MCAccountOf
  TokenDomain <- MCTokenDomain
  Margin = 1
  TTL = 3
  MaxTime = 4
  Calls = {c1, c2}
  Requests <- MCRequestsJs
  Millis = {0, 1}
  WaitTimeout = 2
  NoTx = NoTx
  NoRequest = NoRequest
SYMMETRY Symmetry
INVARIANTS
  TypeOK
  SuccessIsPaid
  SuccessesShareTransfer
  SentIsWhatWasSigned
  OnlySettleFailedIsInDoubt
PROPERTIES
  KeepsPromise
