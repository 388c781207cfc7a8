SPECIFICATION GoSpec
CHECK_DEADLOCK FALSE
CONSTANTS
  ValidAsset <- MCValidAsset
  ValidNonce <- MCValidNonce
  UnhashableNonce <- MCUnhashableNonce
  AmountOf <- MCAmountTexts
  BigIntOnly = {}
  DoubleOf <- MCDoubleOf
  AccountOf <- MCAccountOf
  CasperNetworks = {"casper:test"}
  Backdate = 1
  PageWindow = 4
  NoMap = "none"
  DefaultDecimals = 2
  ExtensionKeys = {"feePayer"}
  SupportedExtra <- MCSupportedExtra
  Requests = {c1, c2}
  PriceMaps <- MCPriceMaps
  FreshMaps = {"parsed"}
  Parsers <- MCParsers
  Registrable <- MCRegistrable
  Decimals = {1}
  MaxParsers = 2
  Routes <- MCRoutes
INVARIANTS
  GoForwardsItsOwnNetwork
  PublishedIsPayable
