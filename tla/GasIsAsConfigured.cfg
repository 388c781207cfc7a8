SPECIFICATION Spec
CHECK_DEADLOCK FALSE
CONSTANTS
  Blank = ""
  SuffixOf <- MCSuffixOf
  Ports <- MCPorts
  Environments <- MCEnvironments
  NetworkLists <- MCNetworkLists
  GasBudgets = {0, 5}
  DefaultMotes = 7
INVARIANT GasIsAsConfigured
