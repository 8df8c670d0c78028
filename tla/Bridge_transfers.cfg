SPECIFICATION BridgeFairSpec
CONSTANTS
  Refused <- MCRefused
  Indexer = {i1, i2}
  User = {u}
  Contract = Contract
  Token = {k}
  Amounts = {1}
  Funds = 1
  MaxTx = 4
  MaxPackets = 1
  MaxExpired = 1
  MaxStops = 1
CONSTRAINT Focus
INVARIANTS  MintedIsDebited
  
CHECK_DEADLOCK FALSE
