SPECIFICATION FinishingSpec
CONSTANTS
  Refused <- MCNone
  Scale <- MCEqual
  Indexer = {i1}
  Home = i1
  User = {u}
  Owner = u
  Contract = Contract
  Token = {k}
  Default = k
  Amounts = {1}
  Funds = 2
  MaxTx = 4
  MaxPackets = 1
  MaxExpired = 1
  MaxStops = 1
  Reopens = FALSE
  Followed = {2}
 
PROPERTIES  ArrivalShown
CHECK_DEADLOCK FALSE
