SPECIFICATION TradeSpec
CONSTANTS
  Submissions <- MCSubmissions
  Baskets <- MCBaskets
  Addr = {a, b, c}
  Insc = {i}
  Market = Market
  NoAddr = NoAddr
  NoItem = NoItem
  NoListing = NoListing
  Lot = Lot
  MinTimeout = 0
  MinTrade = 1
  Wide = 16
  RoyaltyTo = c
  RoyaltyNum = 1
  RoyaltyDen = 2
  MaxTx = 4
  MaxHeight = 3
  MaxStops = 0
  Buyer = {b, c}
  MaxPrepared = 1
  Sellers = {a, c}
  Items = {Lot, i}
  Totals = {4}
  Deposits = {1}
  Units = 1
CONSTRAINT Focus
ACTION_CONSTRAINTS Effective Reads
 
PROPERTIES PaysThePrice
CHECK_DEADLOCK FALSE
