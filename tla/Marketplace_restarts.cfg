SPECIFICATION Spec
CONSTANTS
  Addr = {a, b, c}
  Insc = {i}
  Market = Market
  NoAddr = NoAddr
  NoItem = NoItem
  NoListing = NoListing
  Lot = Lot
  Submissions <- MCSubmissions
  MinTimeout = 0
  MinTrade = 1
  Wide = 16
  RoyaltyTo = c
  RoyaltyNum = 1
  RoyaltyDen = 3
  MaxTx = 4
  MaxHeight = 3
  MaxStops = 1
  Sellers = {a, b}
  Prices = {1}
CONSTRAINT Focus
ACTION_CONSTRAINT Effective
SYMMETRY Symmetry
 
PROPERTIES ReservationHeld FillsArePaid
CHECK_DEADLOCK FALSE
