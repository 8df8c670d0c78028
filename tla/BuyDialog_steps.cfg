SPECIFICATION BuyFairSpec
CONSTANTS
  Op <- MCOp
  NoOp = NoOp
  Check = {c1}
  NoCheck = NoCheck
  l1 = l1
  l2 = l2
  Listing = {l1, l2}
  NoListing = NoListing
  Patient = TRUE
  MaxSends = 3
  MaxPrompts = 1
  MaxEstimates = 2
  MaxErrors = 1
  MaxFails = 1
  MaxLost = 1
  DepositTimeout = 1
  MaxHeight = 2
  MaxJobs = 2
  Depositors = {"nobody", "me"}
CONSTRAINT Focus
INVARIANTS BuyInv  OneWaits
PROPERTIES  BuysWithRoyalty LeadsOn
CHECK_DEADLOCK FALSE
