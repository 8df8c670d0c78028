SPECIFICATION FairSpec
CONSTANTS
  Node = {n1, n2}
  Rpc = {n2}
  MaxHeight = 3
  Lag = 1
  Seeded = TRUE
  MaxFaults = 1
  MaxSignals = 1
INVARIANTS ServiceInv
PROPERTIES SignalEnds BlocksComeThrough
