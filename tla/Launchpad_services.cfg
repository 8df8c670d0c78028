SPECIFICATION Spec
CONSTANTS
  Addr = {a, c}
  Creator = c
  NoAddr = NoAddr
  NoRow = NoRow
  Wide = 16
  Token = {1, 2}
  Submissions <- MCSubmissions
  Metas <- MCMetas
  Amounts = {2}
  MaxTx = 3
  MaxHeight = 2
  MaxStops = 1
CONSTRAINT Focus
ACTION_CONSTRAINT Effective
INVARIANTS LaunchpadInv
PROPERTIES SettledIsFinal LimitKept NotOversold
CHECK_DEADLOCK FALSE
