SPECIFICATION FairSpec
CONSTANTS
  Addr = {a, c}
  Creator = c
  NoAddr = NoAddr
  NoRow = NoRow
  Wide = 16
  Token = {1, 2}
  Submissions <- MCSubmissions
  Metas <- MCMetas
  Amounts = {2}
  MaxTx = 2
  MaxHeight = 2
  MaxStops = 1
PROPERTIES ReservationsSettle
CHECK_DEADLOCK FALSE
