SPECIFICATION Spec
CONSTANTS
  NoToken = NoToken
  NoPosition = NoPosition
  Addr = {a, b}
  Ticker = {t}
  TxId <- MCTxId
  Submissions <- MCSubmissions
  Wide = 16
  Scale = 2
  LimitShare = 2
  MaxHeight = 4
  MCHeights = 4
  BlockSize = 2
  MCBlock = 2
  MCTotal = 3
  MaxCrashes = 1
  Amounts = {1}
  ListAmounts = {2}
CONSTRAINT Focus
SYMMETRY Symmetry
INVARIANTS Backed  RecordedOnce SuccessIsRecorded NoGap
PROPERTIES StatusIsFinal ImplementsLedger
CHECK_DEADLOCK FALSE
