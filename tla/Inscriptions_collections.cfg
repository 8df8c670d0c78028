SPECIFICATION Spec
CONSTANTS
  Reserved <- MCReserved
  Submissions <- MCSubmissions
  a = a
  x = x
  Addr = {a, b}
  NoAddr = NoAddr
  NoRow = NoRow
  NoSymbol = NoSymbol
  Symbol = {x, y}
  Content = {1, 2}
  MaxTx = 5
  MaxStops = 1
CONSTRAINT Order
VIEW Ahead
INVARIANTS CreatorsAgree
PROPERTIES CollectionIsFinal
CHECK_DEADLOCK FALSE
