SPECIFICATION Spec
CONSTANTS
  Tab = {t1, t2}
  User = {a, b}
  a = a
  Picture = {p}
  p = p
  q = p
  NoUser = NoUser
  NoPicture = NoPicture
  NoPad = NoPad
  NoRow = NoRow
  NoDoc = NoDoc
  MaxId = 3
  MaxName = 3
  Batches <- MCBatches
  MaxSupply = 2
  MaxRefused = 1
INVARIANTS UploadsInv StoredSessionIsVerified ObjectsAreFound
CONSTRAINT Focus
SYMMETRY Symmetry
CHECK_DEADLOCK FALSE
