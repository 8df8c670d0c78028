SPECIFICATION StatsFairSpec
CONSTANTS
  Changes <- MCAll
  DebouncePeriod = 1
  MaxChanges = 2
  MaxTime = 1
  MaxLost = 1
  MaxRetries = 1
INVARIANTS StatisticsInv
 
