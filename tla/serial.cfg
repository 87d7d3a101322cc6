CONSTANTS
  Hosts <- BothHosts
  RxSize = 4
  TxSize = 1
  LineSize = 2
  Stalls = FALSE
SPECIFICATION FairSpec
INVARIANTS
  NothingDropped
  LineIsWhole
  EveryLineAnswered
PROPERTIES
  RxIsFifo
  TxIsFifo
  Greeted
