SPECIFICATION Spec
CONSTANTS
  Source = {a, b}
  Test = {t}
  Other = {doc}
  Limit = 3
  MaxPairs = 2
  History = 4
PROPERTY
  ConfirmedPairsAreKept
CHECK_DEADLOCK FALSE
