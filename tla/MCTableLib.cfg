SPECIFICATION Spec
CONSTANTS
  MaxInt = 9
  INT_MAX = 8
  RANLIMIT = 4
  Imbalance = 1
  Tables = {"a", "b"}
  Values = {1, 2, 3, 4, 5, 6, 7, 8}
  Cases <- MCCases
INVARIANTS CopiesAreSimultaneous ReadsItsRange SortPermutes SortStaysInRange SortSorts
PROPERTY CallsEnd
CHECK_DEADLOCK FALSE
