SPECIFICATION Spec
CONSTANTS
  Cases <- MCCases
  Matcher <- MCMatcher
  Intended <- MCIntended
  Starts <- MCStarts
  Limits <- MCLimits
  Values <- MCValues
  Caret = "^"
  kMaxMatchDepth = 7
INVARIANTS FindsLeftmost GsubReplacesScan GmatchReturnsScan
PROPERTY ScansAdvance
CHECK_DEADLOCK FALSE
