SPECIFICATION FairSpec
CONSTANTS
  h1 = h1
  h2 = h2
  h3 = h3
  All = All
  None = None
  Hashes = {h1, h2, h3}
  Categories <- MCCategories
  Windows <- MCWindows
  Limit = 2
  Databases <- MCShrinks
  MaxRows = 3
  MaxScroll = 1
  MaxInflight = 2
  MaxKeys = 4
  MaxErrors = 1
INVARIANT TypeOK
INVARIANT InflightExact
INVARIANT LoadingIsBacked
INVARIANT CursorOnRow
INVARIANT TerminalRestored
PROPERTY FreshInTheEnd
CHECK_DEADLOCK FALSE
