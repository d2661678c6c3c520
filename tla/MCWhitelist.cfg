\* Checks of one file after the other, with every list of up to 6 characters.
SPECIFICATION FairSpec
CONSTANTS
  CompLength = 2
  Digit = {0, 1}
  Newline = 9
  MaxList = 6
  Lists <- MCLists
  Paths <- MCPaths
  Content <- MCContent
INVARIANT SearchIsExact
PROPERTY CheckReturns
