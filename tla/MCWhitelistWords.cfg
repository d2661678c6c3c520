\* Checks of one file after the other, with every list of up to 3 characters.
SPECIFICATION Spec
CONSTANTS
  CompLength = 2
  Digit = {0, 1}
  Newline = 9
  MaxList = 3
  Lists <- MCLists
  Paths <- MCPaths
  Content <- MCContent
INVARIANT AnswerIsOfFile
