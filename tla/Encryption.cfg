SPECIFICATION Spec
CONSTANTS
  Ids <- MCIds
  WithText = {"catalog", "page", "xmp"}
  WithBytes = {"page", "xmp", "file", "named"}
  Passwords <- MCPasswords
  Padded <- MCPadded
  Truncated <- MCTruncated
  Params <- MCParams
  Originals <- MCOriginals
  PackCap = 1
  MaxCalls = 3
  MaxVersion = 2
INVARIANTS
  ReadsBack
  OpensForHolders
  NothingInClear
