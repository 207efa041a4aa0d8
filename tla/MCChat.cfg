SPECIFICATION Spec
CONSTANTS
  u1 = u1
  u2 = u2
  u3 = u3
  Users = {u1, u2, u3}
  Server = server
  Width = 3
  MaxMessageId = 2
  MaxMessageSize = 20
  HeaderSize = 16
  SenderIdSize = 2
  TextSizes = {2}
  FileSizes = {3}
  Pairs <- MCPairs
  MaxSends <- MCMaxSends
  MaxCloses = 1
INVARIANTS ListsAreFaithful NothingLost
CHECK_DEADLOCK FALSE
