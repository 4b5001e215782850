SPECIFICATION FairSpec
CONSTANTS
  Buf = {b1, b2, b3}
  NUM = 8
  WRAP = 8
  Watched = {b1}
  NULL = NULL
INVARIANTS DescriptorsOwned
PROPERTIES TransferDone RequestsReturn
