SPECIFICATION FairSpec
CONSTANTS
  Senders = {s1, s2}
  SizePipe = 7
  MaxSizeContent = 0
  MsgOffset = 2
  ContentSizes = {0}
  NumVersions = 3
  MaskNotWriting = 8
  StrayWords = {0, 8, 15}
  BehindWords = {0, 15}
PROPERTIES Drains SendReturns
