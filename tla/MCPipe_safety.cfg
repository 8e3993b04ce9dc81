SPECIFICATION TimelySpec
CONSTANTS
  Senders = {s1, s2}
  SizePipe = 7
  MaxSizeContent = 1
  MsgOffset = 2
  ContentSizes = {0, 1, 2}
  NumVersions = 3
  MaskNotWriting = 8
  StrayWords = {0, 8, 15}
  BehindWords = {0, 15}
SYMMETRY Symmetry
INVARIANTS TypeOK Delivery PublishedIntact Disjoint BlankElsewhere EmptyAccepts Handoff
PROPERTY ImplementsFifo
