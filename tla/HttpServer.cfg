CONSTANTS
  SeqNums = 2
  small = small
  large = large
  NoPage = NoPage
  Pages <- MCPages
  PageLen <- MCPageLen
  ChunkLen = 2
  HeadLen = 1
  TxMax = 2
SPECIFICATION Spec
INVARIANT RecordsAreConsistent
INVARIANT PagesAreTiled
PROPERTY SocketsComeBack
