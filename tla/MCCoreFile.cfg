SPECIFICATION FairSpec
CONSTANTS
  HeaderSize = 32
  NoteCmdSize = 40
  ThreadCmdSize = 312
  SegmentCmdSize = 72
  NoteAlign = 16
  SegmentAlign = 4096
  MaxChunkSize = 4194304
  MaxThreads = 2
  MaxSegments = 2
  SegmentSizes = {513, 4194304, 8388624}
  MetadataSizes = {33, 64}
  ImageInfosSizes = {0, 200}
  MaxShortWrites = 1
INVARIANTS
  TypeOK
  LayoutSoundIfComplete
  PiecesDisjoint
  SegmentBytesInPlace
  EmbeddedOffsetIsFinal
PROPERTIES
  BuildEnds
