SPECIFICATION Spec
CONSTANTS
  HeaderSize = 32
  NoteCmdSize = 40
  ThreadCmdSize = 312
  SegmentCmdSize = 72
  NoteAlign = 16
  SegmentAlign = 4096
  MaxChunkSize = 4194304
  MaxThreads = 1
  MaxSegments = 1
  SegmentSizes = {513, 4194304, 8388624}
  MetadataSizes = {33, 64}
  ImageInfosSizes = {0, 200}
  MaxShortWrites = 0
INVARIANTS
  SegmentsInsideFile
