SPECIFICATION Spec
CONSTANTS
  ChunkMax = 3
  ChunkOverlap = 1
  FilterFields <- MCFields
  FieldBytes = 1
  MaxFilterDepth = 3
  MaxFilterNodes = 4
  BlockSize = 1
  Hash <- MCHash
  Widths <- MCWidths
  MaxSegments = 4
  MaxSegmentDocuments = 6
  MaxSegmentPassages = 12
  NoFilter = NoFilter
  Scenarios <- OrScenarios
  CandidateFloor = 2
  CursorMaxOffset = 3
  MaxLimit = 3
  Separator = 2
INVARIANT
  OrKeepsTopHits
