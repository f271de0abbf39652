SPECIFICATION Spec
CONSTANTS
  ChunkMax = 3
  ChunkOverlap = 1
  FilterFields <- MCFields
  FieldBytes = 1
  MaxFilterDepth = 3
  MaxFilterNodes = 4
  BlockSize = 2
  Hash <- MCHash
  Widths <- MCWidths
  MaxSegments = 4
  MaxSegmentDocuments = 3
  MaxSegmentPassages = 12
  NoFilter = NoFilter
  Scenarios <- AllScenarios
  CandidateFloor = 2
  CursorMaxOffset = 3
  MaxLimit = 3
  Separator = 2
INVARIANTS
  PlanMatchesSegments
  SegmentsLoad
  LexicalExact
  VectorExact
  CandidateSetsConsistent
  PagesFollowRanking
  ContextRespectsLimits
  InvalidFilterRefused
PROPERTY
  Answered
