SPECIFICATION Spec
CONSTANTS
  Term <- TwoTerms
  FsyncPerAppend = TRUE
  SegmentSize = 2  MaxIndex = 4  MaxSegment = 2  MaxFailures = 1
INVARIANTS LogAsAsked RangesContiguous  WriterReady FlushedUnlessTorn
