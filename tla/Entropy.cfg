SPECIFICATION Spec
CONSTANTS
  Jobs <- MCJobs
  Wrong <- MCWrong
INVARIANTS
  Lossless
  SegmentConsumed
  LimitsKept
  Contained
