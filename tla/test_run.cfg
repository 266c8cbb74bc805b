\* Four tests with the three kinds of context; any process may pass, fail, leak,
\* panic, hang or die at any point.  The run stops by itself at its end; RunEnds
\* says where else it may stop.
SPECIFICATION FairSpec
CONSTANTS
  NumTests = 4
  Context <- MCContext
INVARIANTS TypeOK VerdictTruthful AllJudged TestIsolated NoOrphans
PROPERTIES RunEnds
CHECK_DEADLOCK FALSE
