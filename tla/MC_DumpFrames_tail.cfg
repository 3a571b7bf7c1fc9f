CONSTANTS
    Times <- MC_Times
    Steps <- MC_Steps
    Points <- MC_Points
SPECIFICATION MC_WholeFrameSpec
INVARIANTS
    DumpCoversWindow
\* The dump of a metric ends when the stream is exhausted.
CHECK_DEADLOCK FALSE
