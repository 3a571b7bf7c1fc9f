CONSTANTS
    Streams <- MC_Streams
    Limits <- MC_Limits
SPECIFICATION WriterSpec
INVARIANTS
    PayloadWithinLimit
\* The with block ends: normally, or by an exception.
CHECK_DEADLOCK FALSE
