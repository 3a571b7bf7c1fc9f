CONSTANTS
    Streams <- MC_Streams
    Limits <- MC_Limits
SPECIFICATION WriterSpec
INVARIANTS
    SizeTracksPayload
    PostedIsPrefix
    EveryEntryPostedOnce
\* The with block ends: normally, or by an exception.
CHECK_DEADLOCK FALSE
