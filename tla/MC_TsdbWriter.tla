---------------------------- MODULE MC_TsdbWriter ----------------------------
EXTENDS TsdbWriter

\* Streams of four entries of JSON length 2 or 3: enough for a batch to be
\* flushed by write() more than once and for a remainder to be left to
\* close().
MC_Streams == [1..4 -> {2, 3}]

\* A limit a single entry already exceeds, and limits of two and three
\* entries.
MC_Limits == {4, 7, 10}
=============================================================================
