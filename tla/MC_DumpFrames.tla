---------------------------- MODULE MC_DumpFrames ----------------------------
EXTENDS DumpFrames

\* Dump windows inside [0, 9] seconds, frames of 1 to 4 seconds: the start
\* is aligned or not, the stop falls on a frame boundary or inside a frame,
\* and the window may be shorter than one frame or empty.
MC_Times == 0..9
MC_Steps == 1..4

\* A data point every second.
MC_Points == 0..12

\* The windows that hold at least one whole frame after the aligned start,
\* so that a behaviour shows frames being dumped before the stream ends
\* inside a last, partial frame.
MC_WholeFrameInit ==
    /\ Init
    /\ DatetimeAlign(tstart, step) + step <= tstop

MC_WholeFrameSpec == MC_WholeFrameInit /\ [][Next]_dvars
=============================================================================
