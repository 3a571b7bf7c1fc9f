----------------------------- MODULE DumpFrames -----------------------------
(***************************************************************************)
(* Time-frame paging of the OpenTSDB dump tool (tsdb_dump_restore/dump.py  *)
(* and utils.py).  dump() aligns TIME_START down to the query frame size,  *)
(* walks the instants start, start+step, ... while they are not after      *)
(* TIME_STOP, pairs consecutive instants into frames, moves each frame's   *)
(* end one second back so that frames do not overlap, queries OpenTSDB for *)
(* every frame and writes the returned entries to the dump file.          *)
(*                                                                         *)
(* Times are whole seconds since the epoch.  The metric's data is the set  *)
(* Points of instants that hold a data point; OpenTSDB's query_range is    *)
(* taken to return the points of [start, end], both ends included.  The   *)
(* generator pipeline is sequential, so one step of the model is one      *)
(* iteration of _dump_stream's loop: the pull of one frame through every  *)
(* generator, its query and the writing of its entries.                    *)
(***************************************************************************)
EXTENDS Integers, Sequences, FiniteSets, Bags, TLC

CONSTANTS Times,    \* instants TIME_START and TIME_STOP may take
          Steps,    \* values of --query-frame-size-seconds
          Points    \* instants at which the metric has a data point

VARIABLES tstart,   \* dump_frame.start
          tstop,    \* dump_frame.end
          step,     \* query_frame_size
          cursor,   \* the last instant frame_stream has taken (its 'start')
          stepNow,  \* _FrameFactory.step_now
          frames,   \* the _TimeFrame objects produced so far
          dumped,   \* bag of the data points written to the dump file
          report    \* DumpProgressReport's counters: the _SlidingAverage of
                    \* entries per frame and _average_frame_entries

dvars == <<tstart, tstop, step, cursor, stepNow, frames, dumped, report>>

\* Mutant form: datetime_align rounding up instead of down.
DatetimeAlignRoundUp(origin, align) == origin + ((align - (origin % align)) % align)

\* utils.datetime_align(origin, align): round down to a multiple of align.
DatetimeAlign(origin, align) == origin - (origin % align)

\* Mutant form: frames passed on without the end offset.
FrameOverlapFixNone(s, e) == [start |-> s, end |-> e]

\* frame_overlap_fix_stream with end_offset = -1 second, as build_time_stream
\* passes it.
FrameOverlapFix(s, e) == [start |-> s, end |-> e - 1]

\* stats_stream: client.query_range(frame.start, frame.end, metric).
QueryRange(frame) == {p \in Points : frame.start <= p /\ p <= frame.end}

\* build_time_stream's iterations for the aligned start a: duration / step,
\* plus one when step does not divide duration.  timedelta / timedelta is a
\* true division, so iterations is kept as the fraction num / den.
Iterations(a, e, s) ==
    [num |-> (e - a) + (IF (e - a) % s # 0 THEN s ELSE 0), den |-> s]

\* int() of a fraction, which truncates towards zero.
IntOf(q) == IF q.num >= 0 THEN q.num \div q.den ELSE -((-q.num) \div q.den)

\* Mutant form: frames numbered from one.
TimeFrameFromOne(s, e, n, total) ==
    FrameOverlapFix(s, e) @@ [step_number |-> n + 1, steps_total |-> total]

\* _FrameFactory.produce: the frame numbered with the factory's step_now and
\* carrying the factory's steps_total.
TimeFrame(s, e, n, total) ==
    FrameOverlapFix(s, e) @@ [step_number |-> n, steps_total |-> total]

\* DumpProgressReport._format_message: ' time-frame #{} of {}' for the last
\* frame, the numbers it shows.
ReportedPosition(frame) == <<frame.step_number, IntOf(frame.steps_total)>>

\* _SlidingAverage.count(value).
SlidingCount(avg, v) == [total |-> avg.total + v, entries |-> avg.entries + 1]

\* DumpProgressReport.update(time_frame, stat_entries), for its entry
\* counters (the frame timing average is left out).
ReportUpdate(r, n) == [average |-> SlidingCount(r.average, n), entries |-> r.entries + n]

\* _dump_stream: every entry stats_stream returns for the frame is written.
DumpStream(d, frame) == d (+) SetToBag(QueryRange(frame))

\* build_time_stream's first instant, before any frame is pulled.
Init ==
    /\ tstart \in Times
    /\ tstop \in Times
    /\ step \in Steps
    /\ cursor = DatetimeAlign(tstart, step)
    /\ stepNow = 0
    /\ frames = <<>>
    /\ dumped = EmptyBag
    /\ report = [average |-> [total |-> 0, entries |-> 0], entries |-> 0]

\* Mutant form: finite_time_stream breaking at an instant equal to the end.
DumpFrameBreakOnEqual ==
    LET next  == cursor + step
        frame == TimeFrame(cursor, next, stepNow,
                           Iterations(DatetimeAlign(tstart, step), tstop, step))
    IN /\ ~(tstop <= next)
       /\ cursor' = next
       /\ stepNow' = stepNow + 1
       /\ frames' = Append(frames, frame)
       /\ report' = ReportUpdate(report, Cardinality(QueryRange(frame)))
       /\ dumped' = DumpStream(dumped, frame)
       /\ UNCHANGED <<tstart, tstop, step>>

\* One iteration of _dump_stream: time_stream yields cursor + step,
\* finite_time_stream lets it through because it is not after TIME_STOP,
\* frame_stream pairs it with cursor, the frame's end is moved back, the
\* factory numbers it, stats_stream queries it, the progress report counts
\* its entries and they are written.
DumpFrame ==
    LET next  == cursor + step
        frame == TimeFrame(cursor, next, stepNow,
                           Iterations(DatetimeAlign(tstart, step), tstop, step))
    IN /\ ~(tstop < next)
       /\ cursor' = next
       /\ stepNow' = stepNow + 1
       /\ frames' = Append(frames, frame)
       /\ report' = ReportUpdate(report, Cardinality(QueryRange(frame)))
       /\ dumped' = DumpStream(dumped, frame)
       /\ UNCHANGED <<tstart, tstop, step>>

\* finite_time_stream breaks at the first instant after TIME_STOP; the
\* stream, and the dump of this metric, end.
StreamEnded == tstop < cursor + step

Next == DumpFrame

DumpSpec == Init /\ [][Next]_dvars

\* _dump_stream is a plain for loop in the tool's one thread: while the
\* generator chain can yield a frame, the loop takes it.
FairDumpSpec == DumpSpec /\ WF_dvars(Next)

-----------------------------------------------------------------------------

\* Frames do not overlap: no data point is written to the dump file twice,
\* which is what the one-second end offset of build_time_stream is for.
NoPointDumpedTwice == \A p \in BagToSet(dumped) : CopiesIn(p, dumped) = 1

\* Frames leave no gap: every data point from TIME_START up to the end of
\* the last frame queried so far is in the dump file.
NoGapBeforeLastFrame ==
    frames # <<>> =>
        \A p \in Points :
            tstart <= p /\ p <= frames[Len(frames)].end => p \in BagToSet(dumped)

\* The progress report never shows a frame number at or past the total it
\* announces: "time-frame #k of N" has k < N, although N is computed by
\* arithmetic in build_time_stream and k by counting the frames the
\* generator chain lets through.
ReportedFrameWithinTotal ==
    \A i \in 1..Len(frames) :
        ReportedPosition(frames[i])[1] < ReportedPosition(frames[i])[2]

\* Where the whole frames of the window end: the aligned start plus as many
\* steps as fit before TIME_STOP.
WholeFramesEnd ==
    LET a == DatetimeAlign(tstart, step)
    IN a + ((tstop - a) \div step) * step

\* The dump of a metric eventually holds every data point from TIME_START
\* up to the end of the last whole frame before TIME_STOP.
DumpEventuallyCoversWholeFrames ==
    <>(\A p \in Points :
          tstart <= p /\ p < WholeFramesEnd => p \in BagToSet(dumped))

\* When the stream has ended, every data point from TIME_START up to, not
\* including, TIME_STOP is in the dump file (the --time-stop option:
\* "timestamp where to stop dumping"; build_time_stream counts a last,
\* partial frame in steps_total, so the points before TIME_STOP in that
\* frame are meant to be dumped).
DumpCoversWindow ==
    StreamEnded =>
        \A p \in Points : tstart <= p /\ p < tstop => p \in BagToSet(dumped)

=============================================================================
