----------------------------- MODULE TsdbWriter -----------------------------
(***************************************************************************)
(* Batched upload of the OpenTSDB restore tool (tsdb_dump_restore/         *)
(* writer.py): OpenTSDBWriter collects JSON entries in a _Batch and posts  *)
(* the batch to /api/put once it has grown larger than payload_limit, and  *)
(* posts what is left when it is closed.  The writer is used as a context  *)
(* manager: the caller writes a stream of entries inside a with block, and *)
(* __exit__ closes the writer only when the block is left without an      *)
(* exception.                                                              *)
(*                                                                         *)
(* An entry is its index i in the stream; its JSON text is abstracted to  *)
(* its length stream[i].  A payload is abstracted to the entries it        *)
(* carries: assemble() joins them with ',' between '[' and ']'.  A post    *)
(* either succeeds or raises (requests error or raise_for_status); the    *)
(* exception leaves write() or close() and the with block.                 *)
(***************************************************************************)
EXTENDS Integers, Sequences, SequencesExt

CONSTANTS Streams,   \* the entry-length sequences a caller may write
          Limits     \* values of payload_limit

VARIABLES stream,    \* EntryLen of the entries the caller writes, in order
          limit,     \* self._payload_limit
          next,      \* index of the next entry the caller writes
          entries,   \* self._batch._entries (indices into stream)
          size,      \* self._batch._size
          posted,    \* the payloads OpenTSDB accepted, in order
          phase      \* "open", "closed" (left normally) or "raised"

wvars == <<stream, limit, next, entries, size, posted, phase>>

\* len(prefix) + len(suffix) and len(separator) of _new_batch().
Wrapping == 2
SepLen == 1

\* The length of assemble()'s text for the entries b.
PayloadLength(b) ==
    Wrapping + FoldSeq(LAMBDA i, acc : stream[i] + acc, 0, b)
             + (IF b = <<>> THEN 0 ELSE (Len(b) - 1) * SepLen)

\* _Batch.is_empty.
IsEmpty(b) == b = <<>>

\* _Batch.__init__ as called by _new_batch().
NewBatchSize == Wrapping

\* Mutant form: the separator counted for the first entry too.
BatchAddSizeAlways(sz, n, len) == sz + len + SepLen

\* _Batch.add: the entry's length, plus a separator unless it is the first.
BatchAddSize(sz, n, len) == sz + len + (IF 0 < n THEN SepLen ELSE 0)

\* Mutant form: _flush without starting a new batch.
PostOkNoReset(b) ==
    /\ posted' = Append(posted, b)
    /\ entries' = b
    /\ size' = PayloadLength(b)

\* _flush posting the batch b succeeds: OpenTSDB has it, and a new batch
\* is started.
PostOk(b) ==
    /\ posted' = Append(posted, b)
    /\ entries' = <<>>
    /\ size' = NewBatchSize

\* _flush posting the batch fails: the exception leaves write() or close()
\* and the with block, whose __exit__ sees it and does not close.
PostRaises(b, sz) ==
    /\ entries' = b
    /\ size' = sz
    /\ phase' = "raised"
    /\ UNCHANGED posted

Init ==
    /\ stream \in Streams
    /\ limit \in Limits
    /\ next = 1
    /\ entries = <<>>
    /\ size = NewBatchSize
    /\ posted = <<>>
    /\ phase = "open"

\* writer.write(entry): add the entry, then flush if the batch has become
\* larger than payload_limit.
Write ==
    LET b  == Append(entries, next)
        sz == BatchAddSize(size, Len(entries), stream[next])
    IN /\ phase = "open"
       /\ next <= Len(stream)
       /\ next' = next + 1
       /\ UNCHANGED <<stream, limit>>
       /\ IF limit < sz
          THEN \/ PostOk(b) /\ UNCHANGED phase
               \/ PostRaises(b, sz)
          ELSE /\ entries' = b /\ size' = sz
               /\ UNCHANGED <<posted, phase>>

\* The caller's loop raises (reading the dump file, decoding an entry):
\* __exit__ gets the exception and does not close the writer.
CallerRaises ==
    /\ phase = "open"
    /\ phase' = "raised"
    /\ UNCHANGED <<stream, limit, next, entries, size, posted>>

\* Mutant form: close() flushing only a batch that is over the limit.
ExitNormallyOverLimit ==
    /\ phase = "open"
    /\ next > Len(stream)
    /\ UNCHANGED <<stream, limit, next>>
    /\ IF ~IsEmpty(entries) /\ limit < size
       THEN \/ PostOk(entries) /\ phase' = "closed"
            \/ PostRaises(entries, size)
       ELSE /\ phase' = "closed"
            /\ UNCHANGED <<entries, size, posted>>

\* The with block ends after the last write: __exit__(None) calls close(),
\* which flushes a non-empty batch.
ExitNormally ==
    /\ phase = "open"
    /\ next > Len(stream)
    /\ UNCHANGED <<stream, limit, next>>
    /\ IF ~IsEmpty(entries)
       THEN \/ PostOk(entries) /\ phase' = "closed"
            \/ PostRaises(entries, size)
       ELSE /\ phase' = "closed"
            /\ UNCHANGED <<entries, size, posted>>

Next == Write \/ CallerRaises \/ ExitNormally

WriterSpec == Init /\ [][Next]_wvars

-----------------------------------------------------------------------------

\* The size _Batch keeps incrementally is always the length of the payload
\* assemble() would build from it, so the flush threshold in write() is
\* decided on the real payload size.
SizeTracksPayload == size = PayloadLength(entries)

\* Whatever fails, OpenTSDB has received a prefix of the written stream,
\* every entry at most once and in order, and the entries still in the
\* batch are the ones written after it: a restore can be resumed from the
\* first entry not posted.
PostedIsPrefix ==
    FlattenSeq(posted) \o entries = [i \in 1..(next - 1) |-> i]

\* A with block left normally has posted every written entry.
EveryEntryPostedOnce ==
    phase = "closed" => FlattenSeq(posted) = [i \in 1..Len(stream) |-> i]

\* No payload posted to /api/put is larger than payload_limit.
PayloadWithinLimit ==
    \A k \in 1..Len(posted) : PayloadLength(posted[k]) <= limit

=============================================================================
