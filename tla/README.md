# TLA+ models of the topology engine's flow store, lookups and reconciler, and of the OpenTSDB dump/restore tool

This directory holds TLA+ models of the open-kilda topology engine's flow
persistence and rule synthesis, `src/services/topology-engine/queue-engine/topologylistener/flow_utils.py`.
They sit beside the TLC configurations that check them.
`PROJECT.json` lists every component, run, mutant, finding and hazard.
Its `map` ties every model definition to the source lines it translates.

## 1. The system

`flow_utils.py` is a set of functions called by the topology listener's
message handlers. The handlers are threads or workers, and several can run at once.
All of them share one Neo4j graph, which they reach through py2neo (`db.py`).
The parts are:

| Part | Source | State it touches | Operations |
|---|---|---|---|
| Cookie codec | `flow_utils.py` 38-68 | none (pure) | `is_forward_cookie`, `is_reverse_cookie`, `cookie_to_hex`, `is_same_direction` |
| Rule synthesizer | 71-129 | none (pure) | `choose_output_action`, `get_one_switch_rules`, `get_rules`, `build_rules` |
| Flow & segment store | 132-357 | `:flow` relationships, `:flow_segment` relationships, ISL `available_bandwidth` | `store_flow` (with `delete_flow_segments`, `merge_flow_relationship`, `merge_flow_segments`, `update_flow_segment_available_bw`, `update_isl_bandwidth`), `remove_flow` |
| Flow lookup | 360-485 | reads the store | `hydrate_flow`, `get_old_flow`, `get_flows`, `get_flow_segment_pairs_for_switch`, `get_one_switch_flows` |
| Topology primitives | 429-455 | `:switch` nodes, `:isl` relationships | `precreate_switches`, `precreate_isls` |
| Switch reconciler | 487-608 | reads the store | `validate_switch_rules`, `build_commands_to_sync_rules`, `command_from_segment` |
| Graph store gateway | `db.py` | driver | `create_p2n_driver` |
| OTSDB dump/restore tool | `src/tools/otsdb-dump-restore/.../{dump,writer,utils}.py` | files, HTTP | time-frame paging (`dump.py`), batched upload (`writer.py`) |

How the parts interact:

- `store_flow` writes a flow in up to eight graph statements.
  - Without a caller transaction, `graph.run` commits each statement on its own.
  - The statements run in this order:
    1. delete the old segments of (flowid, cookie);
    2. recompute the bandwidth of the ISLs on the flow's path;
    3. MERGE the flow;
    4. MERGE one segment per hop;
    5. recompute those ISLs again.
- `remove_flow` runs in its own transaction and commits once.
- The reconciler reads the same graph while the store runs. Each of its queries sees whatever has committed by then.

What makes this code hard:

- concurrent callers on shared ISLs;
- partial writes of an autocommitted sequence;
- a reconcile query that runs between two store statements;
- the signed 64-bit cookie arithmetic.

## 2. Modules and how they correspond to the code

### `FlowStore` (flow & segment store)

- **State**:
  - `flows`: the set of stored flow records, each keyed by `[flowid, cookie]`.
  - `segs`: the stored segments. A segment holds its flow key, bandwidth, ignore flag and src/dst switch and port.
  - `avail`: each ISL's `available_bandwidth`.
  - Per caller `p`:
    - `pc[p]`: the next statement of the call in progress.
    - `arg[p]`: the flow passed in.
    - `hop[p]`: the loop index of `merge_flow_segments`.
    - `ret[p]`: the outcome of the last call.
  - `failures`: how many statements have failed so far, capped by `MaxFailures`.
- **Actions**: one per graph statement of `store_flow`.
  - `StoreFlowPathInconsistent`: the early ValueError of `get_flow_path`.
  - `StoreFlowDeleteSegments` then `DeleteSegmentsBandwidth`.
  - `MergeFlowRelationship`.
  - `MergeFlowSegment`, once per hop. It models a MERGE that matches on the key and both endpoints.
  - `SegmentsBandwidth`.
- Other actions:
  - `RemoveFlow` is one atomic action because it is one transaction.
  - `StatementFails` models a statement raising after the earlier ones committed.
- Bandwidth is recomputed by `Recompute`, the aggregate query of `update_isl_bandwidth`. Each ISL gets `max_bandwidth` minus the bandwidth of its non-ignored segments.
- `KeyFree(k)` is the one assumption taken from the design rather than the code: callers do not run two calls for the same flow key at once (design §5).

### `RuleSynth` (rule synthesizer)

Operators only, one per function.

- `GetRules` keeps the code's `range(1, len-1, 2)` pairing loop, its `ValueError` on an unpaired interior node, and the empty-path case.
- The `message_utils` message constructors are not part of these sources. They are modelled from the design as rule records (`Rule`, `IngressRule`, ...), without the wire encoding.

`MC_RuleSynth` is a harness.

- Its state is one flow. The path grows one node at a time (`AppendNode`) up to `MaxNodes` and `ClearPath` restarts it, so every path of up to `MaxNodes` nodes over 3 switches × 2 ports is reached with every vlan combination.
- It checks `BuildRules` against an independent reference: `ReferenceRules`, built from a table of the design's vlan actions.

### `SwitchSync` (switch reconciler, composed with `FlowStore`)

`SwitchSync` extends `FlowStore` and `RuleSynth`, so the reconciler's queries interleave with store statements.

- **`validate_switch_rules`** has variables `vpc`, `vsw`, `vraw`, `vmissing`, `vproper`, `vexcess`. It takes two steps, one per graph query:
  - `ValidateSegments` runs the segment query and the raw-cookie compare;
  - `ValidateOneSwitch` runs the one-switch query, the `cookie_to_hex` compare and the final excess set.
- **`build_commands_to_sync_rules`** has variables `spc`, `ssw`, `srules`, `pending`, `installed`, `commands`, `sresult`:
  - `SyncSegments` runs the segment query. It adds the cookie of each group listed in `switch_rules` to `installed` before the lookup, as line 551 does. With no listed group it goes straight on to the one-switch query, as the loop at 545-552 does when it has nothing to do.
  - `SyncLookup` is one `command_from_segment` call. It does the flow lookup and then takes one of three outcomes: no command, the IndexError on a one-segment transit group, or the commands of `CommandsFromSegment`.
  - `SyncOneSwitch` runs the one-switch query.
- `CommandsFromSegment` keeps the transit port selection of lines 589-603 exactly as written.
- **Cookie codec.** `cookie_to_hex` is `CookieToHex`. `IgnoredRules` is `ignored_rules` at width `W`. It runs at width `W` instead of 64, with Python's `^` on a negative int modelled through `Bitwise`'s `^^` on an offset.
- **Ghost flags.** `vdirty` and `sdirty` record that the store changed during a reconcile call. `vlive` holds the flows stored when validate's segment query ran and left unchanged since. None of them changes the model; the properties use them to tell disturbed calls apart. `MC_ViewNoLive` leaves `vlive` out of the state TLC compares, so the runs that do not read it explore no extra states.

### `FlowStoreAbstract` (what the store promises) and the refinement

`FlowStoreAbstract` is written from the design (§4.4), not the code: a store of flows by key with two atomic operations, `Put` and `Remove`, each rejecting an odd path and leaving every ISL's `avail` equal to its capacity minus the bandwidth of the stored non-ignored flows crossing it.

`FlowStore` ends with the refinement mapping (`Abstract == INSTANCE FlowStoreAbstract WITH ...`):

- `CompletedFlows`: the stored flows, with every call in progress taken as done. A `store_flow` is its `Put` at its first statement (`StoreFlowDeleteSegments`); a `remove_flow` is one step.
- `MappedAvail`: the abstract availability for ISLs on the path of a call in progress, the real `avail` for all others.

`ImplementsAbstract` checks `Abstract!ASpec` as a temporal property.

### `FlowLookup` (cookie direction and flow lookups)

- `IsForwardCookie`, `IsReverseCookie` and `IsSameDirection` are the codec's direction tests on `W`-bit cookies. The masks are scaled so that the top three bits, the forward and reverse bits and the legacy direction bit keep their places. `Bits` is Python's `&` on a negative long.
- `OldFlowRows` is `get_old_flow`'s query. `GetOldFlow` is its loop over the rows, which returns the first same-direction row or one of the two errors.
- `GetFlowsStep` is one iteration of `get_flows`' loop, and `GetFlows` folds it over the rows.
- `MC_FlowLookup` grows and shrinks a set of stored rows of two flows, with kilda-style and legacy cookies and both directions. Both lookups are checked in every state, for every order the query may return the rows in (`SetToSeqs`).

### `DumpFrames` (OpenTSDB dump, `dump.py`, `utils.py`)

- One step (`DumpFrame`) is one iteration of `_dump_stream`. It pulls one frame through the generators: `time_stream`, `finite_time_stream`, `frame_stream`, `frame_overlap_fix_stream` and the `_FrameFactory`. It then queries the frame (`QueryRange`) and writes the entries to the `dumped` bag.
- `Init` is `dump()` with the start aligned down (`DatetimeAlign`).
- Each frame carries the factory's `steps_total`: `Iterations` is the true division `duration / step` (plus one when the step does not divide the window), kept as a fraction. `ReportedPosition` is what the progress report prints: the frame number and `int(steps_total)`.
- `FairDumpSpec` adds weak fairness of the loop step.
- `report` holds `DumpProgressReport`'s entry counters. `ReportUpdate` is `update()` and `SlidingCount` is `_SlidingAverage.count`. The report is updated in the same loop iteration that writes the frame's entries. No property reads the counters: they grow by the same amounts as the dump in the same step, so their agreement with it holds by construction.
- The model is one metric's `dump()`. `main` runs one such dump per metric over the same window into separate files. The model starts from the values `dump()` is given. Option parsing, the report's timing average, its printing and the ndjson encoding are left out.

### `TsdbWriter` (OpenTSDB restore, `writer.py`)

- `Write` is `OpenTSDBWriter.write`: `_Batch.add` (`BatchAddSize`), then a flush when the batch is larger than the limit.
- `ExitNormally` is `__exit__` with no exception, which calls `close()`. `CallerRaises` is the with block left by an exception, in which case `close()` is not called.
- A post either succeeds (`PostOk`, which starts a new batch) or raises (`PostRaises`).
- An entry is its index and its text length. A payload is the list of entries it joins.

### `TopologyPrimitives` (switch and ISL upserts)

- **State**: `node`, the switch nodes in creation order, each with its name, `state` (or none) and the `tx_override_workaround` write; `isl`, the `:isl` relationships between node positions.
- **Names**: a device id is its value and the case it is written in. `Lower` is `str.lower()`.
- **Actions**: `PrecreateSwitches` and `PrecreateIsls` are one caller transaction each.
  - `MergeSwitch` is the node MERGE with its ON CREATE and ON MATCH.
  - `MergeIsl` is the pattern MERGE of `precreate_isls`. Cypher matches the pattern as a whole or creates every part of it that was not bound before. Nothing is bound before that statement, so a new ISL comes with two new switch nodes.
- The callers of these functions are not in these sources, so any sequence of calls over two device ids is explored.

## 3. Runs

Each run below, with its cfg, is listed in `PROJECT.json`.

| Run | Checks | Result | What it shows |
|---|---|---|---|
| `store_core` | `TypeOK`, `BandwidthConsistent`, `SegmentsMatchFlows`, `ImplementsAbstract` | pass | See notes 1 and 3 |
| `store_faults` | `NoOrphanSegments` | pass | Up to two statement failures never leave segments without their flow, because the flow is merged before its segments and removal is one transaction |
| `store_reroute` | `BandwidthConsistent` | violation | Finding: bandwidth is recomputed over the new path, not the deleted segments' ISLs |
| `rules_reference` | `SynthesisMatchesReference` | pass | `build_rules` equals the reference rules for every well-formed flow of up to 4 path nodes, multi-switch and one-switch |
| `sync_core` | `ReconcileTypeOK`, `ValidateMatchesReference`, `SyncInstallsProper` | pass | See note 2 |
| `sync_transit` | `RepairMatchesSynthesis` | violation | Code bug: the transit port condition is never true, so the repair rule has the neighbours' ports |
| `sync_live_excess` | `LiveFlowNeverExcess` | violation | Finding: a validate call between `store_flow`'s flow MERGE and its segment MERGEs reports the stored flow's own cookie as excess |
| `lookup` | `DirectionExclusive`, `OldFlowIsCounterpart` | pass | See note 4 |
| `dump_frames` | `NoPointDumpedTwice`, `NoGapBeforeLastFrame`, `ReportedFrameWithinTotal`, `DumpEventuallyCoversWholeFrames` | pass | See note 5 |
| `dump_tail` | `DumpCoversWindow` | violation | Code bug: in a window holding a whole frame, the points of the last, partial frame before `TIME_STOP` are never dumped, though `steps_total` counts that frame. TLC's trace: start 0, stop 3, step 2; frame 0 is dumped and point 2 is lost |
| `topology_duplicates` | `SwitchIdUnique` | violation | Finding: `precreate_switches` then `precreate_isls` leaves two switch nodes with one device id |
| `writer_batches` | `SizeTracksPayload`, `PostedIsPrefix`, `EveryEntryPostedOnce` | pass | The incremental size is exact; whatever fails, OpenTSDB has a prefix of the stream, each entry once |

Notes on the passing runs:

1. `store_core`: three concurrent callers store and remove three flows that share an ISL, including an ignored-bandwidth flow and a flow with no path. Whenever no call is running, ISL bandwidth equals capacity minus booked bandwidth, and segments equal the paths of the stored flows.
2. `sync_core`: a validate call and a sync call for every switch interleave with a store caller. Every validate call the store did not disturb returns exactly the reference diff. The diff is computed with `RefHex`, an independent `c mod 2^W`, and covers system cookies reported as negative longs. A sync call given the same report on the same switch, with the store unchanged since the earlier of the two calls began, installs exactly the rules validate found proper (`SyncInstallsProper`). Validate compares raw longs and sync compares display forms, each with its own queries.
3. `store_core`, refinement: every step of `FlowStore` is a `Put`, a `Remove` or a stutter of the abstract store. This holds in every state, calls in progress included. An ISL that no running call is working on always has the available bandwidth of the completed flows. The run has no failures and paths fixed per key: the partial-failure reproduction below and the `store_reroute` finding show the refinement does not hold otherwise.
4. `lookup`: every subset of seven rows of two flows, in every row order. Each cookie has exactly one direction. `get_old_flow` returns a row of the new flow's flowid, with another cookie and the same direction, or raises the right error.
5. `dump_frames`: for every start, stop and frame size in the bounds, frames neither overlap nor leave gaps. The progress report never numbers a frame at or past the total it announces. Under weak fairness of the loop, every point up to the end of the last whole frame (`WholeFramesEnd`, computed arithmetically) is eventually dumped.

Six more disagreements with the design were found while modelling. Each is stated as a property, and its cfg reproduces the violation. They are recorded as hazards in `PROJECT.json` rather than as listed runs:

| Cfg | Property | What TLC shows |
|---|---|---|
| `MC_FlowStore_failure.cfg` | `SegmentsMatchFlows` | autocommitted statements leave a half-stored flow after a failure; the reader's side of the same sequence is `sync_live_excess` |
| `MC_RuleSynth_odd.cfg` | `OddPathRejected` | `get_rules` does not reject an odd-length path |
| `MC_SwitchSync_gap.cfg` | `InstalledRulesHaveCommands` | a cookie is reported installed with no command when the flow is removed mid-sync |
| `MC_SwitchSync_indexerror.cfg` | `SyncNeverFails` | a half-stored transit flow makes the whole sync raise IndexError |
| `MC_FlowLookup_every.cfg` | `GetFlowsReturnsEveryRecord` | `get_flows` drops one of two same-direction records of a flowid, which a flow holds during an update |
| `MC_TsdbWriter_limit.cfg` | `PayloadWithinLimit` | a batch is posted only after it has grown past `payload_limit` |

Every property of a passing run has a mutant in `PROJECT.json`: a plausible bug in a mapped definition that makes TLC report the property violated under that run's cfg. The mutated definitions are:

- a missing reset in the bandwidth recompute;
- ignored segments being counted;
- a MERGE keyed on the flow only;
- segments written before their flow;
- `remove_flow` recomputing bandwidth before deleting the segments;
- the vlan cases swapped;
- hex applied to the raw compare;
- `cookie_to_hex` as the identity;
- every group installed, listed or not;
- the legacy test of `is_forward_cookie` copied into `is_reverse_cookie`;
- `get_old_flow`'s query without its cookie filter;
- `datetime_align` rounding up;
- the one-second end offset dropped;
- the separator counted for the first entry;
- a flush that does not start a new batch;
- `close()` flushing only an over-limit batch;
- frames numbered from one;
- `finite_time_stream` breaking at an instant equal to the end.

## 4. Bounds and why they are enough

- **`MC_FlowStore`**
  - Three callers in `store_core`, under caller symmetry; two in the fault and reroute runs, where failures multiply the states.
  - Three ISLs (A→B, B→C, and a parallel A→B), each with capacity 100.
  - Three flow keys, chosen for specific cases:
    - F1 has two hops and shares A→B with F2.
    - F2 has an ignored twin.
    - F3 has an empty path.
    - An odd path exercises `get_flow_path`'s ValueError.
  - For the reroute run, F1 also has a rerouted twin.
  - Two callers are the least that can interleave on a shared ISL, and every statement boundary of `store_flow` is a state. Every ordering of two calls is therefore explored. With three callers, all three keys can have a call in progress at once, two of them on the shared ISL and the third on a flow with no path.
  - Symmetry of the callers is sound for the refinement too: the mapping treats every caller alike.
- **`MC_RuleSynth`**
  - Paths of 0-4 nodes, over 3 switches and 2 ports.
  - Vlan values 0 and one non-zero value at each end, so all four output actions occur.
  - Four nodes is the first length with an interior pair.
- **`MC_SwitchSync`**
  - One store caller and 8-bit cookies.
  - Flows: a forward and a reverse flow over A→B→C, plus a one-switch flow on B.
  - Switches A and B are reconciled. A is an ingress/egress switch and B is transit and one-switch.
  - Two switch reports:
    - a full report;
    - a partial report holding a system cookie that is negative at 8 bits.
  - The ignored set holds the three system cookies.
  - One store caller suffices for every interleaving of a store statement with a reconcile query.
- **`MC_FlowLookup`**
  - 12-bit cookies: the smallest width at which the legacy bit is below the three top bits and not one of them.
  - Two flowids, for the cases of an update:
    - FA has kilda-style forward and reverse cookies for two versions (ids 1 and 2).
    - FB has legacy forward and reverse cookies and a kilda-style forward cookie.
  - Every subset of these rows is reached, and both lookups are evaluated over every order of the rows.
  - No cookie is negative. Flow cookies never set bit 63, the system cookies' flag, so `Bits` on a negative long is not exercised here.
- **`MC_DumpFrames`**
  - Start and stop over 0..9, frame sizes 1..4 and data points at 0..12.
  - This covers aligned and unaligned starts, a stop before, on and after a frame boundary, and a window shorter than one frame.
  - `dump_tail` starts only from windows that hold at least one whole frame after the aligned start (`MC_WholeFrameSpec`). Its trace then shows frames being dumped before the stream ends inside the partial frame.
- **`MC_TopologyPrimitives`**
  - Two device ids, each written in either case, one port and at most 4 switch nodes.
  - Two switches are the least an ISL needs. The duplicate appears after two calls.
- **`MC_TsdbWriter`**
  - Streams of 4 entries of length 2 or 3, and limits 4, 7 and 10.
  - This covers a flush after the first entry, after several entries and at close only.

## 5. Fairness and liveness

One property is liveness: `DumpEventuallyCoversWholeFrames`, under `WF_dvars(Next)` of the dump loop.

- The fairness is justified by the code. `_dump_stream` is a plain for loop in the tool's only thread. While the generator chain can yield a frame, the loop takes it.
- The property checks two things at once: the loop ends, through `finite_time_stream`'s break, and it has reached the last whole frame by then.

No other run assumes fairness:

- a `store_flow` call runs one statement per hop of a finite path;
- a reconcile call runs one query and one lookup per segment group;
- the writer walks a finite stream.

Whether a store or reconcile call is scheduled at all depends on the worker threads and the database, which are not in these sources. A liveness property there would assume a fairness the code cannot justify.

## 6. Not modelled, and the plan

Not modelled:

- **`db.py`.** It only builds the driver. The database is abstracted as atomic statements.
- **`hydrate_flow`.** It only decodes JSON; a row is abstracted to its flowid and cookie.
- **`fetch_flow_segments`.** It only reads and has no caller in these sources.
- **The dump tool's option parsing, the report's timing average and printing, `utils`' time conversions and `HttpUrlFactory`.** These are formatting and I/O. A non-positive frame size is not rejected by the command line; it is recorded as a hazard.
- **The switch MERGEs inside `merge_flow_segments`.** `FlowStore` keeps the segment MERGE and takes its switches as present. The duplicate switches of `topology_duplicates` are not composed with the store.
- **Concurrent MERGEs of one switch.** Their isolation is Neo4j's. `TopologyPrimitives` takes each call as one transaction.
- **Same-key concurrency.** The design rules it out (§5) and the callers serialise it, so `KeyFree` is assumed.

Further work. These are the remaining parts that could be modelled faithfully:

1. The flow-update sequence `store_flow(new)` then `remove_flow(get_old_flow(new))` composed with `FlowLookup`, and failures between the two calls.
2. A shared `parent_cookie` configuration for the reconciler's grouping.
3. Composing `TopologyPrimitives` with `FlowStore`, to show what duplicate switch nodes do to segment MERGEs and the bandwidth recompute.
