----------------------------- MODULE FlowStore -----------------------------
(***************************************************************************)
(* The flow and flow-segment store of the topology engine (flow_utils.py): *)
(* store_flow, remove_flow and the helpers they call, run by concurrent    *)
(* callers against one shared graph store.                                 *)
(*                                                                         *)
(* store_flow is called without a transaction, so every graph statement it *)
(* issues (one DELETE, one ISL bandwidth recompute per hop, the MERGE of   *)
(* the flow, one MERGE per segment, one recompute per hop again) commits   *)
(* on its own and is one action step here.  remove_flow opens its own     *)
(* transaction and commits once at the end, so it is one atomic step.      *)
(* A failing statement (StoreUnavailable) ends the call with an exception  *)
(* and leaves the statements already committed in place.                   *)
(***************************************************************************)
EXTENDS Integers, Sequences, FiniteSets, FiniteSetsExt, TLC

CONSTANTS
    Procs,          \* callers of the store (request handlers)
    Keys,           \* flow primary keys: one (flowid, cookie) pair each
    ISLs,           \* ISL edges of the graph: [src, sport, dst, dport]
    MaxBandwidth,   \* [ISLs -> Nat]: max_bandwidth of each ISL
    FlowInputs,     \* flow dicts callers pass: [key, path, bw, ign]
    MaxFailures,    \* bound on StoreUnavailable failures of statements
    NoFlow          \* no :flow relationship for the key

VARIABLES
    flows,      \* [Keys -> flow record or NoFlow]: the :flow relationships
    segs,       \* set of :flow_segment relationships
    avail,      \* [ISLs -> Int]: available_bandwidth of each ISL
    pc,         \* [Procs -> statement a caller's store_flow is at]
    arg,        \* [Procs -> flow dict of the caller's current call]
    hop,        \* [Procs -> index of the hop the current loop is at]
    ret,        \* [Procs -> outcome of the caller's last call]
    failures    \* StoreUnavailable failures so far

vars == <<flows, segs, avail, pc, arg, hop, ret, failures>>

Outcomes == {"none", "ok", "PathInconsistency", "StoreUnavailable"}

(***************************************************************************)
(* Path helpers.  A flowpath is a sequence of [sw, port] nodes, two per    *)
(* ISL traversal (get_flow_path, update_flow_segment_available_bw).        *)
(***************************************************************************)
EvenPath(path) == Len(path) % 2 = 0

NumHops(f) == Len(f.path) \div 2

\* The hop between nodes 2i-1 and 2i, in the shape of an ISL key.
Hop(f, i) == [src   |-> f.path[2 * i - 1].sw, sport |-> f.path[2 * i - 1].port,
              dst   |-> f.path[2 * i].sw,     dport |-> f.path[2 * i].port]

Hops(f) == {Hop(f, i) : i \in 1..NumHops(f)}

\* The :flow_segment that merge_flow_segments writes for hop i.
Segment(f, i) == [key |-> f.key, bw |-> f.bw, ign |-> f.ign] @@ Hop(f, i)

SegmentsOf(f) == {Segment(f, i) : i \in 1..NumHops(f)}

\* Segments of a flow: the DELETE / MATCH pattern {flowid, parent_cookie}.
SegsOfKey(S, k) == {s \in S : s.key = k}

\* The OPTIONAL MATCH of update_isl_bandwidth: segments on the ISL's
\* switches and ports with ignore_bandwidth = false, summed.
OnLink(s, l) ==
    /\ s.src = l.src /\ s.sport = l.sport
    /\ s.dst = l.dst /\ s.dport = l.dport

\* Mutant form: the ignore_bandwidth filter dropped from the aggregate.
UsedBandwidthCountsIgnored(S, l) ==
    MapThenSumSet(LAMBDA s : s.bw, {s \in S : OnLink(s, l)})

UsedBandwidth(S, l) ==
    MapThenSumSet(LAMBDA s : s.bw, {s \in S : OnLink(s, l) /\ ~s.ign})

\* update_isl_bandwidth for every ISL in L that exists (MATCH on the ISL).
Recompute(S, L) ==
    [l \in ISLs |-> IF l \in L THEN MaxBandwidth[l] - UsedBandwidth(S, l)
                               ELSE avail[l]]

\* Same-flow calls are serialised by the caller (per-flow lock / queue).
KeyFree(k) == \A q \in Procs : pc[q] # "idle" => arg[q].key # k

Idle(p) == pc[p] = "idle"

Quiescent == \A p \in Procs : Idle(p)

(***************************************************************************)
(* Mutant forms of the store_flow steps below, each a plausible slip in   *)
(* the code they model; the properties must catch them.                   *)
(***************************************************************************)
\* The flow is merged after its segments instead of before them.
StoreFlowSegmentsFirst(p, f) ==
    /\ Idle(p) /\ KeyFree(f.key)
    /\ EvenPath(f.path)
    /\ segs' = segs \ SegsOfKey(segs, f.key)
    /\ pc' = [pc EXCEPT ![p] = IF NumHops(f) = 0 THEN "merge_flow"
                                                  ELSE "merge_seg"]
    /\ arg' = [arg EXCEPT ![p] = f]
    /\ hop' = [hop EXCEPT ![p] = 1]
    /\ ret' = [ret EXCEPT ![p] = "none"]
    /\ UNCHANGED <<flows, avail, failures>>

\* The segment MERGE matched on {flowid, parent_cookie} alone.
MergeFlowSegmentByKey(p) ==
    /\ pc[p] = "merge_seg"
    /\ segs' = (segs \ SegsOfKey(segs, arg[p].key)) \cup {Segment(arg[p], hop[p])}
    /\ pc' = [pc EXCEPT ![p] = IF hop[p] = NumHops(arg[p]) THEN "segment_bw"
                                                           ELSE "merge_seg"]
    /\ hop' = [hop EXCEPT ![p] = IF hop[p] = NumHops(arg[p]) THEN 1
                                                             ELSE hop[p] + 1]
    /\ UNCHANGED <<flows, avail, arg, ret, failures>>

\* The hop index not reset when the last recompute loop ends.
SegmentsBandwidthNoReset(p) ==
    LET last == hop[p] = NumHops(arg[p]) IN
    /\ pc[p] = "segment_bw"
    /\ avail' = Recompute(segs, {Hop(arg[p], hop[p])})
    /\ pc' = [pc EXCEPT ![p] = IF last THEN "idle" ELSE "segment_bw"]
    /\ hop' = [hop EXCEPT ![p] = hop[p] + 1]
    /\ ret' = [ret EXCEPT ![p] = IF last THEN "ok" ELSE ret[p]]
    /\ UNCHANGED <<flows, segs, arg, failures>>

Init ==
    /\ flows = [k \in Keys |-> NoFlow]
    /\ segs = {}
    /\ avail = MaxBandwidth
    /\ pc = [p \in Procs |-> "idle"]
    /\ arg = [p \in Procs |-> CHOOSE f \in FlowInputs : TRUE]
    /\ hop = [p \in Procs |-> 1]
    /\ ret = [p \in Procs |-> "none"]
    /\ failures = 0

(***************************************************************************)
(* store_flow(flow): delete_flow_segments starts with get_flow_path, which *)
(* raises on an odd path before any statement runs; otherwise it DELETEs  *)
(* the segments keyed by (flowid, cookie).                                 *)
(***************************************************************************)
StoreFlowPathInconsistent(p, f) ==
    /\ Idle(p) /\ KeyFree(f.key)
    /\ ~EvenPath(f.path)
    /\ ret' = [ret EXCEPT ![p] = "PathInconsistency"]
    /\ arg' = [arg EXCEPT ![p] = f]
    /\ UNCHANGED <<flows, segs, avail, pc, hop, failures>>

StoreFlowDeleteSegments(p, f) ==
    /\ Idle(p) /\ KeyFree(f.key)
    /\ EvenPath(f.path)
    /\ segs' = segs \ SegsOfKey(segs, f.key)
    /\ pc' = [pc EXCEPT ![p] = IF NumHops(f) = 0 THEN "merge_flow"
                                                  ELSE "delete_bw"]
    /\ arg' = [arg EXCEPT ![p] = f]
    /\ hop' = [hop EXCEPT ![p] = 1]
    /\ ret' = [ret EXCEPT ![p] = "none"]
    /\ UNCHANGED <<flows, avail, failures>>

\* delete_flow_segments -> update_flow_segment_available_bw(flow): one
\* recompute per hop of the path of the flow passed in.
DeleteSegmentsBandwidth(p) ==
    /\ pc[p] = "delete_bw"
    /\ avail' = Recompute(segs, {Hop(arg[p], hop[p])})
    /\ pc' = [pc EXCEPT ![p] = IF hop[p] = NumHops(arg[p]) THEN "merge_flow"
                                                           ELSE "delete_bw"]
    /\ hop' = [hop EXCEPT ![p] = IF hop[p] = NumHops(arg[p]) THEN 1
                                                             ELSE hop[p] + 1]
    /\ UNCHANGED <<flows, segs, arg, ret, failures>>

\* merge_flow_relationship: MERGE the :flow on its primary keys and SET
\* every attribute.
MergeFlowRelationship(p) ==
    /\ pc[p] = "merge_flow"
    /\ flows' = [flows EXCEPT ![arg[p].key] = arg[p]]
    /\ pc' = [pc EXCEPT ![p] = IF NumHops(arg[p]) = 0 THEN "idle"
                                                      ELSE "merge_seg"]
    /\ ret' = [ret EXCEPT ![p] = IF NumHops(arg[p]) = 0 THEN "ok"
                                                        ELSE ret[p]]
    /\ UNCHANGED <<segs, avail, arg, hop, failures>>

\* merge_flow_segments: one MERGE per hop, matched on the two switches and
\* {flowid, parent_cookie}, then SET of ports and bandwidth.
MergeFlowSegment(p) ==
    LET f == arg[p]
        h == Hop(f, hop[p])
        old == {s \in SegsOfKey(segs, f.key) : s.src = h.src /\ s.dst = h.dst}
    IN
    /\ pc[p] = "merge_seg"
    /\ segs' = (segs \ old) \cup {Segment(f, hop[p])}
    /\ pc' = [pc EXCEPT ![p] = IF hop[p] = NumHops(f) THEN "segment_bw"
                                                      ELSE "merge_seg"]
    /\ hop' = [hop EXCEPT ![p] = IF hop[p] = NumHops(f) THEN 1 ELSE hop[p] + 1]
    /\ UNCHANGED <<flows, avail, arg, ret, failures>>

\* merge_flow_segments -> update_flow_segment_available_bw(flow).
SegmentsBandwidth(p) ==
    LET last == hop[p] = NumHops(arg[p]) IN
    /\ pc[p] = "segment_bw"
    /\ avail' = Recompute(segs, {Hop(arg[p], hop[p])})
    /\ pc' = [pc EXCEPT ![p] = IF last THEN "idle" ELSE "segment_bw"]
    /\ hop' = [hop EXCEPT ![p] = IF last THEN 1 ELSE hop[p] + 1]
    /\ ret' = [ret EXCEPT ![p] = IF last THEN "ok" ELSE ret[p]]
    /\ UNCHANGED <<flows, segs, arg, failures>>

\* The next statement of a store_flow call fails; the exception leaves
\* the statements already run committed.
StatementFails(p) ==
    /\ ~Idle(p)
    /\ failures < MaxFailures
    /\ failures' = failures + 1
    /\ pc' = [pc EXCEPT ![p] = "idle"]
    /\ hop' = [hop EXCEPT ![p] = 1]
    /\ ret' = [ret EXCEPT ![p] = "StoreUnavailable"]
    /\ UNCHANGED <<flows, segs, avail, arg>>

\* Mutant form: the ISLs recomputed before the segments are deleted.
RemoveFlowRecomputeFirst(p, f) ==
    /\ Idle(p) /\ KeyFree(f.key)
    /\ arg' = [arg EXCEPT ![p] = f]
    /\ \/ /\ ~EvenPath(f.path)
          /\ ret' = [ret EXCEPT ![p] = "PathInconsistency"]
          /\ UNCHANGED <<flows, segs, avail>>
       \/ /\ EvenPath(f.path)
          /\ segs' = segs \ SegsOfKey(segs, f.key)
          /\ avail' = Recompute(segs, Hops(f))
          /\ flows' = [flows EXCEPT ![f.key] = NoFlow]
          /\ ret' = [ret EXCEPT ![p] = "ok"]
    /\ UNCHANGED <<pc, hop, failures>>

(***************************************************************************)
(* remove_flow(flow): in its own transaction, delete_flow_segments (odd   *)
(* path raises first; DELETE by key; recompute the hops of the flow passed *)
(* in), then DELETE the :flow with that flowid and cookie, then commit.    *)
(***************************************************************************)
RemoveFlow(p, f) ==
    /\ Idle(p) /\ KeyFree(f.key)
    /\ arg' = [arg EXCEPT ![p] = f]
    /\ \/ /\ ~EvenPath(f.path)
          /\ ret' = [ret EXCEPT ![p] = "PathInconsistency"]
          /\ UNCHANGED <<flows, segs, avail>>
       \/ /\ EvenPath(f.path)
          /\ segs' = segs \ SegsOfKey(segs, f.key)
          /\ avail' = Recompute(segs', Hops(f))
          /\ flows' = [flows EXCEPT ![f.key] = NoFlow]
          /\ ret' = [ret EXCEPT ![p] = "ok"]
    /\ UNCHANGED <<pc, hop, failures>>

Next ==
    \/ \E p \in Procs, f \in FlowInputs :
          \/ StoreFlowPathInconsistent(p, f)
          \/ StoreFlowDeleteSegments(p, f)
          \/ RemoveFlow(p, f)
    \/ \E p \in Procs :
          \/ DeleteSegmentsBandwidth(p)
          \/ MergeFlowRelationship(p)
          \/ MergeFlowSegment(p)
          \/ SegmentsBandwidth(p)
          \/ StatementFails(p)

Spec == Init /\ [][Next]_vars

(***************************************************************************)
(* Properties                                                              *)
(***************************************************************************)
MaxHops == Max({NumHops(f) : f \in FlowInputs} \cup {1})

\* Every variable ranges over the values the code can give it; in
\* particular the hop loops of store_flow never run past the last hop.
TypeOK ==
    /\ flows \in [Keys -> FlowInputs \cup {NoFlow}]
    /\ \A s \in segs : s.key \in Keys /\ [src |-> s.src, sport |-> s.sport,
                                           dst |-> s.dst, dport |-> s.dport]
                                          \in UNION {Hops(f) : f \in FlowInputs}
    /\ avail \in [ISLs -> Int]
    /\ hop \in [Procs -> 1..MaxHops]
    /\ pc \in [Procs -> {"idle", "delete_bw", "merge_flow", "merge_seg",
                         "segment_bw"}]
    /\ arg \in [Procs -> FlowInputs]
    /\ ret \in [Procs -> Outcomes]
    /\ failures \in 0..MaxFailures

\* The ISL invariant of the data model: whenever no store call is running,
\* every ISL's available_bandwidth equals max_bandwidth minus the bandwidth
\* of the non-ignored segments on it.  store_flow and remove_flow keep it by
\* recomputing the ISLs of the flow they are given after every change.
BandwidthConsistent ==
    LET Booked(l) == {s \in segs : /\ s.src = l.src /\ s.sport = l.sport
                                   /\ s.dst = l.dst /\ s.dport = l.dport
                                   /\ s.ign = FALSE}
    IN Quiescent =>
        \A l \in ISLs :
            avail[l] = MaxBandwidth[l] - MapThenSumSet(LAMBDA s : s.bw, Booked(l))

\* Delete-then-recreate: whenever no store call is running, the segments of
\* every flow key are exactly the hops of the stored flow's path (none if
\* the flow is absent): store_flow never leaves a stale or missing segment.
SegmentsMatchFlows ==
    Quiescent =>
        \A k \in Keys :
            SegsOfKey(segs, k) = IF flows[k] = NoFlow THEN {}
                                 ELSE SegmentsOf(flows[k])

\* In every state, even mid-call and after failed statements, each segment
\* belongs to a stored flow: store_flow merges the :flow before its
\* segments and remove_flow deletes both in one transaction.  The repair
\* path (command_from_segment) looks the flow up from a segment.
NoOrphanSegments ==
    \A s \in segs : flows[s.key] # NoFlow

(***************************************************************************)
(* Refinement of FlowStoreAbstract.  A running store_flow call is mapped   *)
(* to its completed effect: the abstract Put happens at its first step,    *)
(* the DELETE of the old segments.  The abstract available bandwidth of    *)
(* an ISL a running call has still to recompute is the abstract one; of    *)
(* every other ISL it is the ISL's available_bandwidth in the store.       *)
(***************************************************************************)
AbsOps == INSTANCE FlowStoreAbstract WITH store <- flows, avail <- avail

Active(p) == ~Idle(p)

\* The flows as they will be once every running store_flow has finished.
CompletedFlows ==
    [k \in Keys |-> IF \E p \in Procs : Active(p) /\ arg[p].key = k
                    THEN arg[CHOOSE p \in Procs : Active(p) /\ arg[p].key = k]
                    ELSE flows[k]]

\* An ISL on the path of a running call, whose recompute may be pending.
InFlight(l) == \E p \in Procs : Active(p) /\ l \in Hops(arg[p])

MappedAvail ==
    [l \in ISLs |-> IF InFlight(l) THEN AbsOps!Availability(CompletedFlows)[l]
                                   ELSE avail[l]]

Abstract == INSTANCE FlowStoreAbstract
                WITH store <- CompletedFlows, avail <- MappedAvail

\* store_flow and remove_flow implement atomic Put and Remove of a flow
\* with its bandwidth accounting: every step either is a whole Put or
\* Remove, or changes nothing a caller can rely on, and an ISL no call is
\* working on always shows max_bandwidth minus the bandwidth the stored
\* flows book on it, even while other flows' calls are half-way through.
ImplementsAbstract == Abstract!ASpec

=============================================================================
