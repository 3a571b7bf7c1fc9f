-------------------------- MODULE FlowStoreAbstract --------------------------
(***************************************************************************)
(* What the flow store promises its callers (design section 4.4): storing *)
(* a flow replaces the flow with its primary key, removing it deletes it,  *)
(* and each happens at once together with its bandwidth accounting: the   *)
(* available bandwidth of every ISL is its max_bandwidth minus the         *)
(* bandwidth of the stored flows with ignore_bandwidth = false whose path *)
(* crosses it.  A call that is rejected changes nothing.                   *)
(***************************************************************************)
EXTENDS Integers, Sequences, FiniteSetsExt

CONSTANTS Keys, ISLs, MaxBandwidth, FlowInputs, NoFlow

VARIABLES store,    \* [Keys -> flow or NoFlow]
          avail     \* [ISLs -> Int]: available bandwidth

\* The ISLs a flow's path crosses: its nodes taken two by two.
Crosses(f) ==
    {[src |-> f.path[i].sw, sport |-> f.path[i].port,
      dst |-> f.path[i + 1].sw, dport |-> f.path[i + 1].port] :
        i \in {j \in 1..Len(f.path) : j % 2 = 1 /\ j < Len(f.path)}}

\* Bandwidth reserved on l by the flows of st.
Reserved(st, l) ==
    MapThenSumSet(LAMBDA k : st[k].bw,
                  {k \in Keys : st[k] # NoFlow /\ ~st[k].ign /\ l \in Crosses(st[k])})

Availability(st) == [l \in ISLs |-> MaxBandwidth[l] - Reserved(st, l)]

\* A path a store call accepts.
Accepted(f) == Len(f.path) % 2 = 0

AInit ==
    /\ store = [k \in Keys |-> NoFlow]
    /\ avail = Availability(store)

Put(f) ==
    /\ Accepted(f)
    /\ store' = [store EXCEPT ![f.key] = f]
    /\ avail' = Availability(store')

Remove(f) ==
    /\ Accepted(f)
    /\ store' = [store EXCEPT ![f.key] = NoFlow]
    /\ avail' = Availability(store')

ANext == \E f \in FlowInputs : Put(f) \/ Remove(f)

ASpec == AInit /\ [][ANext]_<<store, avail>>

=============================================================================
