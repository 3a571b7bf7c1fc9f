------------------------- MODULE TopologyPrimitives -------------------------
(***************************************************************************)
(* The switch and ISL upserts of flow_utils.py: precreate_switches and     *)
(* precreate_isls.  Each runs its MERGE statements in the caller's         *)
(* transaction tx, so one call is one atomic step of the model.            *)
(*                                                                         *)
(* The graph is a set of switch nodes, each with an identity of its own    *)
(* (Cypher never merges two nodes), and the :isl relationships between     *)
(* them.  A MERGE of a pattern binds every part of the pattern that exists *)
(* as a whole, and when there is no such match it creates every part of   *)
(* the pattern that was not bound before: precreate_isls binds nothing     *)
(* before its MERGE, so an ISL that does not exist yet is created together *)
(* with two new switch nodes.                                              *)
(*                                                                         *)
(* A device id is its hex value and the case its letters are written in;  *)
(* str.lower() is the one conversion the code applies to it.              *)
(***************************************************************************)
EXTENDS Integers, Sequences, SequencesExt, FiniteSets

CONSTANTS Dpids,      \* device ids, as numbers ordered like their hex strings
          Ports,      \* port numbers
          NoState,    \* a node created without a state property
          MaxNodes    \* bound on the switch nodes the graph may hold

VARIABLES node,       \* [1..n -> [name, state, override]]: the switch nodes
          isl         \* set of [src, dst (node ids), sport, dport, status]

tvars == <<node, isl>>

\* A dpid string: its value and whether its letters are upper case.
Names == [dpid : Dpids, upper : BOOLEAN]

\* x.lower().
Lower(n) == [n EXCEPT !.upper = FALSE]

\* An ISL as precreate_isls receives it: isl.source and isl.dest, on two
\* different switches.
Links == {l \in [src : Names, sport : Ports, dst : Names, dport : Ports] :
            l.src.dpid # l.dst.dpid}

NewSwitch(name, st) == [name |-> name, state |-> st, override |-> FALSE]

\* MERGE (sw:switch {name}) ON CREATE SET sw.state = 'inactive'
\* ON MATCH SET sw.tx_override_workaround = 'dummy', on the graph nodes g:
\* every node of that name is matched; with none, one is created.
MergeSwitch(g, name) ==
    LET hits == {i \in DOMAIN g : g[i].name = name}
    IN IF hits = {} THEN Append(g, NewSwitch(name, "inactive"))
       ELSE [i \in DOMAIN g |-> IF i \in hits THEN [g[i] EXCEPT !.override = TRUE]
                                             ELSE g[i]]

\* precreate_switches(tx, *nodes): the names lower-cased and sorted, then
\* one MERGE per name, each seeing the nodes the earlier ones created.
PrecreateSwitchesGraph(g, names) ==
    FoldLeft(MergeSwitch, g,
             SortSeq([i \in DOMAIN names |-> Lower(names[i])],
                     LAMBDA a, b : a.dpid < b.dpid))

\* The :isl relationships of the graph matching the whole MERGE pattern of
\* precreate_isls for link l: endpoints named as given, ports as given.
IslMatches(g, rels, l) ==
    {r \in rels : /\ g[r.src].name = l.src /\ g[r.dst].name = l.dst
                  /\ r.sport = l.sport /\ r.dport = l.dport}

\* One MERGE of precreate_isls over the graph <<g, rels>>: nothing when the
\* pattern matches (there is no ON MATCH); otherwise two new switch nodes,
\* without a state, and the relationship between them, status 'inactive'.
MergeIsl(gr, l) ==
    LET g == gr[1]  rels == gr[2]  n == Len(g)
    IN IF IslMatches(g, rels, l) # {} THEN gr
       ELSE << g \o << NewSwitch(l.src, NoState), NewSwitch(l.dst, NoState) >>,
               rels \cup {[src |-> n + 1, dst |-> n + 2, sport |-> l.sport,
                           dport |-> l.dport, status |-> "inactive"]} >>

\* precreate_isls(tx, *links): one MERGE per link, in sorted order (the
\* order does not change the result: a MERGE never binds what another
\* link's MERGE created, since its relationship has other properties).
PrecreateIslsGraph(gr, links) == FoldLeft(MergeIsl, gr, links)

Init ==
    /\ node = << >>
    /\ isl = {}

\* A caller runs precreate_switches in its transaction, which commits.
PrecreateSwitches ==
    \E names \in UNION {[1..k -> Names] : k \in 1..2} :
        /\ Len(PrecreateSwitchesGraph(node, names)) <= MaxNodes
        /\ node' = PrecreateSwitchesGraph(node, names)
        /\ UNCHANGED isl

\* A caller runs precreate_isls in its transaction, which commits.  A call
\* with several links is the calls with one link each, in sequence.
PrecreateIsls ==
    \E l \in Links :
        LET gr == PrecreateIslsGraph(<<node, isl>>, <<l>>)
        IN /\ Len(gr[1]) <= MaxNodes
           /\ node' = gr[1]
           /\ isl' = gr[2]

Next == PrecreateSwitches \/ PrecreateIsls

TopologySpec == Init /\ [][Next]_tvars

-----------------------------------------------------------------------------

\* The design's Switch: identified by its (case-insensitive) device id,
\* unique, created by an idempotent upsert.  Whatever sequence of
\* precreate_switches and precreate_isls calls the callers make, the graph
\* holds at most one switch node per device id.
SwitchIdUnique ==
    \A i, j \in DOMAIN node : i # j => node[i].name.dpid # node[j].name.dpid

=============================================================================
