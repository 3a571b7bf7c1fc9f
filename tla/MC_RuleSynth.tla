---------------------------- MODULE MC_RuleSynth ----------------------------
(***************************************************************************)
(* build_rules checked against a reference definition of the rules a flow *)
(* needs, over every flow with a path of up to MaxNodes nodes drawn from   *)
(* two ports on each of three switches, every endpoint switch pair and     *)
(* both zero and non-zero vlans.  A behaviour grows the flow's path one   *)
(* node at a time, so every reachable state is one build_rules input.     *)
(***************************************************************************)
EXTENDS RuleSynth, FiniteSets

CONSTANTS A, B, C, MaxNodes, Cookie

VARIABLE flow

Switches == {A, B, C}
Nodes == [sw : Switches, port : {1, 2}]
Paths == UNION {[1..n -> Nodes] : n \in 0..MaxNodes}
Flows == [src_switch : Switches, src_port : {3}, src_vlan : {0, 7},
          dst_switch : Switches, dst_port : {4}, dst_vlan : {0, 9},
          cookie : {Cookie}, path : Paths]

Init == flow \in {f \in Flows : f.path = <<>>}
AppendNode == /\ Len(flow.path) < MaxNodes
              /\ \E n \in Nodes : flow' = [flow EXCEPT !.path = Append(@, n)]
ClearPath == flow' = [flow EXCEPT !.path = <<>>]
Next == AppendNode \/ ClearPath
Spec == Init /\ [][Next]_flow

(***************************************************************************)
(* Reference: the rules of section 4.3 of the design.  A well-formed path  *)
(* of 2n nodes is n hops; consecutive hops meet on one switch and the     *)
(* path starts at src_switch and ends at dst_switch.  Rule j sits where   *)
(* hop j-1 ends and hop j begins.                                         *)
(***************************************************************************)
ActionTable(in, out) ==
    CASE in = 0 /\ out = 0 -> "NONE"
      [] in = 0 /\ out # 0 -> "PUSH"
      [] in # 0 /\ out = 0 -> "POP"
      [] in # 0 /\ out # 0 -> "REPLACE"

Paired(p) == \A j \in 1..(Len(p) \div 2 - 1) : p[2 * j].sw = p[2 * j + 1].sw

WellFormed(f) ==
    /\ f.src_switch # f.dst_switch
    /\ Len(f.path) >= 2 /\ Len(f.path) % 2 = 0
    /\ Paired(f.path)
    /\ f.path[1].sw = f.src_switch /\ f.path[Len(f.path)].sw = f.dst_switch

ReferenceRules(f) ==
    LET p == f.path
        n == Len(p) \div 2
        act == ActionTable(f.src_vlan, f.dst_vlan)
    IN [j \in 1..n + 1 |->
          [kind   |-> IF j = 1 THEN "ingress"
                      ELSE IF j = n + 1 THEN "egress" ELSE "intermediate",
           sw     |-> IF j = 1 THEN f.src_switch ELSE p[2 * j - 2].sw,
           in     |-> IF j = 1 THEN f.src_port ELSE p[2 * j - 2].port,
           out    |-> IF j = n + 1 THEN f.dst_port ELSE p[2 * j - 1].port,
           action |-> IF j \in {1, n + 1} THEN act ELSE "NONE",
           cookie |-> f.cookie]]

\* For every well-formed multi-switch flow build_rules yields exactly the
\* reference rules: n+1 rules for 2n nodes, each on the right switch with
\* the ports that chain the hops and the vlan action of the table; for a
\* one-switch flow, one rule from src_port to dst_port.
SynthesisMatchesReference ==
    /\ WellFormed(flow) => BuildRules(flow) = ReferenceRules(flow)
    /\ flow.src_switch = flow.dst_switch =>
          BuildRules(flow) =
             <<[kind |-> "one_switch", sw |-> flow.src_switch,
                in |-> flow.src_port, out |-> flow.dst_port,
                action |-> ActionTable(flow.src_vlan, flow.dst_vlan),
                cookie |-> flow.cookie]>>

\* The design (4.3): a multi-switch flow whose path has an odd number of
\* nodes is rejected with PathInconsistency before any rule is emitted.
OddPathRejected ==
    (flow.src_switch # flow.dst_switch /\ Len(flow.path) % 2 = 1)
       => BuildRules(flow) = PathInconsistency
=============================================================================
