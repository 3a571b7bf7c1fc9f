----------------------------- MODULE RuleSynth -----------------------------
(***************************************************************************)
(* Rule synthesis of flow_utils.py: choose_output_action, get_rules,      *)
(* get_one_switch_rules and build_rules turn a flow into the forwarding    *)
(* rules its switches must hold.  A flow is a record with src_switch,      *)
(* src_port, dst_switch, dst_port, src_vlan, dst_vlan, cookie and path    *)
(* (a sequence of [sw, port] nodes).  A rule is a record of its kind, the  *)
(* switch, the in- and out-port, the output action and the cookie; the    *)
(* wire encoding of message_utils is left out.                             *)
(***************************************************************************)
EXTENDS Integers, Sequences

\* get_rules raises ValueError on a non-paired interior node.
PathInconsistency == "PathInconsistency"

\* Mutant form: the vlan cases of choose_output_action swapped.
ChooseOutputActionSwapped(inVlan, outVlan) ==
    IF inVlan = 0 THEN IF outVlan # 0 THEN "POP" ELSE "NONE"
                  ELSE IF outVlan # 0 THEN "REPLACE" ELSE "PUSH"

\* choose_output_action(input_vlan_id, output_vlan_id)
ChooseOutputAction(inVlan, outVlan) ==
    IF inVlan = 0 THEN IF outVlan # 0 THEN "PUSH" ELSE "NONE"
                  ELSE IF outVlan # 0 THEN "REPLACE" ELSE "POP"

Rule(kind, sw, in, out, action, cookie) ==
    [kind |-> kind, sw |-> sw, in |-> in, out |-> out,
     action |-> action, cookie |-> cookie]

\* message_utils.build_ingress_flow: match src_port at the first switch,
\* push the transit vlan, output to the port of the first path node.
IngressRule(f, action) ==
    Rule("ingress", f.src_switch, f.src_port, f.path[1].port, action, f.cookie)

\* message_utils.build_intermediate_flows(switch, in_port, out_port, ...)
IntermediateRule(sw, in, out, cookie) ==
    Rule("intermediate", sw, in, out, "NONE", cookie)

\* message_utils.build_egress_flow: match the transit vlan on the port of
\* the last path node at dst_switch, output to dst_port.
EgressRule(f, action) ==
    Rule("egress", f.dst_switch, f.path[Len(f.path)].port, f.dst_port,
         action, f.cookie)

\* message_utils.build_one_switch_flow
OneSwitchRule(f, action) ==
    Rule("one_switch", f.src_switch, f.src_port, f.dst_port, action, f.cookie)

\* get_one_switch_rules
GetOneSwitchRules(f, action) == <<OneSwitchRule(f, action)>>

\* The interior pairs of get_rules: range(1, len(nodes)-1, 2) visits the
\* 1-based node pairs (2j, 2j+1), j = 1..InteriorCount.
InteriorCount(path) == (Len(path) - 1) \div 2

\* get_rules(...): no rules for an empty path; otherwise the ingress rule,
\* one intermediate rule per interior pair (ValueError if its two nodes are
\* on different switches), the egress rule.
GetRules(f, action) ==
    LET nodes == f.path
        k == InteriorCount(nodes)
    IN IF nodes = <<>> THEN <<>>
       ELSE IF \E j \in 1..k : nodes[2 * j].sw # nodes[2 * j + 1].sw
            THEN PathInconsistency
            ELSE <<IngressRule(f, action)>>
                 \o [j \in 1..k |-> IntermediateRule(nodes[2 * j].sw,
                                       nodes[2 * j].port, nodes[2 * j + 1].port,
                                       f.cookie)]
                 \o <<EgressRule(f, action)>>

\* build_rules(flow)
BuildRules(f) ==
    LET action == ChooseOutputAction(f.src_vlan, f.dst_vlan) IN
    IF f.src_switch = f.dst_switch THEN GetOneSwitchRules(f, action)
                                   ELSE GetRules(f, action)

=============================================================================
