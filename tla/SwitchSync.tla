---------------------------- MODULE SwitchSync ----------------------------
(***************************************************************************)
(* The switch-rule reconciler of flow_utils.py, composed with the flow     *)
(* store it reads.  validate_switch_rules(switch_id, switch_rules) diffs   *)
(* the cookies a switch reports against the flows the store says it must  *)
(* carry; build_commands_to_sync_rules(switch_id, switch_rules) rebuilds   *)
(* the install commands of the listed cookies (command_from_segment).      *)
(* Each graph query of these calls is one step, so store_flow and         *)
(* remove_flow statements of other callers interleave with them.          *)
(*                                                                         *)
(* A flow key is a record [flowid, cookie]; a cookie is a W-bit signed     *)
(* integer (the 64-bit Neo4j long, scaled down to W bits).                 *)
(***************************************************************************)
EXTENDS FlowStore, RuleSynth, Bitwise

CONSTANTS
    Switches,       \* switch names
    W,              \* cookie width in bits
    Reports,        \* cookie sets a switch may report (raw longs)
    NoSwitch        \* no call has run yet

VARIABLES
    vpc, vsw, vraw, vmissing, vproper, vexcess, vdirty, vlive,
    spc, ssw, srules, pending, installed, commands, sresult, sdirty

vvars == <<vpc, vsw, vraw, vmissing, vproper, vexcess, vdirty, vlive>>
svars == <<spc, ssw, srules, pending, installed, commands, sresult, sdirty>>
allvars == <<vars, vvars, svars>>

\* ignored_rules: the hex display of the system cookies 0x8000000000000001
\* to 0x8000000000000003, at width W.
IgnoredRules == {2^(W - 1) + i : i \in 1..3}

(***************************************************************************)
(* cookie_to_hex: a negative cookie is turned into its unsigned value by  *)
(* ((cookie ^ 0xff..ff) + 1) * -1, with Python's xor on a negative int;   *)
(* hex() spells the value, so the display form is modelled by its value.  *)
(***************************************************************************)
Mask == 2^W - 1

\* Python's int xor of a negative c (>= -2^(W-1)) with Mask, computed on
\* W+1 bit two's complement, where c's sign bit lies.
PyXorNeg(c) == ((c + 2^(W + 1)) ^^ Mask) - 2^(W + 1)

\* Mutant form: the sign handling dropped.
CookieToHexSigned(c) == c

CookieToHex(c) == IF c < 0 THEN (PyXorNeg(c) + 1) * (-1) ELSE c

(***************************************************************************)
(* get_flow_segment_pairs_for_switch: segments with sw at either end,      *)
(* grouped by parent_cookie (not by flowid).                               *)
(***************************************************************************)
Touches(s, sw) == s.src = sw \/ s.dst = sw

SegmentPairs(sw) ==
    LET touching == {s \in segs : Touches(s, sw)}
    IN {{s \in touching : s.key.cookie = c} : c \in {s.key.cookie : s \in touching}}

ParentCookie(group) == (CHOOSE s \in group : TRUE).key.cookie

\* get_one_switch_flows: the :flow relationships from sw to sw.
OneSwitchFlows(sw) ==
    {flows[k] : k \in {k \in Keys : flows[k] # NoFlow
                                     /\ flows[k].src_switch = sw
                                     /\ flows[k].dst_switch = sw}}

Action(f) == ChooseOutputAction(f.src_vlan, f.dst_vlan)

\* message_utils.build_*_from_db: the rule of the stored flow.
OneSwitchFromDb(f) == OneSwitchRule(f, Action(f))
IngressFromDb(f) == IngressRule(f, Action(f))
EgressFromDb(f) == EgressRule(f, Action(f))

(***************************************************************************)
(* command_from_segment(segment_pair, switch_id) once the flow of the      *)
(* left segment has been found: the commands it yields.  left and right   *)
(* are segment_pair[0] and segment_pair[1] in query-result order.          *)
(***************************************************************************)
CommandsFromSegment(left, right, f, sw) ==
    LET transit == f.src_switch # sw /\ f.dst_switch # sw
        inPort  == IF left.dst = sw /\ left.src = sw THEN left.dport
                                                     ELSE right.dport
        outPort == IF left.dst = sw /\ left.src = sw THEN right.sport
                                                     ELSE left.sport
    IN (IF left.src = left.dst THEN {OneSwitchFromDb(f)} ELSE {})
       \cup (IF transit
             THEN {IntermediateRule(sw, inPort, outPort, left.key.cookie)}
             ELSE IF left.src = sw THEN {IngressFromDb(f)}
                                   ELSE {EgressFromDb(f)})

ReconcileTypeOK ==
    /\ vpc \in {"idle", "one_switch"}
    /\ spc \in {"idle", "lookup", "one_switch"}
    /\ vsw \in Switches \cup {NoSwitch} /\ ssw \in Switches \cup {NoSwitch}
    /\ vraw \in Reports \cup {{}}
    /\ srules \in {{CookieToHex(c) : c \in r} : r \in Reports \cup {{}}}
    /\ vmissing \cup vproper \cup vexcess \cup installed \subseteq Int
    /\ sresult \in {"none", "ok", "IndexError"}
    /\ vdirty \in BOOLEAN /\ sdirty \in BOOLEAN

ReconcileInit ==
    /\ vpc = "idle" /\ vsw = NoSwitch /\ vraw = {}
    /\ vmissing = {} /\ vproper = {} /\ vexcess = {} /\ vdirty = FALSE
    /\ vlive = {}
    /\ spc = "idle" /\ ssw = NoSwitch /\ srules = {} /\ pending = {}
    /\ installed = {} /\ commands = {} /\ sresult = "none" /\ sdirty = FALSE

(***************************************************************************)
(* validate_switch_rules: the segment query and its classification, then  *)
(* the one-switch flow query, its classification and the excess loop.     *)
(***************************************************************************)
\* Mutant form: the reported cookies kept in display form.
ValidateSegmentsHexInput(sw, raw) ==
    LET cookies == {ParentCookie(g) : g \in SegmentPairs(sw)}
    IN
    /\ vpc = "idle"
    /\ vpc' = "one_switch" /\ vsw' = sw /\ vdirty' = FALSE
    /\ vlive' = {k \in Keys : flows[k] # NoFlow}
    /\ vraw' = {CookieToHex(c) : c \in raw}
    /\ vmissing' = {CookieToHex(c) : c \in cookies \ raw}
    /\ vproper' = {CookieToHex(c) : c \in cookies \cap raw}
    /\ vexcess' = {}
    /\ UNCHANGED <<vars, svars>>

ValidateSegments(sw, raw) ==
    LET cookies == {ParentCookie(g) : g \in SegmentPairs(sw)}
    IN
    /\ vpc = "idle"
    /\ vpc' = "one_switch" /\ vsw' = sw /\ vraw' = raw /\ vdirty' = FALSE
    /\ vlive' = {k \in Keys : flows[k] # NoFlow}
    /\ vmissing' = {CookieToHex(c) : c \in cookies \ raw}
    /\ vproper' = {CookieToHex(c) : c \in cookies \cap raw}
    /\ vexcess' = {}
    /\ UNCHANGED <<vars, svars>>

ValidateOneSwitch ==
    LET cookies == {f.cookie : f \in OneSwitchFlows(vsw)}
        proper  == vproper \cup {CookieToHex(c) : c \in cookies \cap vraw}
    IN
    /\ vpc = "one_switch"
    /\ vpc' = "idle"
    /\ vmissing' = vmissing \cup {CookieToHex(c) : c \in cookies \ vraw}
    /\ vproper' = proper
    /\ vexcess' = {h \in {CookieToHex(c) : c \in vraw} :
                      h \notin proper /\ h \notin IgnoredRules}
    /\ UNCHANGED <<vars, svars, vsw, vraw, vdirty, vlive>>

(***************************************************************************)
(* build_commands_to_sync_rules: the segment query marks every group whose *)
(* cookie is listed as installed; command_from_segment then looks each    *)
(* group's flow up with its own query; last the one-switch flow query,    *)
(* which is also the next step when no listed group was found.            *)
(***************************************************************************)
\* Mutant form: every group marked installed, listed or not.
SyncSegmentsAll(sw, rules) ==
    /\ spc = "idle"
    /\ ssw' = sw /\ srules' = rules /\ sdirty' = FALSE
    /\ pending' = {g \in SegmentPairs(sw) : CookieToHex(ParentCookie(g)) \in rules}
    /\ spc' = IF pending' = {} THEN "one_switch" ELSE "lookup"
    /\ installed' = {CookieToHex(ParentCookie(g)) : g \in SegmentPairs(sw)}
    /\ commands' = {}
    /\ sresult' = "none"
    /\ UNCHANGED <<vars, vvars>>

SyncSegments(sw, rules) ==
    LET listed == {g \in SegmentPairs(sw) : CookieToHex(ParentCookie(g)) \in rules}
    IN
    /\ spc = "idle"
    /\ ssw' = sw /\ srules' = rules /\ sdirty' = FALSE
    /\ pending' = listed
    /\ spc' = IF listed = {} THEN "one_switch" ELSE "lookup"
    /\ installed' = {CookieToHex(ParentCookie(g)) : g \in listed}
    /\ commands' = {}
    /\ sresult' = "none"
    /\ UNCHANGED <<vars, vvars>>

\* command_from_segment for one group, in either query-result order.  The
\* flow query misses: nothing is yielded.  A transit switch with a single
\* segment in its group: segment_pair[1] raises IndexError, ending the call.
SyncLookup ==
    /\ spc = "lookup"
    /\ \E g \in pending, left \in UNION pending :
          LET k == left.key
              f == flows[k]
              transit == f # NoFlow /\ f.src_switch # ssw /\ f.dst_switch # ssw
          IN
          /\ left \in g
          /\ IF transit /\ g = {left}
             THEN /\ spc' = "idle" /\ sresult' = "IndexError"
                  /\ UNCHANGED <<pending, commands>>
             ELSE /\ pending' = pending \ {g}
                  /\ \E right \in (IF g = {left} THEN {left} ELSE g \ {left}) :
                        commands' = commands \cup
                          IF f = NoFlow THEN {}
                          ELSE {[rule |-> r, flow |-> f] :
                                  r \in CommandsFromSegment(left, right, f, ssw)}
                  /\ spc' = IF pending' = {} THEN "one_switch" ELSE "lookup"
                  /\ UNCHANGED sresult
    /\ UNCHANGED <<vars, vvars, ssw, srules, installed, sdirty>>

SyncOneSwitch ==
    LET listed == {f \in OneSwitchFlows(ssw) : CookieToHex(f.cookie) \in srules}
    IN
    /\ spc = "one_switch"
    /\ spc' = "idle"
    /\ installed' = installed \cup {CookieToHex(f.cookie) : f \in listed}
    /\ commands' = commands \cup {[rule |-> OneSwitchFromDb(f), flow |-> f] :
                                    f \in listed}
    /\ sresult' = "ok"
    /\ UNCHANGED <<vars, vvars, ssw, srules, pending, sdirty>>

\* A store statement of another caller.  The ghost flags vdirty / sdirty
\* record that the flows or segments changed since the last reconcile call
\* began, so that its result can be compared with the store as it is; the
\* ghost vlive keeps the flow keys whose :flow record has stayed stored and
\* unchanged since the last validate call began.
StoreStep ==
    /\ Next
    /\ LET changed == flows' # flows \/ segs' # segs IN
       /\ vdirty' = (vdirty \/ changed)
       /\ sdirty' = (sdirty \/ changed)
    /\ vlive' = {k \in vlive : flows'[k] = flows[k]}
    /\ UNCHANGED <<vpc, vsw, vraw, vmissing, vproper, vexcess,
                   spc, ssw, srules, pending, installed, commands, sresult>>

SyncNext ==
    \/ StoreStep
    \/ \E sw \in Switches, raw \in Reports : ValidateSegments(sw, raw)
    \/ ValidateOneSwitch
    \/ \E sw \in Switches, raw \in Reports :
          SyncSegments(sw, {CookieToHex(c) : c \in raw})
    \/ SyncLookup
    \/ SyncOneSwitch

SyncSpec == Init /\ ReconcileInit /\ [][SyncNext]_allvars

(***************************************************************************)
(* Properties.  The reference reads the store directly: the cookies a     *)
(* switch must carry are those of the segments with the switch at either  *)
(* end and of the one-switch flows on it; a cookie is displayed as its    *)
(* W-bit unsigned value.                                                   *)
(***************************************************************************)
RefHex(c) == c % 2^W

RefExpected(sw) ==
    {s.key.cookie : s \in {s \in segs : s.src = sw \/ s.dst = sw}}
    \cup {k.cookie : k \in {k \in Keys : /\ flows[k] # NoFlow
                                         /\ flows[k].src_switch = sw
                                         /\ flows[k].dst_switch = sw}}

ValidateDone == vpc = "idle" /\ vsw # NoSwitch
SyncDone == spc = "idle" /\ sresult = "ok"

\* validate_switch_rules, when the store has not changed since the call
\* began, returns missing = E - R, proper = E \cap R and excess = R - E
\* minus the ignored system cookies, all in display form: in particular a
\* system cookie reported as a negative long is recognised as ignored.
ValidateMatchesReference ==
    LET E == {RefHex(c) : c \in RefExpected(vsw)}
        R == {RefHex(c) : c \in vraw}
    IN (ValidateDone /\ ~vdirty) =>
          /\ vmissing = E \ R
          /\ vproper = E \cap R
          /\ vexcess = (R \ E) \ IgnoredRules

\* The design (4.6, 5): the diff is derived from the store, and a store
\* call is one transaction, so a rule of a flow whose record stays stored
\* and unchanged for the whole validate call, on a switch of its path, is
\* never reported excess (the caller would delete a rule in use) however
\* the call interleaves with store_flow calls re-storing that flow.
LiveFlowNeverExcess ==
    ValidateDone =>
        \A k \in vlive :
            (\E i \in DOMAIN flows[k].path : flows[k].path[i].sw = vsw)
                => RefHex(k.cookie) \notin vexcess

\* The design (4.6): the diff's proper rules and the repair's installed
\* rules are the same classification of the reported cookies.  A
\* validate_switch_rules and a build_commands_to_sync_rules call on the
\* same switch and the same report, with no store change since the
\* earlier of them began, agree: the sync call installs exactly the rules
\* validate found proper, although validate compares raw cookies and sync
\* compares display forms, and each runs its own queries.
SyncInstallsProper ==
    (/\ ValidateDone /\ SyncDone /\ vsw = ssw
     /\ srules = {CookieToHex(c) : c \in vraw}
     /\ ~vdirty /\ ~sdirty) => installed = vproper

\* The design (4.6): a group whose flow record cannot be found is skipped
\* and reported as a gap; every cookie reported in installed_rules has an
\* install command in the result.
InstalledRulesHaveCommands ==
    SyncDone =>
        \A h \in installed : \E c \in commands : RefHex(c.rule.cookie) = h

\* The design (4.6, 7): reconciliation never fails as a whole because of
\* one segment group; build_commands_to_sync_rules always completes.
SyncNeverFails == sresult # "IndexError"

\* The design (4.6): a repair command is the rule rule synthesis gives the
\* stored flow on that switch; for a transit switch, the intermediate rule
\* from the port the flow enters on to the port it leaves by.
RepairMatchesSynthesis ==
    \A c \in commands :
        LET rules == BuildRules(c.flow) IN
        rules # PathInconsistency /\ \E i \in 1..Len(rules) : rules[i] = c.rule

=============================================================================
