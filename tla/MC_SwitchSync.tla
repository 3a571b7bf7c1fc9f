---------------------------- MODULE MC_SwitchSync ----------------------------
(***************************************************************************)
(* The reconciler over the store, for TLC.  Switches A, B, C; flow FID1   *)
(* has a forward record (cookie 0x41) A->B->C and a reverse record (cookie *)
(* 0x21) C->B->A, so B is a transit switch of both; flow FID2 (cookie      *)
(* 0x42) is a one-switch flow on B.  Cookies are 8 bits wide: 0x81 is the  *)
(* system cookie 0x8000000000000001 scaled down, reported by the switch as *)
(* the negative long -127.  One store caller runs beside the reconciler.   *)
(***************************************************************************)
EXTENDS SwitchSync

CONSTANTS A, B, C, FID1, FID2, P1

N(sw, port) == [sw |-> sw, port |-> port]
L(s, sp, d, dp) == [src |-> s, sport |-> sp, dst |-> d, dport |-> dp]

MC_ISLs == {L(A, 1, B, 1), L(B, 2, C, 1), L(C, 1, B, 2), L(B, 1, A, 1)}
MC_MaxBandwidth == [l \in MC_ISLs |-> 100]

KF == [flowid |-> FID1, cookie |-> 65]      \* 0x41: forward
KR == [flowid |-> FID1, cookie |-> 33]      \* 0x21: reverse
KO == [flowid |-> FID2, cookie |-> 66]      \* 0x42: one-switch

Flow(k, path, src, sp, dst, dp) ==
    [key |-> k, cookie |-> k.cookie, path |-> path, bw |-> 10, ign |-> FALSE,
     src_switch |-> src, src_port |-> sp, src_vlan |-> 0,
     dst_switch |-> dst, dst_port |-> dp, dst_vlan |-> 7]

Forward == Flow(KF, <<N(A, 1), N(B, 1), N(B, 2), N(C, 1)>>, A, 5, C, 6)
Reverse == Flow(KR, <<N(C, 1), N(B, 2), N(B, 1), N(A, 1)>>, C, 6, A, 5)
OneSwitch == Flow(KO, <<>>, B, 3, B, 4)

MC_Keys == {KF, KR, KO}
MC_FlowInputs == {Forward, Reverse, OneSwitch}
MC_Switches == {A, B}
\* A switch with every rule plus a system rule; one missing two rules.
MC_Reports == {{65, 33, 66, -127}, {33, -127}}
\* The state without the ghost vlive, which no other variable depends on
\* and which only LiveFlowNeverExcess reads: runs that do not check that
\* property identify states by this view.
MC_ViewNoLive ==
    <<vars, vpc, vsw, vraw, vmissing, vproper, vexcess, vdirty, svars>>
=============================================================================
