---------------------------- MODULE MC_FlowStore ----------------------------
(***************************************************************************)
(* Model of the flow store for TLC.  Three switches A, B, C; ISLs A:1->B:1 *)
(* and B:2->C:1 carry flows, A:2->B:3 is a parallel link a rerouted flow  *)
(* can take.  K1 is a two-hop flow A->B->C, K2 a one-hop flow A->B that   *)
(* shares ISL A:1->B:1 with K1 (once counted, once ignore_bandwidth), K3  *)
(* a one-switch flow on A.  FlowOdd is a malformed three-node path.       *)
(***************************************************************************)
EXTENDS FlowStore

CONSTANTS A, B, C, K1, K2, K3, P1, P2, P3

ProcSymmetry == Permutations({P1, P2})

\* Three interchangeable callers.
ProcSymmetry3 == Permutations({P1, P2, P3})

N(sw, port) == [sw |-> sw, port |-> port]
L(s, sp, d, dp) == [src |-> s, sport |-> sp, dst |-> d, dport |-> dp]

MC_ISLs == {L(A, 1, B, 1), L(B, 2, C, 1), L(A, 2, B, 3)}

MC_MaxBandwidth == [l \in MC_ISLs |-> 100]

F1 == [key |-> K1, path |-> <<N(A, 1), N(B, 1), N(B, 2), N(C, 1)>>,
       bw |-> 30, ign |-> FALSE]
F2 == [key |-> K2, path |-> <<N(A, 1), N(B, 1)>>, bw |-> 20, ign |-> FALSE]
F2Ignored == [F2 EXCEPT !.ign = TRUE]
F3 == [key |-> K3, path |-> <<>>, bw |-> 10, ign |-> FALSE]
FlowOdd == [key |-> K1, path |-> <<N(A, 1), N(B, 1), N(B, 2)>>,
            bw |-> 30, ign |-> FALSE]
\* K1 rerouted over the parallel link under the same flowid and cookie.
F1Rerouted == [F1 EXCEPT !.path = <<N(A, 2), N(B, 3), N(B, 2), N(C, 1)>>]

\* Every flow key has one path: flows are never rerouted under one cookie.
FixedPathInputs == {F1, F2, F2Ignored, F3, FlowOdd}

RerouteInputs == {F1, F1Rerouted, F2}
=============================================================================
