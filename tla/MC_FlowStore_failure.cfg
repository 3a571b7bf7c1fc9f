CONSTANTS
    A = A
    B = B
    C = C
    K1 = K1
    K2 = K2
    K3 = K3
    NoFlow = NoFlow
    P1 = P1
    P2 = P2
    P3 = P3
    Procs = {P1, P2}
    Keys = {K1, K2, K3}
    ISLs <- MC_ISLs
    MaxBandwidth <- MC_MaxBandwidth
    FlowInputs <- FixedPathInputs
    MaxFailures = 1
SYMMETRY ProcSymmetry
SPECIFICATION Spec
INVARIANT
    SegmentsMatchFlows
