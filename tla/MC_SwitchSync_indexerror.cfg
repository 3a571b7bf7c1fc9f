CONSTANTS
    A = A
    B = B
    C = C
    FID1 = FID1
    FID2 = FID2
    P1 = P1
    NoFlow = NoFlow
    NoSwitch = NoSwitch
    Procs = {P1}
    Keys <- MC_Keys
    ISLs <- MC_ISLs
    MaxBandwidth <- MC_MaxBandwidth
    FlowInputs <- MC_FlowInputs
    MaxFailures = 0
    Switches <- MC_Switches
    W = 8
    Reports <- MC_Reports
SPECIFICATION SyncSpec
INVARIANT
    SyncNeverFails
VIEW MC_ViewNoLive
