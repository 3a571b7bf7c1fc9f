CONSTANTS
    Dpids <- MC_Dpids
    Ports <- MC_Ports
    NoState = NoState
    MaxNodes = 4
SPECIFICATION TopologySpec
INVARIANT SwitchIdUnique
