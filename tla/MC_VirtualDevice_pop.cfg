\* Imports, URBs and Stop interleaved; checks NoPopOnEmptyList.
\* After Stop has joined the receive thread nothing is left to do.
CHECK_DEADLOCK FALSE
CONSTANTS
    d1 = d1  d2 = d2  d3 = d3  d4 = d4
    NoDevice = NoDevice
    Devices <- MCDevices
    NumPorts = 2
    MaxUrbs = 2
    SenderLists <- MCSenderLists
    MaxLists = 2
    UrbSetups <- MCUrbSetups
    ScsiOps <- MCScsiOps
    LittleEndian = TRUE
SYMMETRY MCSymmetry
SPECIFICATION Spec
INVARIANT NoPopOnEmptyList
