\* Stop must return.  Two devices at Start (one not mass storage), one
\* hotplug arrival, two connections, two requests; the signal may come at
\* any point after Start.  main() exits when Listen fails, so the sender may
\* stop: no deadlock check.
CHECK_DEADLOCK FALSE
CONSTANTS
    s1 = s1
    s2 = s2
    a1 = a1
    c1 = c1
    c2 = c2
    StartDevices <- MC_StartDevices
    ArrivingDevices <- MC_ArrivingDevices
    DeviceClass <- MC_DeviceClass
    Clients <- MC_Clients
    MaxRequests = 2
SPECIFICATION Spec
PROPERTY StopCompletes
