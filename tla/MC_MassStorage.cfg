\* The driver initialises against the emulator; at most one transfer fails.
\* Initialize ends (initialized or failed), so there is no deadlock check.
CHECK_DEADLOCK FALSE
CONSTANTS
    MaxTransportFaults = 1
SPECIFICATION Spec
INVARIANT CapacityDiscovered
