\* The sender closes the connection once and comes back.
\* The receiver may legitimately stop (main() returning), so no deadlock check.
CHECK_DEADLOCK FALSE
CONSTANTS
    MaxAttempts = 3
    MaxPeerCloses = 1
SPECIFICATION Spec
INVARIANT NoTerminate
