\* Two producers, three URBs, one Start/Stop cycle.
\* After the last StopCapture every thread has finished: the process may stop.
CHECK_DEADLOCK FALSE
CONSTANTS
    p1 = p1  p2 = p2  u1 = u1  u2 = u2  u3 = u3
    NoUrb = NoUrb
    Producers <- MCProducers
    Urbs <- MCUrbs
    Attr <- MCAttr
    TransferTypes <- MCTransferTypes
    MaxStarts = 1

SPECIFICATION Spec
INVARIANT StopDrains
