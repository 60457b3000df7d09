\* Garbage without the magic before a frame, read by a little-endian host.
\* The end state (writer done, reader blocked in recv()) is a real idle state.
CHECK_DEADLOCK FALSE
CONSTANTS
    Types <- MCTypes
    Payloads <- MCPayloads
    MaxMessages = 2
    MaxMessageSize <- MCMaxMessageSize
    HostLittleEndian = TRUE
    Garbage <- MCGarbageNoMagic
    MaxNoise = 1
    ChunkSizes <- MCChunkSizes
SPECIFICATION Spec
INVARIANT ResyncAfterNoise
