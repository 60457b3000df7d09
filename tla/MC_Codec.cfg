\* Frames, with at most one foreign byte string (no magic, an oversize
\* header or a bad checksum) anywhere between them, read in chunks of 3, 20
\* or all pending bytes.  The behaviours without noise are the clean stream.
\* The end state (writer done, reader blocked in recv()) is a real idle state.
CHECK_DEADLOCK FALSE
CONSTANTS
    Types <- MCTypes
    Payloads <- MCPayloads
    MaxMessages = 3
    MaxMessageSize <- MCMaxMessageSize
    HostLittleEndian = TRUE
    Garbage <- MCGarbageMixed
    MaxNoise = 1
    ChunkSizes <- MCChunkSizes
SPECIFICATION Spec
INVARIANT TypeOK
INVARIANT StreamAligned
PROPERTY ChannelRefinement
