SPECIFICATION FairSpec
CONSTANTS
    NL = NL
    Bytes <- MCBytes
    Streams <- MCStreams
    Bodies <- MCBodies
INVARIANTS TypeOK RelayedVerbatim LedgerFollowsStream
PROPERTIES HandlerEnds RetriedBeforeFirstByte
