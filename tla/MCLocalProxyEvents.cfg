SPECIFICATION Spec
CONSTANTS
    NL = NL
    Bytes <- MCBytes
    Streams <- MCStreams
    Bodies <- MCBodies
INVARIANT EventsIntercepted
