SPECIFICATION MCSpec
CONSTANTS
    Handles = {a, b, c}
    Buffers = {d1, d2, d3, d4}
    NoBuffer = NoBuffer
    Chunks <- SomeChunks
    Hexes <- SomeHexes
    Fills = {171}
    MaxLen = 2
    PackCalls <- SomeCalls
    MaxCalls = 3
    MaxOut = 3
    Owners = {"a", "b"}
    Names = {"m", "n"}
    Payloads <- SomePayloads
    Keys = {"x", "y"}
    Relays = {"t"}
    DST_LEN = 2
    KEY = 2
    NHL = 1
    RHL = 1
    SIGL = 1
    MTU_BYTES = 1
    MDU = 7
    MaxHops = 3
SYMMETRY AnyAddress
CHECK_DEADLOCK FALSE
INVARIANTS KeysAreOrdered ReaderInStep HashIgnoresTheRoute AnnounceReadsBack
PROPERTY ImplementsValues
