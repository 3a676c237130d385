SPECIFICATION Spec
CONSTANTS
    Shards <- MCShards
    Slots <- MCSlots
    FloorFrom = 4
    FloorTo = 7
    Reserve = 1
    MinEnabled <- MCMinEnabled
    Sessions = {k1, k2}
    SegLen = 1
    MaxSegs = 2
    RingSizes = {4, 5}
    RingReserves = {0, 1}
    WorkSizes = {1}
    Pins <- MCPins
    Nobody = Nobody
INVARIANT Recommits
SYMMETRY MCSymmetry
