SPECIFICATION Spec
CONSTANTS
    Streams <- OneOrTwo
    MaxFrame = 23
    Reads = {1, 3, 8, 60}
INVARIANTS
    FramesIntact
    NothingHeldBack
    RefusesOnlyOversized
    OversizedRefused
    BufferBounded
CHECK_DEADLOCK FALSE
