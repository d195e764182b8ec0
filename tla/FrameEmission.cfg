SPECIFICATION Spec
CONSTANTS
    OpcodeBytes <- MCOpcodeBytes
    ResponseBytes <- MCResponseBytes
    PayloadLengths = {2, 3, 10}
    SmbusCounts = {0, 6, 7}
    GroupCounts = {1, 2}
    MaxWaits = 1
    MaxResetBytes = 3
    None = None
INVARIANTS TypeOK SpanContainment FramesInOrder EveryFieldShown OverlapsAreShared
PROPERTIES WalkEnds
