SPECIFICATION Spec
CONSTANTS
    OpcodeBytes <- MCOpcodeBytes
    ResponseBytes <- MCResponseBytes
    Addresses = {8, 4104, 4}
    Configs <- MCConfigs
    CycleBytes <- MCCycleBytes
    RawLengths = {0, 2, 64}
    VwireCounts = {0, 255}
    SmbusCounts = {0, 60, 61}
    MaxWaits = 1
    MaxResetBytes = 2
    None = None
INVARIANT ErrorAnswerIsStatusOnly
