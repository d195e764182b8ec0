SPECIFICATION AnySpec
CONSTANTS
    Contents = {8, 15}
    Errors = {64, 131}
    FirstBytes <- Byte
    NextBytes = {255, 90}
    Lines <- MCLines
    DWords <- MCDWords
    Interrupts = {5, 133}
    WireIndices = {2, 4, 5, 64, 128}
    Addresses = {8, 9, 16, 64, 4104, 4105, 4, 96}
INVARIANTS TypeOK RoundTrip ResetReadsInAnyMode NothingElseReadsAsReset FieldTells OddDamageShows TruthTold SessionFollowsRegister
CHECK_DEADLOCK FALSE
