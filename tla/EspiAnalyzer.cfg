SPECIFICATION Spec
CONSTANTS
    Configs <- MCConfigs
    MaxBacklog = 2
    Misreads <- MCMisreads
INVARIANTS TypeOK ModeAgreement CrcAgreement WrongReadIsSuspect
PROPERTIES ResetHeals NoWayBack ReadsEachOnce
