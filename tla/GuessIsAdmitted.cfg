SPECIFICATION Spec
CONSTANTS
    Configs <- MCConfigs
    MaxBacklog = 2
    Misreads <- MCMisreads
INVARIANT GuessIsAdmitted
