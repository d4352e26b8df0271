SPECIFICATION Spec
CONSTANTS
    NULL = NULL
    Resolved <- MCResolved
    Files <- MCFiles
    Argvs <- MCArgvs
    Searches <- MCSearches
    Needed <- MCNeeded
    BuiltFor <- MCBuiltFor
    Running = "/bin/sh"
    InhibitRpath = "/none"
    LdsoNames <- MCLdsoNames
    Own <- MCOwn
    MaxRoots = 2
    MaxEntries = 2
    Installed <- MCInstalled
    Origin = "/build"
    Prefix = "/usr"
    LibVariables <- MCLibVariables
    IAMROOT_LIB = NULL
    Multiarch <- MCMultiarch
    DefLibVariables <- MCNone
    IAMROOT_DEFLIB <- MCDefLib
INVARIANT ExecTypeOK
INVARIANT SameArguments
INVARIANT PreloadedInTheJail
INVARIANT InterpargFits
PROPERTY SearchEnds
CHECK_DEADLOCK FALSE
