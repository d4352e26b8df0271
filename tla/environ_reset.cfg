SPECIFICATION Spec
CONSTANTS
    NULL = NULL
    h1 = h1
    h2 = h2
    Names <- MCNames
    Iamroot <- MCIamroot
    Values <- MCValues
    Heap <- MCHeap
    Strings <- MCStrings
    InitEnviron <- MCInit
    MaxEnviron = 2
    MaxEnvp = 1
    SharesStrings = TRUE
    Ids = {1}
    MAXGROUPS = 1
    Masks = {0, 512}
SYMMETRY MCSymmetry
PROPERTY EnvpReachesTheProgram
