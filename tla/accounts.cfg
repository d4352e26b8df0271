SPECIFICATION Spec
CONSTANTS
    NULL = NULL
    Roots <- MCRoots
    Initially <- MCInitially
    Replacing <- MCReplacing
    Put <- MCPut
    Cut <- MCCut
    Users = {"a", "b"}
    Guesses = {0, 1}
    MaxGoing = 2
    MaxInodes = 5
    MaxLines = 2
    LineMin = 3
    PointerSize = 1
    Slack = 1
    Align = 2
    Refused = {"."}
    Spare = 1
    Shadows <- MCShadows
    Tcbs <- MCTcbs
    Buffers = {1, 2, 3, 5, 8}
INVARIANT AccountsTypeOK
INVARIANT EnumeratedOnce
INVARIANT LookupsAgree
INVARIANT ReentrantHolds
INVARIANT ShadowByLines
PROPERTY GroupsAreGot
