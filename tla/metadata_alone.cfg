SPECIFICATION Spec
CONSTANTS
    p1 = p1
    p2 = p2
    mine = mine
    other = other
    Procs = {p1}
    Objs = {mine, other}
    Modes <- MCModes
    Masks <- MCMasks
    Ids <- MCIds
    UserId = 1000
    Foreign <- MCForeign
    NoMode = NoMode
    Absent = Absent
INVARIANT TypeOK
INVARIANT UserKeepsAccess
PROPERTY ChmodIsSeen
PROPERTY CreatedLessTheMask
