SPECIFICATION Spec
CONSTANTS
    p1 = p1
    p2 = p2
    mine = mine
    other = other
    Procs = {p1}
    Objs = {mine}
    Modes <- MCModes
    Masks <- MCMasks
    Ids <- MCIds
    UserId = 1000
    Foreign <- MCNoForeign
    NoMode = NoMode
    Absent = Absent
PROPERTY OpenKeepsMode
