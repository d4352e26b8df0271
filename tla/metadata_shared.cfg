SPECIFICATION Spec
CONSTANTS
    p1 = p1
    p2 = p2
    mine = mine
    other = other
    Procs = {p1, p2}
    Objs = {mine}
    Modes <- MCModes2
    Masks <- MCMasks2
    Ids <- MCIds
    UserId = 1000
    Foreign <- MCNoForeign
    NoMode = NoMode
    Absent = Absent
SYMMETRY MCSymmetry
INVARIANT UserKeepsAccess
