SPECIFICATION Spec
CONSTANTS
    f1 = f1
    NamePrefixes <- MCNamePrefixes
    NameRest <- MCNameRest
    Ignored <- MCIgnored
    SYMLOOP_MAX = 4
    MaxSteps = 20
    InitFs <- MCFs2
    InitCwd <- MCCwd
    Fds = {}
    Args <- MCArgs2
    Targets <- MCTargets2
    Probes <- MCProbes
    MaxInodes = 6
    MaxRoot = 3
INVARIANT SameAsChroot
INVARIANT ResolutionEnds
