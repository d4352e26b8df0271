SPECIFICATION WrappersSpec
CONSTANTS
    f1 = f1
    NamePrefixes <- MCNamePrefixes
    NameRest <- MCNameRest
    Ignored <- MCIgnored
    SYMLOOP_MAX = 4
    MaxSteps = 20
    InitFs <- MCFs
    InitCwd <- MCCwd
    Fds = {}
    Args <- MCArgs
    Targets <- MCTargets
    Probes <- MCProbes
    MaxInodes = 4
    MaxRoot = 2
INVARIANT CallsSameAsChroot
 
