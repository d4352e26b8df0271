SPECIFICATION Spec
CONSTANTS
    f1 = f1
    NamePrefixes <- MCNamePrefixes
    NameRest <- MCNameRest
    Ignored <- MCIgnored
    SYMLOOP_MAX = 4
    MaxSteps = 20
    InitFs <- MCFs
    InitCwd <- MCCwd
    Fds = {f1}
    Args <- MCArgs
    Targets <- MCTargets
    Probes <- MCProbes
    MaxInodes = 7
    MaxRoot = 3
INVARIANT TypeOK
INVARIANT SameAsChroot
INVARIANT GetcwdRoundTrip
PROPERTY RootLeftOnlyOutside
