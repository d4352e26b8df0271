SPECIFICATION Spec
CONSTANTS
    NULL = NULL
    t1 = t1
    t2 = t2
    Threads = {t1, t2}
    HOST = "HOST"
    Objects <- MCObjects
    Links <- MCLinks
    Programs <- MCPrograms
    Listed <- MCListed
    Loader <- MCLoader
    Dlopens <- MCDlopens
    DlopenPaths <- MCDlopenPaths
    LibraryPath <- MCLibraryPath
    DefLib <- MCDefLib
    Cache <- MCCache
    Closed = {"shut"}
    NotLibs = {"vdso"}
    Slashed = {"/abs"}
INVARIANT LibrariesTypeOK
INVARIANT NothingFromTheHost
INVARIANT ListsComplete
PROPERTY WalksEnd
