-------------------------------- MODULE Jail --------------------------------
(***************************************************************************)
(* A process in the "chroot jail" of iamroot: chroot(2) is never called,   *)
(* its path is kept in the environment as IAMROOT_ROOT, and the wrappers   *)
(* resolve the paths of the program against it before they call the        *)
(* kernel, whose own root stays the root of the host.  chdir() and         *)
(* fchdir() forget the root when the working directory is not in it.       *)
(*                                                                         *)
(* The environment and the working directory are those of one process,     *)
(* and its wrappers run one after the other.  A call that fails changes    *)
(* nothing and is left out.                                                *)
(***************************************************************************)
EXTENDS PathResolution, FiniteSets

CONSTANTS
    InitFs,         \* the file system when the process starts
    InitCwd,        \* its working directory then
    Fds,            \* descriptors of directories the process opens
    Args,           \* the paths the program gives
    Targets,        \* the contents it gives to links
    Probes,         \* the paths whose resolution the properties compare
    MaxInodes,      \* bound: files of the file system
    MaxRoot         \* bound: parts of IAMROOT_ROOT

\* The empty path leads nowhere, and is no path of the program here.
ASSUME InitAssumption ==
    /\ IsTree(InitFs) /\ IsDir(InitFs, InitCwd)
    /\ Args \subseteq Pathnames /\ Targets \subseteq Pathnames /\ Probes \subseteq Pathnames

VARIABLES
    fs,     \* the file system
    cwd,    \* location of the working directory
    root,   \* IAMROOT_ROOT, "/" when it is not set
    fds     \* location of the directory each descriptor is open on, if any

vars == <<fs, cwd, root, fds>>

Closed == Empty
Open   == {fd \in Fds : fds[fd] # Closed}

\* AT_FDCWD or an open descriptor, by the path /proc/self/fd has for it.
fpath(fd) == HostPath(fds[fd])
Dirs == {NoDir} \cup {fpath(fd) : fd \in Open}

Resolve(dir, path, follow) == path_resolution(fs, cwd, root, dir, path, follow)

\* What the kernel finds for a path given to it with the descriptor of dir.
HostLookup(dir, path, follow) ==
    Lookup(fs, <<>>, IF dir = NoDir THEN cwd ELSE Location(dir), path, follow)

TypeOK ==
    /\ IsTree(fs)
    /\ IsDir(fs, cwd)
    /\ root \in Pathnames
    /\ DOMAIN fds = Fds /\ \A fd \in Open : IsDir(fs, fds[fd])

-----------------------------------------------------------------------------

\* Not forwarded: the path is not looked at.
chroot(path) ==
    /\ root' = Resolve(NoDir, path, TRUE)
    /\ Len(root') <= MaxRoot
    /\ UNCHANGED <<fs, cwd, fds>>

\* Faulty: any directory but the root itself is taken for one out of the jail.
__chrootdir_equal(new) == root' = IF HostPath(new) = root THEN root ELSE Slash

__chrootdir(new) ==
    root' = IF __strleq(HostPath(new), root) THEN root ELSE Slash

chdir(path) ==
    \E l \in {HostLookup(NoDir, Resolve(NoDir, path, TRUE), TRUE)} :
        /\ Ended(l) /\ IsDir(fs, l.at)
        /\ cwd' = l.at
        /\ __chrootdir(l.at)
        /\ UNCHANGED <<fs, fds>>

fchdir(fd) ==
    /\ fd \in Open
    /\ cwd' = fds[fd]
    /\ __chrootdir(fds[fd])
    /\ UNCHANGED <<fs, fds>>

\* With O_DIRECTORY and no flag of creation.
openat(dir, path, fd) ==
    /\ fd \notin Open
    /\ \E l \in {HostLookup(dir, Resolve(dir, path, TRUE), TRUE)} :
          /\ Ended(l) /\ IsDir(fs, l.at)
          /\ fds' = [fds EXCEPT ![fd] = l.at]
    /\ UNCHANGED <<fs, cwd, root>>

close(fd) ==
    /\ fd \in Open
    /\ fds' = [fds EXCEPT ![fd] = Closed]
    /\ UNCHANGED <<fs, cwd, root>>

Create(l, inode) ==
    /\ Cardinality(DOMAIN fs) < MaxInodes
    /\ Ended(l) /\ ~Exists(fs, l.at)
    /\ fs' = [loc \in DOMAIN fs \cup {l.at} |-> IF loc = l.at THEN inode ELSE fs[loc]]
    /\ UNCHANGED <<cwd, root, fds>>

mkdirat(dir, path) ==
    Create(HostLookup(dir, Resolve(dir, path, TRUE), FALSE), Directory)

symlinkat(target, dir, path) ==
    Create(HostLookup(dir, Resolve(dir, path, FALSE), FALSE), Link(target))

\* Faulty: directories are removed too.
unlinkat_any(dir, path) ==
    \E l \in {HostLookup(dir,
                path_resolution2(fs, cwd, root, dir, path, FALSE, {NOWALKALONG}), FALSE)} :
        /\ Found(fs, l)
        /\ fs' = [loc \in DOMAIN fs \ {l.at} |-> fs[loc]]
        /\ UNCHANGED <<cwd, root, fds>>

unlinkat(dir, path) ==
    \E l \in {HostLookup(dir,
                path_resolution2(fs, cwd, root, dir, path, FALSE, {NOWALKALONG}), FALSE)} :
        /\ Found(fs, l) /\ ~IsDir(fs, l.at)
        /\ fs' = [loc \in DOMAIN fs \ {l.at} |-> fs[loc]]
        /\ UNCHANGED <<cwd, root, fds>>

\* What the program is told its working directory is.
getcwd == __striprootdir(root, HostPath(cwd))

Init ==
    /\ fs = InitFs
    /\ cwd = InitCwd
    /\ root = Slash
    /\ fds = [fd \in Fds |-> Closed]

Next ==
    \/ \E path \in Args : chroot(path) \/ chdir(path)
    \/ \E fd \in Fds : fchdir(fd) \/ close(fd)
    \/ \E dir \in Dirs, path \in Args :
          \/ mkdirat(dir, path) \/ unlinkat(dir, path)
          \/ \E fd \in Fds : openat(dir, path, fd)
          \/ \E target \in Targets : symlinkat(target, dir, path)

Spec == Init /\ [][Next]_vars

-----------------------------------------------------------------------------
(* Properties *)

\* The directory the root is, and what a process whose root it is would find.
\* A root kept with the two slashes of chroot("//rt") is apart: no path of the
\* kernel begins with it, so that chdir() drops it within the jail and getcwd()
\* does not take it off.
JailLoc == Location(root)
Proper  == ~Doubled(root) /\ HostPath(JailLoc) = root /\ IsDir(fs, JailLoc)

Reference(dir, path, follow) ==
    Lookup(fs, JailLoc, IF dir = NoDir THEN cwd ELSE Location(dir), path, follow)

\* The path leads to the host on purpose, or spells the root directory out.
InJailPath(loc) == <<"">> \o SubSeq(loc, Len(JailLoc) + 1, Len(loc))
Excepted(path, l) ==
    \/ ignore(path)
    \/ Below(l.at, JailLoc) /\ ignore(InJailPath(l.at))
    \/ IsAbsolute(path) /\ InJail(root) /\ __strleq(path, root)

\* Where the path leads in a real jail, it leads behind the wrapper.
Leads(dir, path, follow, resolved) ==
    \A l \in {Reference(dir, path, follow)} :
        /\ Ended(l) /\ ~l.clamped
        /\ l.links + 1 < SYMLOOP_MAX
        /\ ~Excepted(path, l)
        => \A h \in {HostLookup(dir, resolved, follow)} : Ended(h) /\ h.at = l.at

(***************************************************************************)
(* The resolution of a path comes to an end, be it ELOOP: the links are    *)
(* counted, those that lead to themselves among them, whichever the steps  *)
(* that made them.                                                         *)
(***************************************************************************)
ResolutionEnds ==
    \A dir \in Dirs, path \in Probes :
        \A r \in {RealpathRun(fs, cwd, root, Sanitized(root, dir, path), TRUE)} :
            r.done \/ r.err # ""

(***************************************************************************)
(* Resolution is that of chroot(2): for every path that leads somewhere in *)
(* a real jail, through whatever links, from the working directory or a    *)
(* descriptor, iamroot and the kernel behind it lead to the same place --  *)
(* be it a file or a free name to create one at.  The paths that climb     *)
(* over the root with "..", or use as many links as the limit, are apart,  *)
(* and the roots that are not Proper: removed, or kept with two slashes.   *)
(***************************************************************************)
SameAsChroot ==
    Proper => \A dir \in Dirs, path \in Probes : Leads(dir, path, TRUE, Resolve(dir, path, TRUE))

(***************************************************************************)
(* The path getcwd() returns leads back to the working directory, from any *)
(* directory: a program saves it and gives it to chdir() later.  The paths *)
(* left to the host, those that spell the root directory out, and those    *)
(* that user.iamroot.path-resolution leads elsewhere are apart, and so are *)
(* the roots that are not Proper.                                          *)
(***************************************************************************)
GetcwdRoundTrip ==
    /\ Proper /\ Below(cwd, JailLoc) /\ NotRedirected(fs, cwd)
    /\ ~ignore(getcwd) /\ (InJail(root) => ~__strleq(getcwd, root))
    => \A l \in {HostLookup(NoDir, Resolve(NoDir, getcwd, TRUE), TRUE)} :
          Ended(l) /\ l.at = cwd

(***************************************************************************)
(* Changing the working directory drops the root only if the new one is    *)
(* out of the jail: no other chdir() or fchdir() sets a process free, as   *)
(* long as the root is Proper: one of "//rt" is dropped at once.           *)
(***************************************************************************)
RootLeftOnlyOutside ==
    [][cwd' # cwd /\ Proper /\ InJail(root) /\ ~InJail(root') => ~Below(cwd', JailLoc)]_vars

(***************************************************************************)
(* "It checks if the process breaks from its chroot jail.  If it exits,    *)
(* the library resets the environment": a process whose working directory  *)
(* has left the jail by a chdir() or fchdir() has no root any more.        *)
(***************************************************************************)
RootResetWhenLeft ==
    [][cwd' # cwd /\ Proper /\ InJail(root) /\ ~Below(cwd', JailLoc) => ~InJail(root')]_vars

=============================================================================
