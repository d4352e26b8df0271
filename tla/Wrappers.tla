------------------------------ MODULE Wrappers ------------------------------
(***************************************************************************)
(* The other wrappers of paths in the jail.  Those that change the tree    *)
(* are actions beside the ones of Jail: rename, link, rmdir, remove and    *)
(* the creation of a file.  Those that only read are calls of the table in *)
(* Calls, and the paths some return to the program are operators here.     *)
(*                                                                         *)
(* A directory that is a working directory or open is not removed: a       *)
(* location is a name here, and the kernel's inode outlives it.            *)
(***************************************************************************)
EXTENDS Jail

C == INSTANCE Calls

At(call, dir) == IF call.dfd THEN dir ELSE NoDir

\* The path next_X() is given, and what it finds for it.
Given(call, dir, path) ==
    IF call.buf
    THEN path_resolution2(fs, cwd, root, At(call, dir), path, call.follow, call.prflags)
    ELSE path

Reach(call, dir, path) == HostLookup(At(call, dir), Given(call, dir, path), call.sys)

InUse(loc) == loc = cwd \/ \E fd \in Open : fds[fd] = loc
IsEmpty(loc) == \A other \in DOMAIN fs : Below(other, loc) => other = loc

-----------------------------------------------------------------------------
\* The locations of what is below a directory change with its own.
Moved(loc, from, to) ==
    IF Below(loc, from) THEN to \o SubSeq(loc, Len(from) + 1, Len(loc)) ELSE loc

Rename(from, to) ==
    /\ from # <<>> /\ ~Below(to, from) /\ ~Below(from, to)
    /\ Exists(fs, to) =>
          /\ ~InUse(to) /\ IsEmpty(to)
          /\ IsDir(fs, from) <=> IsDir(fs, to)
    /\ LET Tree == DOMAIN fs \ {to}
           Origin(loc) == CHOOSE old \in Tree : Moved(old, from, to) = loc
       IN  fs' = [loc \in {Moved(old, from, to) : old \in Tree} |-> fs[Origin(loc)]]
    /\ cwd' = Moved(cwd, from, to)
    /\ fds' = [fd \in Fds |-> IF fd \in Open THEN Moved(fds[fd], from, to) ELSE Closed]
    /\ UNCHANGED root

renameat(olddir, old, newdir, new) ==
    \E from \in {Reach(C!renameat.old, olddir, old)},
       to \in {Reach(C!renameat.new, newdir, new)} :
        Found(fs, from) /\ Ended(to) /\ Rename(from.at, to.at)

renameat2(olddir, old, newdir, new) ==
    \E from \in {Reach(C!renameat2.old, olddir, old)},
       to \in {Reach(C!renameat2.new, newdir, new)} :
        Found(fs, from) /\ Ended(to) /\ Rename(from.at, to.at)

\* Two names of one file: what is at a location never changes.
linkat(olddir, old, newdir, new, atflags) ==
    \E from \in {Reach(C!linkat(atflags).old, olddir, old)} :
        /\ Found(fs, from) /\ ~IsDir(fs, from.at)
        /\ Create(Reach(C!linkat(atflags).new, newdir, new), fs[from.at])

Remove(l) ==
    /\ l.at # <<>> /\ ~InUse(l.at) /\ IsEmpty(l.at)
    /\ fs' = [loc \in DOMAIN fs \ {l.at} |-> fs[loc]]
    /\ UNCHANGED <<cwd, root, fds>>

rmdir(path) ==
    \E l \in {Reach(C!rmdir, NoDir, path)} : Found(fs, l) /\ IsDir(fs, l.at) /\ Remove(l)

\* A file or an empty directory.
remove(path) ==
    \E l \in {Reach(C!remove, NoDir, path)} : Found(fs, l) /\ Remove(l)

\* With O_CREAT, of creat(), fopen(), mknod(): a file is made where there is none.
creat(path) == Create(Reach(C!creat, NoDir, path), File)

-----------------------------------------------------------------------------
\* The paths the program is given.

\* Without "/" for the root itself, unlike __striprootdir().
realpath(loc) ==
    IF InJail(root) /\ __strleq(HostPath(loc), root)
    THEN After(HostPath(loc), root) ELSE HostPath(loc)

\* The path the process was executed by, less as many characters as the root
\* has: they are the root, as long as it has not changed since.
__getexe(loc) == IF InJail(root) THEN After(HostPath(loc), root) ELSE HostPath(loc)

\* The content of a link of /proc is the path the host has for the file, but for
\* /proc/self/exe.
readlinkat(loc, exe) ==
    IF exe THEN __getexe(loc)
    ELSE IF InJail(root) /\ __strleq(HostPath(loc), root)
    THEN (IF HostPath(loc) = root THEN Slash ELSE After(HostPath(loc), root))
    ELSE HostPath(loc)

canonicalize_file_name(loc) == __striprootdir(root, HostPath(loc))
get_current_dir_name == __striprootdir(root, HostPath(cwd))
getwd          == __striprootdir(root, HostPath(cwd))
ttyname(loc)   == __striprootdir(root, HostPath(loc))
ttyname_r(loc) == __striprootdir(root, HostPath(loc))
ptsname(loc)   == __striprootdir(root, HostPath(loc))
ptsname_r(loc) == __striprootdir(root, HostPath(loc))
ctermid(loc)   == __striprootdir(root, HostPath(loc))
tempnam(loc)   == __striprootdir(root, HostPath(loc))
dladdr(loc)    == __striprootdir(root, HostPath(loc))
dladdr1(loc)   == __striprootdir(root, HostPath(loc))
\* The name its callback is given.
dl_iterate_phdr(loc) == __striprootdir(root, HostPath(loc))

-----------------------------------------------------------------------------
WrappersNext ==
    \/ Next
    \/ \E olddir, newdir \in Dirs, old, new \in Args :
          \/ renameat(olddir, old, newdir, new)
          \/ renameat2(olddir, old, newdir, new)
          \/ \E atflags \in BOOLEAN : linkat(olddir, old, newdir, new, atflags)
    \/ \E path \in Args : rmdir(path) \/ remove(path) \/ creat(path)

WrappersSpec == Init /\ [][WrappersNext]_vars

-----------------------------------------------------------------------------
(* Properties *)

\* The calls of one path whose resolution is asked to be that of the kernel.
OnePath ==
    LET Flags == {C!FOLLOW, C!NOFOLLOW}
    IN  {C!access, C!euidaccess, C!chmod, C!chown, C!lchmod, C!lchown, C!creat, C!fopen,
         C!freopen, C!truncate, C!truncate64, C!__catopen, C!updwtmp, C!updwtmpx,
         C!utmpname, C!utmpxname, C!ftok, C!chdir, C!opendir, C!scandir, C!scandir64,
         C!scandirat, C!stat, C!stat64, C!__stat64_time64, C!__xstat, C!__xstat64,
         C!__lxstat, C!__lxstat64, C!lstat, C!lstat64, C!__lstat64_time64, C!statfs,
         C!statfs64, C!statvfs, C!statvfs64, C!utimes, C!utime, C!lutimes, C!futimesat,
         C!getxattr, C!setxattr, C!listxattr, C!removexattr, C!lgetxattr, C!lsetxattr,
         C!llistxattr, C!lremovexattr, C!mkdir, C!mkfifo, C!symlink, C!mkostemps,
         C!mkostemp, C!mkstemps, C!mkstemp, C!mkdtemp, C!mktemp, C!mknodat, C!mknod,
         C!__xmknodat, C!__xmknod, C!unlinkat, C!unlink, C!remove, C!rmdir, C!readlinkat,
         C!readlink, C!realpath, C!canonicalize_file_name, C!tempnam}
        \cup UNION {{C!faccessat(f), C!fchmodat(f), C!fchownat(f), C!open(f), C!openat(f),
                     C!__open_2(f), C!__openat_2(f), C!name_to_handle_at(f), C!fstatat(f),
                     C!fstatat64(f), C!__fstatat64_time64(f), C!__fxstatat(f),
                     C!__fxstatat64(f), C!statx(f), C!utimensat(f)} : f \in Flags}
        \cup {C!mkdirat(TRUE), C!mkfifoat(TRUE), C!symlinkat(TRUE)}

\* Each path of the calls of two.
OfTwoPaths ==
    UNION {{call.old, call.new} :
              call \in {C!renameat, C!renameat2, C!rename, C!link}
                        \cup {C!linkat(f) : f \in BOOLEAN}}

\* No link is in the way of a call that does not resolve the ones it meets, or
\* that resolves the last one where the system call would not.
Unaffected(call, l) ==
    /\ call.follow \/ l.links = 0
    /\ call.sys \/ ~call.follow \/ ~IsLink(fs, l.at)

\* The working directory, or a descriptor of any directory.
AnyDir == {NoDir} \cup {HostPath(loc) : loc \in {loc \in DOMAIN fs : IsDir(fs, loc)}}

(***************************************************************************)
(* Each of these wrappers hands the kernel a path that leads where the     *)
(* path of the program leads in a real jail: the file it reads, changes or *)
(* removes, and the place of the one it makes, through whatever renames    *)
(* and links the tree went before.  inotify_add_watch() and                *)
(* fanotify_mark(), which hand on the path as it is, are not among them.   *)
(***************************************************************************)
CallsSameAsChroot ==
    Proper =>
        \A call \in OnePath \cup OfTwoPaths, dir \in AnyDir, path \in Probes :
            \A l \in {Reference(At(call, dir), path, call.sys)} :
                Ended(l) /\ Unaffected(call, l) =>
                    Leads(At(call, dir), path, call.sys, Given(call, dir, path))

\* What the program is told a file is called.
Told(loc) ==
    {canonicalize_file_name(loc), readlinkat(loc, FALSE), ttyname(loc), ttyname_r(loc),
     ptsname(loc), ptsname_r(loc), ctermid(loc), tempnam(loc), dladdr(loc), dladdr1(loc),
     dl_iterate_phdr(loc)}
    \cup ({realpath(loc), readlinkat(loc, TRUE)} \ {Empty})
    \cup (IF loc = cwd THEN {getcwd, get_current_dir_name, getwd} ELSE {})

(***************************************************************************)
(* The paths the wrappers return lead back to the file they name: the      *)
(* canonical path of a file, the name of a terminal or of the working      *)
(* directory, the link of /proc of a descriptor or of the program can be   *)
(* opened later.  realpath() of the root directory returns the empty path  *)
(* and is apart, and so is what user.iamroot.path-resolution leads         *)
(* elsewhere, and a root that is not Proper.                               *)
(***************************************************************************)
ReturnedPathsLeadBack ==
    Proper =>
        \A loc \in {loc \in DOMAIN fs : /\ Below(loc, JailLoc) /\ ~IsLink(fs, loc)
                                       /\ NotRedirected(fs, loc)} :
            \A name \in Told(loc) :
                ~ignore(name) /\ (InJail(root) => ~__strleq(name, root)) =>
                    \A back \in {Reach(C!access, NoDir, name)} :
                        Ended(back) /\ back.at = loc

=============================================================================
