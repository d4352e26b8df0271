-------------------------------- MODULE Calls --------------------------------
(***************************************************************************)
(* The wrappers that resolve a path and forward the call: for each of      *)
(* them how the path is resolved, and what next_X() is given.              *)
(*                                                                         *)
(* A call is resolved from the working directory or from the directory of  *)
(* a descriptor (dfd), following the last link or not (follow), with flags *)
(* of the resolution (prflags); the system call is given the resolved path *)
(* or the one of the program (buf), and follows its last link or not (sys: *)
(* the manual of the call, and the flags it is given).                     *)
(***************************************************************************)
EXTENDS PathResolution

FOLLOW   == TRUE
NOFOLLOW == FALSE

Cwd(follow, sys) ==
    [dfd |-> FALSE, follow |-> follow, prflags |-> {}, buf |-> TRUE, sys |-> sys]
Dfd(follow, sys) == [Cwd(follow, sys) EXCEPT !.dfd = TRUE]

\* PATH_RESOLUTION_NOWALKALONG, "do not follow links in the basename".
NotWalking(call) == [call EXCEPT !.prflags = {NOWALKALONG}]

\* next_X() is given the path of the program, buf is not used.
Unresolved(call) == [call EXCEPT !.buf = FALSE]

-----------------------------------------------------------------------------
\* Permissions.
access     == Cwd(FOLLOW, FOLLOW)
euidaccess == Cwd(FOLLOW, FOLLOW)
faccessat(atflags) == Dfd(FOLLOW, atflags)
chmod  == Cwd(FOLLOW, FOLLOW)
chown  == Cwd(FOLLOW, FOLLOW)
lchmod == Cwd(NOFOLLOW, NOFOLLOW)
lchown == NotWalking(Cwd(NOFOLLOW, NOFOLLOW))
fchmodat(atflags) == Dfd(atflags, atflags)
fchownat(atflags) == Dfd(atflags, atflags)

\* Files.
open(oflags)   == Cwd(oflags, oflags)
openat(oflags) == Dfd(oflags, oflags)
__open_2(oflags)   == Cwd(oflags, oflags)
__openat_2(oflags) == Dfd(oflags, oflags)
creat      == Cwd(FOLLOW, FOLLOW)
fopen      == Cwd(FOLLOW, FOLLOW)
freopen    == Cwd(FOLLOW, FOLLOW)
truncate   == Cwd(FOLLOW, FOLLOW)
truncate64 == Cwd(FOLLOW, FOLLOW)
__catopen  == Cwd(FOLLOW, FOLLOW)
updwtmp    == Cwd(FOLLOW, FOLLOW)
updwtmpx   == Cwd(FOLLOW, FOLLOW)
utmpname   == Cwd(FOLLOW, FOLLOW)
utmpxname  == Cwd(FOLLOW, FOLLOW)
ftok       == Cwd(FOLLOW, FOLLOW)
name_to_handle_at(atflags) == Dfd(atflags, atflags)

\* Directories.
chdir     == Cwd(FOLLOW, FOLLOW)
opendir   == Cwd(FOLLOW, FOLLOW)
scandir   == Cwd(FOLLOW, FOLLOW)
scandir64 == Cwd(FOLLOW, FOLLOW)
\* Faulty: next_scandirat() is given the path of the program.
scandirat_path == Unresolved(Dfd(FOLLOW, FOLLOW))
scandirat == Dfd(FOLLOW, FOLLOW)

\* The status of a file and of its file system.
fstatat(atflags)   == Dfd(atflags, atflags)
fstatat64(atflags) == Dfd(atflags, atflags)
__fstatat64_time64(atflags) == Dfd(atflags, atflags)
__fxstatat(atflags)   == Dfd(atflags, atflags)
__fxstatat64(atflags) == Dfd(atflags, atflags)
statx(atflags) == Dfd(atflags, atflags)
stat     == [fstatat(FOLLOW) EXCEPT !.dfd = FALSE]
stat64   == [fstatat64(FOLLOW) EXCEPT !.dfd = FALSE]
__stat64_time64 == [__fstatat64_time64(FOLLOW) EXCEPT !.dfd = FALSE]
__xstat    == [__fxstatat(FOLLOW) EXCEPT !.dfd = FALSE]
__xstat64  == [__fxstatat64(FOLLOW) EXCEPT !.dfd = FALSE]
__lxstat   == [__fxstatat(NOFOLLOW) EXCEPT !.dfd = FALSE]
__lxstat64 == [__fxstatat64(NOFOLLOW) EXCEPT !.dfd = FALSE]
lstat      == NotWalking(Cwd(NOFOLLOW, NOFOLLOW))
lstat64    == NotWalking(Cwd(NOFOLLOW, NOFOLLOW))
__lstat64_time64 == NotWalking(Cwd(NOFOLLOW, NOFOLLOW))
statfs     == Cwd(FOLLOW, FOLLOW)
statfs64   == Cwd(FOLLOW, FOLLOW)
statvfs    == Cwd(FOLLOW, FOLLOW)
statvfs64  == Cwd(FOLLOW, FOLLOW)

\* Timestamps: the path is resolved as if its last link was not followed.
utimensat(atflags) == Dfd(NOFOLLOW, atflags)
utimes      == Cwd(NOFOLLOW, FOLLOW)
utime       == [utimensat(FOLLOW) EXCEPT !.dfd = FALSE]
lutimes     == [utimensat(NOFOLLOW) EXCEPT !.dfd = FALSE]
futimesat   == utimensat(FOLLOW)

\* Extended attributes.
getxattr     == Cwd(FOLLOW, FOLLOW)
setxattr     == Cwd(FOLLOW, FOLLOW)
listxattr    == Cwd(FOLLOW, FOLLOW)
removexattr  == Cwd(FOLLOW, FOLLOW)
lgetxattr    == NotWalking(Cwd(NOFOLLOW, NOFOLLOW))
lsetxattr    == NotWalking(Cwd(NOFOLLOW, NOFOLLOW))
llistxattr   == NotWalking(Cwd(NOFOLLOW, NOFOLLOW))
lremovexattr == NotWalking(Cwd(NOFOLLOW, NOFOLLOW))

\* The calls that make a name do not follow a link of that name.
mkdirat(dfd)   == [Dfd(FOLLOW, NOFOLLOW) EXCEPT !.dfd = dfd]
mkfifoat(dfd)  == [Dfd(FOLLOW, NOFOLLOW) EXCEPT !.dfd = dfd]
symlinkat(dfd) == [Dfd(NOFOLLOW, NOFOLLOW) EXCEPT !.dfd = dfd]
mkdir   == mkdirat(FALSE)
mkfifo  == mkfifoat(FALSE)
symlink == symlinkat(FALSE)
mkostemps == Cwd(FOLLOW, NOFOLLOW)
mkostemp  == mkostemps
mkstemps  == mkostemps
mkstemp   == mkostemps
mkdtemp   == Cwd(FOLLOW, NOFOLLOW)
mktemp    == Cwd(FOLLOW, NOFOLLOW)

\* A device node is a regular file, made by openat() that follows.
mknodat     == openat(FOLLOW)
mknod       == [mknodat EXCEPT !.dfd = FALSE]
__xmknodat  == openat(FOLLOW)
__xmknod    == [__xmknodat EXCEPT !.dfd = FALSE]

\* The calls that remove a name, and those of two paths.
unlinkat == NotWalking(Dfd(NOFOLLOW, NOFOLLOW))
unlink   == [unlinkat EXCEPT !.dfd = FALSE]
remove   == Cwd(NOFOLLOW, NOFOLLOW)
rmdir    == NotWalking(Cwd(NOFOLLOW, NOFOLLOW))
renameat  == [old |-> NotWalking(Dfd(NOFOLLOW, NOFOLLOW)),
              new |-> NotWalking(Dfd(NOFOLLOW, NOFOLLOW))]
renameat2 == [old |-> Dfd(NOFOLLOW, NOFOLLOW), new |-> Dfd(NOFOLLOW, NOFOLLOW)]
linkat(atflags) == [old |-> Dfd(FOLLOW, atflags), new |-> Dfd(FOLLOW, NOFOLLOW)]
rename    == [renameat EXCEPT !.old.dfd = FALSE, !.new.dfd = FALSE]
link      == [linkat(NOFOLLOW) EXCEPT !.old.dfd = FALSE, !.new.dfd = FALSE]

\* The calls that return a path.
readlinkat == NotWalking(Dfd(NOFOLLOW, NOFOLLOW))
readlink   == [readlinkat EXCEPT !.dfd = FALSE]
realpath   == Cwd(FOLLOW, FOLLOW)
canonicalize_file_name == Cwd(FOLLOW, FOLLOW)
tempnam    == Cwd(FOLLOW, FOLLOW)

\* Watches.
inotify_add_watch == Unresolved(Cwd(FOLLOW, FOLLOW))
fanotify_mark     == Unresolved(Dfd(FOLLOW, FOLLOW))

=============================================================================
