------------------------------- MODULE Kernel -------------------------------
(***************************************************************************)
(* The file system and the pathname lookup of the kernel, path_resolution(7)*)
(* of the manual: external to iamroot, which calls it after its own        *)
(* resolution.  A location is the sequence of names that leads to an inode *)
(* from the root of the host, without links.                               *)
(*                                                                         *)
(* The root directory is a parameter of the lookup: the host's <<>> for    *)
(* the process libiamroot is loaded in, and the jail for the process in    *)
(* chroot(2) that iamroot imitates.                                        *)
(***************************************************************************)
EXTENDS Paths

CONSTANT SYMLOOP_MAX    \* links a lookup follows at most, 40 of Linux

ASSUME KernelAssumption == SYMLOOP_MAX \in Nat

Directory == [type |-> "dir"]
File      == [type |-> "file"]
Link(target)     == [type |-> "link", target |-> target]
Redirect(target) == [type |-> "dir", redirect |-> target]

Parent(loc) == IF loc = <<>> THEN <<>> ELSE SubSeq(loc, 1, Len(loc) - 1)

Exists(fs, loc) == loc \in DOMAIN fs
IsDir(fs, loc)  == Exists(fs, loc) /\ fs[loc].type = "dir"
IsLink(fs, loc) == Exists(fs, loc) /\ fs[loc].type = "link"

\* A file system: what is in a directory has a name, and the directory exists.
Inodes ==
    [type : {"dir", "file"}] \cup [type : {"link"}, target : Pathnames]
        \cup [type : {"dir"}, redirect : Pathnames]
IsTree(fs) ==
    /\ DOMAIN fs \subseteq Seq(FileNames)
    /\ \A loc \in DOMAIN fs : fs[loc] \in Inodes /\ IsDir(fs, Parent(loc))

\* A location is the directory dir or below it.
Below(loc, dir) == Len(dir) <= Len(loc) /\ SubSeq(loc, 1, Len(dir)) = dir

(***************************************************************************)
(* A lookup: the location reached, the parts to walk, the links followed,  *)
(* whether ".." was met at the root, and the error once there is one.      *)
(***************************************************************************)
Errors  == {"", "ENOENT", "ENOTDIR", "ELOOP"}
Lookups == [at : Seq(FileNames), todo : Seq(Parts), links : 0..SYMLOOP_MAX,
            clamped : BOOLEAN, err : Errors]

LookupStart(root, cwd, path) ==
    [at |-> IF IsAbsolute(path) THEN root ELSE cwd, todo |-> path,
     links |-> 0, clamped |-> FALSE, err |-> IF path = Empty THEN "ENOENT" ELSE ""]

LookupStep(fs, root, follow, l) ==
    LET part == Head(l.todo)
        rest == Tail(l.todo)
        next == Append(l.at, part)
        last == rest = <<>>
        Fail(err) == [l EXCEPT !.err = err]
    IN  IF ~Exists(fs, l.at) THEN Fail("ENOENT")
        ELSE IF ~IsDir(fs, l.at) THEN Fail("ENOTDIR")
        ELSE IF part \in {"", Dot} THEN [l EXCEPT !.todo = rest]
        ELSE IF part = DotDot
        THEN [l EXCEPT !.todo = rest,
                       !.at = IF @ = root THEN root ELSE Parent(@),
                       !.clamped = @ \/ (l.at = root /\ root # <<>>)]
        ELSE IF IsLink(fs, next) /\ (follow \/ ~last)
        THEN IF l.links = SYMLOOP_MAX THEN Fail("ELOOP")
             ELSE LET target == fs[next].target
                  IN  [l EXCEPT !.links = @ + 1,
                                !.at = IF IsAbsolute(target) THEN root ELSE @,
                                !.todo = target \o rest]
        ELSE IF ~Exists(fs, next) /\ (\E i \in 1..Len(rest) : rest[i] # "") THEN Fail("ENOENT")
        ELSE [l EXCEPT !.at = next, !.todo = rest]

Lookup(fs, root, cwd, path, follow) ==
    LET walk[l \in Lookups] ==
            IF l.err # "" \/ l.todo = <<>> THEN l ELSE walk[LookupStep(fs, root, follow, l)]
    IN  walk[LookupStart(root, cwd, path)]

\* The lookup ended; what it found may be absent, in a directory that exists.
Ended(l) == l \in Lookups /\ l.err = "" /\ l.todo = <<>>
Found(fs, l) == Ended(l) /\ Exists(fs, l.at)
=============================================================================
