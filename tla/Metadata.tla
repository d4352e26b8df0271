------------------------------ MODULE Metadata ------------------------------
(***************************************************************************)
(* The emulation of file modes and ownership: chmod(2) and chown(2) of an  *)
(* unprivileged user, as the Linux build of libiamroot does them.  What    *)
(* the kernel refuses, or what would lock the user out, is kept beside the *)
(* file in the extended attributes user.iamroot.{mode,uid,gid}; the stat   *)
(* family shows the attribute in place of the inode's own field.           *)
(*                                                                         *)
(* A wrapper is three steps of its process, because other processes run    *)
(* between its system calls: the entry computes the mode or owner to ask   *)
(* of the kernel, next_X is the kernel's call, and the last step records   *)
(* what was asked.  Paths are resolved already (see PathResolution): an    *)
(* object is the file a path leads to.  A mode is the set of its one bits. *)
(***************************************************************************)
EXTENDS Integers

CONSTANTS
    Procs,      \* the processes preloading libiamroot
    Objs,       \* the resolved paths they share
    Modes,      \* the modes programs ask for
    Masks,      \* the masks programs give to umask()
    Ids,        \* the user and group ids programs give to chown(), -1 included
    UserId,     \* the unprivileged user who runs them, and his group
    Foreign,    \* the objects found there at the start, created by others
    NoMode,     \* (mode_t)-1, there is no user.iamroot.mode
    Absent      \* there is no such file

ModeBits == 0..15
PermBits == 0..8
S_IFMT   == 12..15
S_IFREG  == {15}
S_IFDIR  == {14}
S_IFIFO  == {12}
S_ISUID  == 11
S_ISGID  == 10
S_IRUSR  == 8
S_IWUSR  == 7
S_IXUSR  == 6
S_IROTH  == 2
S_IWOTH  == 1
NoId     == -1

Owners == [uid : Ids, gid : Ids]
NoOwner == [uid |-> NoId, gid |-> NoId]

ASSUME ModesAssumption == Modes \subseteq SUBSET ModeBits
ASSUME MasksAssumption == Masks \subseteq SUBSET ModeBits
ASSUME IdsAssumption   == Ids \subseteq Int /\ NoId \in Ids
ASSUME UserAssumption  == UserId \in Int
ASSUME NullAssumption  == \A m \in SUBSET ModeBits : m # NoMode

VARIABLES
    file,       \* the inode of each object, with its extended attributes
    kmask,      \* the umask of each process the kernel applies
    emask,      \* IAMROOT_UMASK in the environment of each process
    given,      \* the mask each program gave last to umask(): for the properties
    call        \* the wrapper each process is in

vars == <<file, kmask, emask, given, call>>

Inodes == [st_mode : SUBSET ModeBits, uid : Int,
           xmode : (SUBSET ModeBits) \cup {NoMode}, xown : Owners]

ASSUME AbsentAssumption  == Absent \notin Inodes
ASSUME ForeignAssumption ==
    /\ DOMAIN Foreign \subseteq Objs
    /\ \A o \in DOMAIN Foreign : Foreign[o] \in Inodes /\ Foreign[o].uid # UserId

Idle == [pc |-> "idle"]
ModeOps == {"chmod", "fchmod", "lchmod", "open", "tmpfile", "creat", "mkdir",
            "mkfifo", "orphan"}
OwnOps  == {"chown", "fchown", "unowned"}
ModeCalls == [pc : {"sys", "record"}, op : ModeOps, obj : Objs,
              oldmode : SUBSET ModeBits, mode : SUBSET ModeBits,
              ret : {0, -1}, made : BOOLEAN]
OwnCalls  == [pc : {"sys", "record"}, op : OwnOps, obj : Objs,
              old : Owners, own : Owners, ret : {0, -1}]

TypeOK ==
    /\ file  \in [Objs -> Inodes \cup {Absent}]
    /\ kmask \in [Procs -> SUBSET PermBits]
    /\ emask \in [Procs -> SUBSET PermBits]
    /\ given \in [Procs -> SUBSET ModeBits]
    /\ call  \in [Procs -> {Idle} \cup ModeCalls \cup OwnCalls]

-----------------------------------------------------------------------------
\* What the kernel lets the user do with an inode.

Exists(o) == file[o] # Absent
Mine(f)   == f.uid = UserId
Type(f)   == f.st_mode \cap S_IFMT

\* A user.* attribute exists on regular files and directories only; it is read
\* with the permission to read the file and set with the permission to write.
XattrSupported(f) == Type(f) \in {S_IFREG, S_IFDIR}
XattrReadable(f)  ==
    XattrSupported(f) /\ (IF Mine(f) THEN S_IRUSR ELSE S_IROTH) \in f.st_mode
XattrWritable(f)  ==
    XattrSupported(f) /\ (IF Mine(f) THEN S_IWUSR ELSE S_IWOTH) \in f.st_mode

-----------------------------------------------------------------------------
\* The macros of iamroot.h.

__get_mode(f) == IF XattrReadable(f) THEN f.xmode ELSE NoMode
__get_uid(f)  == IF XattrReadable(f) THEN f.xown.uid ELSE NoId
__get_gid(f)  == IF XattrReadable(f) THEN f.xown.gid ELSE NoId

\* Faulty: the attribute of an earlier chmod() is not removed.
__set_mode_kept(f, oldmode, mode) ==
    IF XattrWritable(f) /\ oldmode # mode THEN [f EXCEPT !.xmode = oldmode] ELSE f

__set_mode(f, oldmode, mode) ==
    IF XattrWritable(f)
    THEN [f EXCEPT !.xmode = IF oldmode = mode THEN NoMode ELSE oldmode]
    ELSE f

__set_uid(f, olduid, uid) ==
    IF XattrWritable(f)
    THEN [f EXCEPT !.xown.uid = IF olduid = uid THEN NoId ELSE olduid]
    ELSE f

__set_gid(f, oldgid, gid) ==
    IF XattrWritable(f)
    THEN [f EXCEPT !.xown.gid = IF oldgid = gid THEN NoId ELSE oldgid]
    ELSE f

__is_directory(o) == Exists(o) /\ Type(file[o]) = S_IFDIR

\* Faulty: a set-user-ID mode that has the user's permissions is left alone.
__warn_and_set_user_mode_only(mode, user_mode) ==
    IF user_mode \subseteq mode THEN mode ELSE (mode \cup user_mode) \ {S_ISUID, S_ISGID}

__warn_and_set_user_mode(mode, user_mode) ==
    (mode \cup user_mode) \ {S_ISUID, S_ISGID}

__warn_if_insuffisant_user_mode(o, mode) ==
    IF __is_directory(o)
    THEN __warn_and_set_user_mode(mode, {S_IRUSR, S_IWUSR, S_IXUSR})
    ELSE __warn_and_set_user_mode(mode, {S_IRUSR, S_IWUSR})

__st_mode(f) ==
    LET m == __get_mode(f)
    IN  IF m # NoMode THEN Type(f) \cup m ELSE f.st_mode

__st_uid(f) == IF __get_uid(f) # NoId THEN __get_uid(f) ELSE 0
__st_gid(f) == IF __get_gid(f) # NoId THEN __get_gid(f) ELSE 0

\* What stat() fills in for an existing object.
fstatat(f) ==
    [st_mode |-> __st_mode(f), st_uid |-> __st_uid(f), st_gid |-> __st_gid(f)]

-----------------------------------------------------------------------------
\* The entries of the wrappers, up to the call of next_X().

Enter(p, c) ==
    /\ call[p] = Idle
    /\ call' = [call EXCEPT ![p] = c]
    /\ UNCHANGED <<file, kmask, emask, given>>

ModeCall(op, o, oldmode, mode) ==
    [pc |-> "sys", op |-> op, obj |-> o, oldmode |-> oldmode, mode |-> mode,
     ret |-> -1, made |-> FALSE]

chmod(p, o, mode) ==
    Enter(p, ModeCall("chmod", o, mode, __warn_if_insuffisant_user_mode(o, mode)))

fchmodat(p, o, mode) ==
    Enter(p, ModeCall("chmod", o, mode, __warn_if_insuffisant_user_mode(o, mode)))

lchmod(p, o, mode) ==
    Enter(p, ModeCall("lchmod", o, mode, __warn_if_insuffisant_user_mode(o, mode)))

\* The descriptor was opened before: its file exists.
fchmod(p, o, mode) ==
    /\ Exists(o)
    /\ Enter(p, ModeCall("fchmod", o, mode, __warn_if_insuffisant_user_mode(o, mode)))

\* Without O_CREAT the mode and the old mode are the same: the one O_TMPFILE
\* takes, which is not adjusted, or else an arbitrary value.
Oflags == {"O_CREAT", "O_TMPFILE", "neither"}

open(p, o, oflags, mode) ==
    \/ /\ oflags = "O_CREAT"
       /\ Enter(p, ModeCall("creat", o, mode, __warn_if_insuffisant_user_mode(o, mode)))
    \/ /\ oflags = "O_TMPFILE"
       /\ Enter(p, ModeCall("tmpfile", o, mode, mode))
    \/ /\ oflags = "neither"
       /\ Enter(p, ModeCall("open", o, {}, {}))

openat(p, o, oflags, mode) ==
    \/ /\ oflags = "O_CREAT"
       /\ Enter(p, ModeCall("creat", o, mode, __warn_if_insuffisant_user_mode(o, mode)))
    \/ /\ oflags = "O_TMPFILE"
       /\ Enter(p, ModeCall("tmpfile", o, mode, mode))
    \/ /\ oflags = "neither"
       /\ Enter(p, ModeCall("open", o, {}, {}))

creat(p, o, mode) ==
    Enter(p, ModeCall("creat", o, mode, __warn_if_insuffisant_user_mode(o, mode)))

mkdirat(p, o, mode) ==
    Enter(p, ModeCall("mkdir", o, mode, __warn_if_insuffisant_user_mode(o, mode)))

mkfifoat(p, o, mode) ==
    Enter(p, ModeCall("mkfifo", o, mode, __warn_if_insuffisant_user_mode(o, mode)))

\* A device node is a regular file.
mknodat(p, o, mode) == openat(p, o, "O_CREAT", mode)

\* The recorded owner, if any, is what chown() asks of the kernel.
OwnCall(op, o, old) ==
    LET f == file[o]
        Asked(rec, req) == IF Exists(o) /\ rec # NoId THEN rec ELSE req
    IN  [pc |-> "sys", op |-> op, obj |-> o, old |-> old,
         own |-> [uid |-> Asked(__get_uid(f), old.uid),
                  gid |-> Asked(__get_gid(f), old.gid)],
         ret |-> -1]

chown(p, o, old)    == Exists(o) /\ Enter(p, OwnCall("chown", o, old))
fchownat(p, o, old) == Exists(o) /\ Enter(p, OwnCall("chown", o, old))
lchown(p, o, old)   == Exists(o) /\ Enter(p, OwnCall("chown", o, old))
fchown(p, o, old)   == Exists(o) /\ Enter(p, OwnCall("fchown", o, old))

-----------------------------------------------------------------------------
\* The system calls.  Any of them may fail for a reason of the kernel's own.

\* Faulty: the error is returned in place of -1.
ReturnErrno(p, ret, made) ==
    call' = [call EXCEPT ![p] = [@ EXCEPT !.pc = "record", !.ret = -ret, !.made = made]]

Return(p, ret, made) ==
    call' = [call EXCEPT ![p] = [@ EXCEPT !.pc = "record", !.ret = ret, !.made = made]]

Calling(p, ops) == call[p].pc = "sys" /\ call[p].op \in ops

NextFails(p) ==
    /\ Calling(p, ModeOps)
    /\ Return(p, -1, FALSE)
    /\ UNCHANGED <<file, kmask, emask, given>>

\* EPERM, of a file of another user, is forced to success.
NextChmod(p) ==
    LET o == call[p].obj
    IN  /\ Calling(p, {"chmod", "fchmod", "lchmod"})
        /\ Exists(o)
        /\ Return(p, 0, FALSE)
        /\ file' = IF Mine(file[o])
                   THEN [file EXCEPT ![o].st_mode = Type(file[o]) \cup (call[p].mode \ S_IFMT)]
                   ELSE file
        /\ UNCHANGED <<kmask, emask, given>>

\* The name was taken from the inode the descriptor still refers to.
NextOrphan(p) ==
    /\ Calling(p, {"orphan"})
    /\ Return(p, 0, FALSE)
    /\ UNCHANGED <<file, kmask, emask, given>>

NextOpen(p) ==
    /\ Calling(p, {"open", "creat"})
    /\ Exists(call[p].obj)
    /\ Return(p, 0, FALSE)
    /\ UNCHANGED <<file, kmask, emask, given>>

\* The path is the directory of a file that has no name: no inode of Objs.
NextTmpfile(p) ==
    /\ Calling(p, {"tmpfile"})
    /\ __is_directory(call[p].obj)
    /\ Return(p, 0, FALSE)
    /\ UNCHANGED <<file, kmask, emask, given>>

NewInode(type, mode) ==
    [st_mode |-> type \cup mode, uid |-> UserId, xmode |-> NoMode, xown |-> NoOwner]

\* The kernel takes the permissions of the mode, less the mask, for a new file.
NextCreates(p, op, type) ==
    LET o == call[p].obj
    IN  /\ Calling(p, {op})
        /\ ~Exists(o)
        /\ Return(p, 0, TRUE)
        /\ file' = [file EXCEPT ![o] =
                        NewInode(type, (call[p].mode \ S_IFMT) \ kmask[p])]
        /\ UNCHANGED <<kmask, emask, given>>

NextCreat(p)  == NextCreates(p, "creat", S_IFREG)
NextMkdir(p)  == NextCreates(p, "mkdir", S_IFDIR)
NextMkfifo(p) == NextCreates(p, "mkfifo", S_IFIFO)

\* The user cannot give a file away; EPERM is forced to success.
NextChown(p) ==
    /\ Calling(p, OwnOps)
    /\ Exists(call[p].obj) \/ call[p].op = "unowned"
    /\ call' = [call EXCEPT ![p] = [@ EXCEPT !.pc = "record", !.ret = 0]]
    /\ UNCHANGED <<file, kmask, emask, given>>

NextChownFails(p) ==
    /\ Calling(p, OwnOps)
    /\ call' = [call EXCEPT ![p].pc = "record"]
    /\ UNCHANGED <<file, kmask, emask, given>>

-----------------------------------------------------------------------------
\* After the call, whatever it returned, the wrapper records what was asked.

Record(p, f) ==
    LET c == call[p]
    IN  /\ c.pc = "record"
        /\ file' = [file EXCEPT ![c.obj] = IF @ = Absent THEN @ ELSE f]
        /\ call' = [call EXCEPT ![p] = Idle]
        /\ UNCHANGED <<kmask, emask, given>>

RecordMode(p) ==
    LET c == call[p]
    IN  /\ c.pc = "record" /\ c.op \in ModeOps
        /\ Record(p, __set_mode(file[c.obj], c.oldmode, c.mode))

RecordOwner(p) ==
    LET c == call[p]
    IN  /\ c.pc = "record" /\ c.op \in OwnOps
        /\ Record(p, __set_gid(__set_uid(file[c.obj], c.old.uid, c.own.uid),
                               c.old.gid, c.own.gid))

\* The attributes go with the inode; a descriptor keeps the inode, not the name.
unlinkat(p, o) ==
    /\ call[p] = Idle
    /\ Exists(o)
    /\ file' = [file EXCEPT ![o] = Absent]
    /\ call' = [q \in Procs |->
                    IF Calling(q, {"fchmod"}) /\ call[q].obj = o
                    THEN [call[q] EXCEPT !.op = "orphan"]
                    ELSE IF Calling(q, {"fchown"}) /\ call[q].obj = o
                    THEN [call[q] EXCEPT !.op = "unowned"]
                    ELSE call[q]]
    /\ UNCHANGED <<kmask, emask, given>>

\* Faulty: the mask of the program is given to the kernel as it is.
umask_unadjusted(p, mask, recorded) ==
    /\ call[p] = Idle
    /\ recorded => mask \subseteq PermBits
    /\ kmask' = [kmask EXCEPT ![p] = mask \cap PermBits]
    /\ emask' = [emask EXCEPT ![p] = IF recorded THEN mask ELSE @]
    /\ given' = [given EXCEPT ![p] = mask]
    /\ UNCHANGED <<file, call>>

\* Faulty: the kernel's mask is changed only once the program's is recorded.
umask_recorded(p, mask, recorded) ==
    /\ call[p] = Idle
    /\ recorded => mask \subseteq PermBits
    /\ kmask' = [kmask EXCEPT ![p] =
                    IF recorded THEN (mask \cap PermBits) \ {S_IRUSR, S_IWUSR} ELSE @]
    /\ emask' = [emask EXCEPT ![p] = IF recorded THEN mask ELSE @]
    /\ given' = [given EXCEPT ![p] = mask]
    /\ UNCHANGED <<file, call>>

\* The kernel never masks the user's own read and write permissions, and keeps
\* the bits of the permissions only.  __setumask() may fail to record the mask,
\* for want of memory, and always fails when it has four octal digits.
umask(p, mask, recorded) ==
    /\ call[p] = Idle
    /\ recorded => mask \subseteq PermBits
    /\ kmask' = [kmask EXCEPT ![p] = (mask \cap PermBits) \ {S_IRUSR, S_IWUSR}]
    /\ emask' = [emask EXCEPT ![p] = IF recorded THEN mask ELSE @]
    /\ given' = [given EXCEPT ![p] = mask]
    /\ UNCHANGED <<file, call>>

-----------------------------------------------------------------------------

\* umask is 022 and IAMROOT_UMASK is not set.
Init ==
    /\ file  = [o \in Objs |-> IF o \in DOMAIN Foreign THEN Foreign[o] ELSE Absent]
    /\ kmask = [p \in Procs |-> {1, 4}]
    /\ emask = [p \in Procs |-> {1, 4}]
    /\ given = [p \in Procs |-> {1, 4}]
    /\ call  = [p \in Procs |-> Idle]

Wrapper(p) ==
    \E o \in Objs :
        \/ \E m \in Modes :
              \/ chmod(p, o, m) \/ fchmodat(p, o, m)
              \/ fchmod(p, o, m) \/ lchmod(p, o, m)
              \/ \E oflags \in Oflags : open(p, o, oflags, m) \/ openat(p, o, oflags, m)
              \/ creat(p, o, m) \/ mkdirat(p, o, m)
              \/ mkfifoat(p, o, m) \/ mknodat(p, o, m)
        \/ \E old \in Owners :
              chown(p, o, old) \/ fchownat(p, o, old)
              \/ lchown(p, o, old) \/ fchown(p, o, old)
        \/ unlinkat(p, o)

Kernel(p) ==
    \/ NextFails(p) \/ NextChmod(p) \/ NextOrphan(p) \/ NextOpen(p) \/ NextTmpfile(p)
    \/ NextCreat(p) \/ NextMkdir(p) \/ NextMkfifo(p)
    \/ NextChown(p) \/ NextChownFails(p)

Next ==
    \E p \in Procs :
        \/ Wrapper(p)
        \/ \E mask \in Masks, recorded \in BOOLEAN : umask(p, mask, recorded)
        \/ Kernel(p)
        \/ RecordMode(p) \/ RecordOwner(p)

Spec == Init /\ [][Next]_vars

-----------------------------------------------------------------------------
(* Properties *)

(***************************************************************************)
(* Whatever modes and masks the programs ask for, and however the calls of *)
(* several processes interleave, the inode of a file the user created lets *)
(* him read and write it and is not set-user-ID nor set-group-ID.  It is   *)
(* what makes the later recording of its attributes possible, and takes    *)
(* the adjustment of the mode by chmod() and by the creating calls and the *)
(* adjustment of the mask by umask() together.                             *)
(***************************************************************************)
UserKeepsAccess ==
    \A o \in Objs :
        Exists(o) /\ Mine(file[o]) =>
            /\ {S_IRUSR, S_IWUSR} \subseteq file[o].st_mode
            /\ file[o].st_mode \cap {S_ISUID, S_ISGID} = {}

\* A process that runs alone sees no change but its own.
Alone == \E p \in Procs : Procs = {p}

Returned(p, op) ==
    /\ call[p].pc = "record" /\ call'[p] = Idle
    /\ call[p].op = op /\ call[p].ret = 0

(***************************************************************************)
(* After a chmod() or a fchmod() that succeeded, stat() shows the mode the *)
(* program asked for, on the user's own files and directories: the modes   *)
(* the inode cannot have are in the attribute, and the attribute of an     *)
(* earlier chmod() is gone when it can.                                    *)
(***************************************************************************)
ChmodIsSeen ==
    [][\A p \in Procs :
         Alone /\ (Returned(p, "chmod") \/ Returned(p, "fchmod")) =>
           LET f == file[call[p].obj]
           IN  f # Absent /\ Mine(f) /\ XattrSupported(f) =>
                 fstatat(file'[call[p].obj]).st_mode \ S_IFMT = call[p].oldmode \ S_IFMT]_vars

(***************************************************************************)
(* Whatever mask the program gave last to umask(), one of four digits or   *)
(* one that __setumask() had no memory to record included, a file created  *)
(* with a mode that leaves the user in control is seen with that mode less *)
(* the mask, but for the user's own read and write permissions, which no   *)
(* mask takes from him here as it would without the library.  A mode that  *)
(* had to be adjusted is seen as it was asked, mask or no mask: it is      *)
(* recorded before the kernel's mask can apply to it.                      *)
(***************************************************************************)
CreatedLessTheMask ==
    [][\A p \in Procs :
         Alone /\ (Returned(p, "creat") \/ Returned(p, "mkdir")) /\ call[p].made =>
           LET asked == call[p].oldmode
               masked == (given[p] \cap PermBits) \ {S_IRUSR, S_IWUSR}
               control == /\ {S_IRUSR, S_IWUSR} \subseteq asked
                          /\ asked \cap {S_ISUID, S_ISGID} = {}
           IN  fstatat(file'[call[p].obj]).st_mode \ S_IFMT
                 = (asked \ S_IFMT) \ (IF control THEN masked ELSE {})]_vars

(***************************************************************************)
(* What a file is shown as does not change unless a chmod() or a creating  *)
(* call says so: "save and load the user permissions to extended           *)
(* attributes" is of use only if opening the file keeps them.              *)
(***************************************************************************)
OpenKeepsMode ==
    [][\A p \in Procs : Returned(p, "open") =>
         LET o == call[p].obj
         IN  Exists(o) => fstatat(file'[o]).st_mode = fstatat(file[o]).st_mode]_vars

=============================================================================
