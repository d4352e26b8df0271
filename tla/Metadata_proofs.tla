--------------------------- MODULE Metadata_proofs ---------------------------
(***************************************************************************)
(* Proofs about Metadata, for any processes, objects, modes and masks.     *)
(***************************************************************************)
EXTENDS Metadata, TLAPS

\* The calls that give an inode its mode.
GivingOps == {"chmod", "fchmod", "lchmod", "creat", "mkdir", "mkfifo"}

KeepsAccess(mode) ==
    S_IRUSR \in mode /\ S_IWUSR \in mode /\ S_ISUID \notin mode /\ S_ISGID \notin mode

\* UserKeepsAccess is not inductive: the mode a process is about to give, which
\* was computed before its system call, and the kernel's masks matter too.
FilesOK == \A o \in Objs : Exists(o) /\ Mine(file[o]) => KeepsAccess(file[o].st_mode)
CallsOK == \A p \in Procs :
              call[p].pc = "sys" /\ call[p].op \in GivingOps => KeepsAccess(call[p].mode)
MasksOK == \A p \in Procs : S_IRUSR \notin kmask[p] /\ S_IWUSR \notin kmask[p]

IInv == TypeOK /\ FilesOK /\ CallsOK /\ MasksOK

USE DEF S_IRUSR, S_IWUSR, S_IXUSR, S_ISUID, S_ISGID

-----------------------------------------------------------------------------
(***************************************************************************)
(* The adjustment of iamroot.h leaves a mode the user keeps access with.   *)
(***************************************************************************)
LEMMA AdjustedMode ==
    ASSUME NEW o, NEW mode \in SUBSET ModeBits
    PROVE  /\ __warn_if_insuffisant_user_mode(o, mode) \in SUBSET ModeBits
           /\ KeepsAccess(__warn_if_insuffisant_user_mode(o, mode))
  BY DEF __warn_if_insuffisant_user_mode, __warn_and_set_user_mode, KeepsAccess, ModeBits

(***************************************************************************)
(* Recording attributes gives an inode of the same mode and user.          *)
(***************************************************************************)
LEMMA RecordingMode ==
    ASSUME NEW f \in Inodes, NEW old \in SUBSET ModeBits, NEW mode
    PROVE  /\ __set_mode(f, old, mode) \in Inodes
           /\ __set_mode(f, old, mode).st_mode = f.st_mode
           /\ __set_mode(f, old, mode).uid = f.uid
  BY DEF __set_mode, Inodes

LEMMA RecordingUid ==
    ASSUME NEW f \in Inodes, NEW old \in Ids, NEW id
    PROVE  /\ __set_uid(f, old, id) \in Inodes
           /\ __set_uid(f, old, id).st_mode = f.st_mode
           /\ __set_uid(f, old, id).uid = f.uid
  BY IdsAssumption DEF __set_uid, Inodes, Owners, NoId

LEMMA RecordingGid ==
    ASSUME NEW f \in Inodes, NEW old \in Ids, NEW id
    PROVE  /\ __set_gid(f, old, id) \in Inodes
           /\ __set_gid(f, old, id).st_mode = f.st_mode
           /\ __set_gid(f, old, id).uid = f.uid
  BY IdsAssumption DEF __set_gid, Inodes, Owners, NoId

(***************************************************************************)
(* A mode call that keeps access, or gives no mode, preserves the          *)
(* invariant when its process enters it.                                   *)
(***************************************************************************)
LEMMA EnteringMode ==
    ASSUME IInv, NEW p \in Procs, NEW o \in Objs, NEW op \in ModeOps,
           NEW old \in SUBSET ModeBits, NEW mode \in SUBSET ModeBits,
           op \in GivingOps => KeepsAccess(mode),
           Enter(p, ModeCall(op, o, old, mode))
    PROVE  IInv'
<1> DEFINE c == ModeCall(op, o, old, mode)
<1>1. c \in ModeCalls
  BY DEF ModeCall, ModeCalls
<1>2. c.op = op /\ c.mode = mode
  BY DEF ModeCall
<1>3. UNCHANGED <<file, kmask, emask, given>> /\ call' = [call EXCEPT ![p] = c]
  BY DEF Enter
<1> HIDE DEF c
<1>4. TypeOK'
  BY <1>1, <1>3 DEF IInv, TypeOK
<1>5. FilesOK' /\ MasksOK'
  BY <1>3 DEF IInv, FilesOK, MasksOK, Exists, Mine
<1>6. CallsOK'
  BY <1>2, <1>3 DEF IInv, TypeOK, CallsOK
<1> QED BY <1>4, <1>5, <1>6 DEF IInv

LEMMA EnteringOwn ==
    ASSUME IInv, NEW p \in Procs, NEW o \in Objs, NEW op \in OwnOps,
           NEW old \in Owners, Exists(o), Enter(p, OwnCall(op, o, old))
    PROVE  IInv'
<1> DEFINE c == OwnCall(op, o, old)
<1>1. file[o] \in Inodes
  BY DEF IInv, TypeOK, Exists
<1>2. c \in OwnCalls
  BY <1>1, IdsAssumption
  DEF OwnCall, OwnCalls, Owners, Inodes, __get_uid, __get_gid, NoId
<1>3. c.op = op
  BY DEF OwnCall
<1>4. UNCHANGED <<file, kmask, emask, given>> /\ call' = [call EXCEPT ![p] = c]
  BY DEF Enter
<1> HIDE DEF c
<1>5. TypeOK'
  BY <1>2, <1>4 DEF IInv, TypeOK
<1>6. FilesOK' /\ MasksOK'
  BY <1>4 DEF IInv, FilesOK, MasksOK, Exists, Mine
<1>7. CallsOK'
  BY <1>3, <1>4 DEF IInv, TypeOK, CallsOK, OwnOps, GivingOps
<1> QED BY <1>5, <1>6, <1>7 DEF IInv

(***************************************************************************)
(* The entries of the wrappers preserve the invariant: each passes an      *)
(* adjusted mode, or, without O_CREAT, one that no named inode gets.       *)
(***************************************************************************)
LEMMA WrapperModeStep ==
    ASSUME IInv, NEW p \in Procs, NEW o \in Objs,
           NEW mode \in Modes, NEW oflags \in Oflags,
           \/ chmod(p, o, mode) \/ fchmodat(p, o, mode)
           \/ fchmod(p, o, mode) \/ lchmod(p, o, mode)
           \/ open(p, o, oflags, mode) \/ openat(p, o, oflags, mode)
           \/ creat(p, o, mode) \/ mkdirat(p, o, mode)
           \/ mkfifoat(p, o, mode) \/ mknodat(p, o, mode)
    PROVE  IInv'
<1> DEFINE adjusted == __warn_if_insuffisant_user_mode(o, mode)
<1>1. mode \in SUBSET ModeBits
  BY ModesAssumption
<1>2. adjusted \in SUBSET ModeBits /\ KeepsAccess(adjusted)
  BY <1>1, AdjustedMode
<1>3. \/ \E op \in GivingOps : Enter(p, ModeCall(op, o, mode, adjusted))
      \/ Enter(p, ModeCall("open", o, {}, {}))
      \/ Enter(p, ModeCall("tmpfile", o, mode, mode))
  BY DEF chmod, fchmodat, fchmod, lchmod, open, openat, creat, mkdirat,
         mkfifoat, mknodat, GivingOps
<1> HIDE DEF adjusted
<1>4. CASE Enter(p, ModeCall("open", o, {}, {}))
  BY <1>4, EnteringMode DEF ModeOps, GivingOps
<1>5. CASE Enter(p, ModeCall("tmpfile", o, mode, mode))
  BY <1>1, <1>5, EnteringMode DEF ModeOps, GivingOps
<1>6. ASSUME NEW op \in GivingOps, Enter(p, ModeCall(op, o, mode, adjusted))
      PROVE  IInv'
  <2>1. op \in ModeOps
    BY DEF GivingOps, ModeOps
  <2> QED BY <1>1, <1>2, <1>6, <2>1, EnteringMode
<1> QED BY <1>3, <1>4, <1>5, <1>6

(***************************************************************************)
(* The entries of the chown() family give no mode.                         *)
(***************************************************************************)
LEMMA WrapperOwnStep ==
    ASSUME IInv, NEW p \in Procs, NEW o \in Objs, NEW old \in Owners,
           \/ chown(p, o, old) \/ fchownat(p, o, old)
           \/ lchown(p, o, old) \/ fchown(p, o, old)
    PROVE  IInv'
<1>1. \E op \in OwnOps : Exists(o) /\ Enter(p, OwnCall(op, o, old))
  BY DEF chown, fchownat, lchown, fchown, OwnOps
<1> QED BY <1>1, EnteringOwn

-----------------------------------------------------------------------------
(***************************************************************************)
(* The kernel's calls preserve the invariant.  Only chmod() and the        *)
(* creating calls touch an inode, with the mode of the call, less a mask   *)
(* that holds none of the user's permissions.                              *)
(***************************************************************************)
LEMMA CallMoves ==
    ASSUME IInv, NEW p \in Procs, NEW c \in ModeCalls \cup OwnCalls,
           call' = [call EXCEPT ![p] = c], c.pc = "record"
    PROVE  call' \in [Procs -> {Idle} \cup ModeCalls \cup OwnCalls] /\ CallsOK'
  BY DEF IInv, TypeOK, CallsOK

LEMMA Returning ==
    ASSUME IInv, NEW p \in Procs, call[p].pc = "sys", call[p].op \in ModeOps,
           NEW ret \in {0, -1}, NEW made \in BOOLEAN, Return(p, ret, made)
    PROVE  call' \in [Procs -> {Idle} \cup ModeCalls \cup OwnCalls] /\ CallsOK'
<1> DEFINE c == [call[p] EXCEPT !.pc = "record", !.ret = ret, !.made = made]
<1>1. call[p] \in ModeCalls
  BY DEF IInv, TypeOK, Idle, OwnCalls, ModeOps, OwnOps
<1>2. c \in ModeCalls /\ c.pc = "record"
  BY <1>1 DEF ModeCalls
<1>3. call' = [call EXCEPT ![p] = c]
  BY DEF Return
<1> HIDE DEF c
<1> QED BY <1>2, <1>3, CallMoves

LEMMA KernelStep ==
    ASSUME IInv, NEW p \in Procs, Kernel(p)
    PROVE  IInv'
<1> USE DEF Calling
<1>1. ASSUME UNCHANGED <<file, kmask, emask, given>>,
             call' \in [Procs -> {Idle} \cup ModeCalls \cup OwnCalls] /\ CallsOK'
      PROVE  IInv'
  BY <1>1 DEF IInv, TypeOK, FilesOK, MasksOK, Exists, Mine
<1>2. CASE NextFails(p)
  BY <1>1, <1>2, Returning DEF NextFails
<1>3. CASE NextOrphan(p)
  BY <1>1, <1>3, Returning DEF NextOrphan, ModeOps
<1>4. CASE NextOpen(p) \/ NextTmpfile(p)
  BY <1>1, <1>4, Returning DEF NextOpen, NextTmpfile, ModeOps
<1>5. CASE NextChmod(p)
  <2> DEFINE o == call[p].obj
             f == [file[o] EXCEPT !.st_mode = Type(file[o]) \cup (call[p].mode \ S_IFMT)]
  <2>1. call[p] \in ModeCalls /\ KeepsAccess(call[p].mode)
    BY <1>5 DEF IInv, TypeOK, CallsOK, NextChmod, Idle, OwnCalls, ModeOps, OwnOps, GivingOps
  <2>2. o \in Objs /\ file[o] \in Inodes /\ call[p].mode \in SUBSET ModeBits
    BY <1>5, <2>1 DEF IInv, TypeOK, NextChmod, Exists, ModeCalls
  <2>3. f \in Inodes /\ KeepsAccess(f.st_mode) /\ f.uid = file[o].uid
    BY <2>1, <2>2 DEF Inodes, KeepsAccess, Type, S_IFMT, ModeBits
  <2>4. file' = IF Mine(file[o]) THEN [file EXCEPT ![o] = f] ELSE file
    BY <1>5 DEF NextChmod
  <2>5. UNCHANGED <<kmask, emask, given>>
    BY <1>5 DEF NextChmod
  <2>6. call' \in [Procs -> {Idle} \cup ModeCalls \cup OwnCalls] /\ CallsOK'
    BY <1>5, Returning DEF NextChmod, ModeOps
  <2> HIDE DEF f, o
  <2>7. TypeOK' /\ MasksOK'
    BY <2>2, <2>3, <2>4, <2>5, <2>6 DEF IInv, TypeOK, MasksOK
  <2>8. FilesOK'
    BY <2>2, <2>3, <2>4 DEF IInv, TypeOK, FilesOK, Exists, Mine
  <2> QED BY <2>6, <2>7, <2>8 DEF IInv
<1>6. ASSUME NEW op \in {"creat", "mkdir", "mkfifo"}, NEW type \in SUBSET (12..15),
             NextCreates(p, op, type)
      PROVE  IInv'
  <2> DEFINE o == call[p].obj
             f == NewInode(type, (call[p].mode \ S_IFMT) \ kmask[p])
  <2>1. call[p] \in ModeCalls /\ KeepsAccess(call[p].mode)
    BY <1>6 DEF IInv, TypeOK, CallsOK, NextCreates, Idle, OwnCalls, ModeOps, OwnOps, GivingOps
  <2>2. o \in Objs /\ call[p].mode \in SUBSET ModeBits
    BY <2>1 DEF ModeCalls
  <2>3. f \in Inodes
    <3>1. type \cup ((call[p].mode \ S_IFMT) \ kmask[p]) \in SUBSET ModeBits
      <4>1. \A b \in 12..15 : b \in ModeBits
        BY DEF ModeBits
      <4>2. \A b \in type : b \in 12..15
        BY <1>6
      <4> QED BY <2>2, <4>1, <4>2
    <3>2. NoOwner \in Owners
      BY IdsAssumption DEF NoOwner, Owners
    <3> QED BY <3>1, <3>2, UserAssumption DEF NewInode, Inodes
  <2>4. KeepsAccess(f.st_mode)
    <3>1. KeepsAccess(type \cup ((call[p].mode \ S_IFMT) \ kmask[p]))
      BY <1>6, <2>1 DEF IInv, MasksOK, KeepsAccess, S_IFMT
    <3> QED BY <3>1 DEF NewInode
  <2>5. /\ file' = [file EXCEPT ![o] = f]
        /\ UNCHANGED <<kmask, emask, given>>
    BY <1>6 DEF NextCreates
  <2>6. call' \in [Procs -> {Idle} \cup ModeCalls \cup OwnCalls] /\ CallsOK'
    BY <1>6, Returning DEF NextCreates, ModeOps
  <2> HIDE DEF f, o
  <2>7. TypeOK' /\ MasksOK'
    BY <2>2, <2>3, <2>5, <2>6 DEF IInv, TypeOK, MasksOK
  <2>8. FilesOK'
    BY <2>2, <2>4, <2>5 DEF IInv, TypeOK, FilesOK, Exists, Mine
  <2> QED BY <2>6, <2>7, <2>8 DEF IInv
<1>7. CASE NextCreat(p) \/ NextMkdir(p) \/ NextMkfifo(p)
  BY <1>6, <1>7 DEF NextCreat, NextMkdir, NextMkfifo, S_IFREG, S_IFDIR, S_IFIFO
<1>8. CASE NextChown(p) \/ NextChownFails(p)
  <2>1. call[p] \in OwnCalls
    BY <1>8 DEF IInv, TypeOK, NextChown, NextChownFails, Idle, ModeCalls, ModeOps, OwnOps
  <2>2. /\ [call[p] EXCEPT !.pc = "record", !.ret = 0] \in OwnCalls
        /\ [call[p] EXCEPT !.pc = "record"] \in OwnCalls
        /\ [call[p] EXCEPT !.pc = "record", !.ret = 0].pc = "record"
        /\ [call[p] EXCEPT !.pc = "record"].pc = "record"
    BY <2>1 DEF OwnCalls
  <2>3. CASE NextChown(p)
    BY <2>2, <2>3, <1>1, CallMoves DEF NextChown
  <2>4. CASE NextChownFails(p)
    BY <2>2, <2>4, <1>1, CallMoves DEF NextChownFails
  <2> QED BY <1>8, <2>3, <2>4
<1> QED BY <1>2, <1>3, <1>4, <1>5, <1>7, <1>8 DEF Kernel

-----------------------------------------------------------------------------
(***************************************************************************)
(* Recording, unlinkat() and umask() preserve the invariant.               *)
(***************************************************************************)
LEMMA RecordStep ==
    ASSUME IInv, NEW p \in Procs, RecordMode(p) \/ RecordOwner(p)
    PROVE  IInv'
<1> DEFINE o == call[p].obj
<1>1. ASSUME NEW f, o \in Objs, Record(p, f),
             Exists(o) => f \in Inodes /\ f.st_mode = file[o].st_mode /\ f.uid = file[o].uid
      PROVE  IInv'
  <2>1. /\ file' = [file EXCEPT ![o] = IF file[o] = Absent THEN file[o] ELSE f]
        /\ call' = [call EXCEPT ![p] = Idle]
        /\ UNCHANGED <<kmask, emask, given>>
    BY <1>1 DEF Record
  <2> HIDE DEF o
  <2>2. TypeOK' /\ MasksOK'
    BY <1>1, <2>1 DEF IInv, TypeOK, MasksOK, Exists
  <2>3. FilesOK'
    BY <1>1, <2>1 DEF IInv, TypeOK, FilesOK, Exists, Mine
  <2>4. CallsOK'
    BY <2>1 DEF IInv, TypeOK, CallsOK, Idle
  <2> QED BY <2>2, <2>3, <2>4 DEF IInv
<1>2. CASE RecordMode(p)
  <2>1. call[p] \in ModeCalls
    BY <1>2 DEF IInv, TypeOK, RecordMode, Idle, OwnCalls, ModeOps, OwnOps
  <2>2. o \in Objs /\ call[p].oldmode \in SUBSET ModeBits
    BY <2>1 DEF ModeCalls
  <2>3. Exists(o) => file[o] \in Inodes
    BY <2>2 DEF IInv, TypeOK, Exists
  <2> QED BY <1>1, <1>2, <2>2, <2>3, RecordingMode DEF RecordMode
<1>3. CASE RecordOwner(p)
  <2> DEFINE g == __set_uid(file[o], call[p].old.uid, call[p].own.uid)
  <2>1. call[p] \in OwnCalls
    BY <1>3 DEF IInv, TypeOK, RecordOwner, Idle, ModeCalls, ModeOps, OwnOps
  <2>2. o \in Objs /\ call[p].old.uid \in Ids /\ call[p].old.gid \in Ids
    BY <2>1 DEF OwnCalls, Owners
  <2>3. Exists(o) => file[o] \in Inodes
    BY <2>2 DEF IInv, TypeOK, Exists
  <2>4. Exists(o) => g \in Inodes /\ g.st_mode = file[o].st_mode /\ g.uid = file[o].uid
    BY <2>2, <2>3, RecordingUid
  <2>5. Record(p, __set_gid(g, call[p].old.gid, call[p].own.gid))
    BY <1>3 DEF RecordOwner
  <2> HIDE DEF g, o
  <2> QED BY <1>1, <2>2, <2>4, <2>5, RecordingGid
<1> QED BY <1>2, <1>3

LEMMA UnlinkStep ==
    ASSUME IInv, NEW p \in Procs, NEW o \in Objs, unlinkat(p, o)
    PROVE  IInv'
<1>1. ASSUME NEW q \in Procs
      PROVE  /\ call'[q] \in {Idle} \cup ModeCalls \cup OwnCalls
             /\ call'[q].pc = "sys" /\ call'[q].op \in GivingOps
                  => call'[q] = call[q]
  <2>1. call[q] \in {Idle} \cup ModeCalls \cup OwnCalls
    BY DEF IInv, TypeOK
  <2>2. CASE Calling(q, {"fchmod"}) /\ call[q].obj = o
    <3>1. call[q] \in ModeCalls /\ call'[q] = [call[q] EXCEPT !.op = "orphan"]
      BY <2>1, <2>2 DEF unlinkat, Calling, Idle, OwnCalls, OwnOps
    <3> QED BY <3>1 DEF ModeCalls, ModeOps, GivingOps
  <2>3. CASE Calling(q, {"fchown"}) /\ call[q].obj = o
    <3>1. call[q] \in OwnCalls /\ call'[q] = [call[q] EXCEPT !.op = "unowned"]
      BY <2>1, <2>3 DEF unlinkat, Calling, Idle, ModeCalls, ModeOps
    <3> QED BY <3>1 DEF OwnCalls, OwnOps, GivingOps
  <2>4. CASE /\ ~(Calling(q, {"fchmod"}) /\ call[q].obj = o)
             /\ ~(Calling(q, {"fchown"}) /\ call[q].obj = o)
    BY <2>1, <2>4 DEF unlinkat
  <2> QED BY <2>2, <2>3, <2>4
<1>2. TypeOK' /\ MasksOK'
  <2>1. call' \in [Procs -> {Idle} \cup ModeCalls \cup OwnCalls]
    BY <1>1 DEF unlinkat
  <2>2. file' \in [Objs -> Inodes \cup {Absent}] /\ UNCHANGED <<kmask, emask, given>>
    BY DEF unlinkat, IInv, TypeOK
  <2> QED BY <2>1, <2>2 DEF IInv, TypeOK, MasksOK
<1>3. FilesOK'
  BY DEF unlinkat, IInv, TypeOK, FilesOK, Exists, Mine
<1>4. CallsOK'
  BY <1>1 DEF IInv, CallsOK
<1> QED BY <1>2, <1>3, <1>4 DEF IInv

LEMMA UmaskStep ==
    ASSUME IInv, NEW p \in Procs, NEW mask \in Masks, NEW recorded \in BOOLEAN,
           umask(p, mask, recorded)
    PROVE  IInv'
<1>1. mask \in SUBSET ModeBits /\ (recorded => mask \in SUBSET PermBits)
  BY MasksAssumption DEF umask
<1>2. TypeOK' /\ MasksOK'
  BY <1>1 DEF umask, IInv, TypeOK, MasksOK, PermBits
<1>3. FilesOK' /\ CallsOK'
  BY DEF umask, IInv, FilesOK, CallsOK, Exists, Mine
<1> QED BY <1>2, <1>3 DEF IInv

-----------------------------------------------------------------------------
LEMMA InitIInv == Init => IInv
<1> SUFFICES ASSUME Init PROVE IInv
  OBVIOUS
<1>1. TypeOK
  BY ForeignAssumption DEF Init, TypeOK, PermBits, ModeBits
<1>2. FilesOK
  BY ForeignAssumption DEF Init, FilesOK, Exists, Mine
<1>3. CallsOK /\ MasksOK
  BY DEF Init, CallsOK, MasksOK, Idle
<1> QED BY <1>1, <1>2, <1>3 DEF IInv

LEMMA NextIInv == IInv /\ [Next]_vars => IInv'
<1> SUFFICES ASSUME IInv, [Next]_vars PROVE IInv'
  OBVIOUS
<1>1. CASE UNCHANGED vars
  BY <1>1 DEF vars, IInv, TypeOK, FilesOK, CallsOK, MasksOK, Exists, Mine
<1>2. ASSUME NEW p \in Procs, Wrapper(p)
      PROVE  IInv'
  <2>1. PICK o \in Objs :
          \/ \E m \in Modes :
                \/ chmod(p, o, m) \/ fchmodat(p, o, m)
                \/ fchmod(p, o, m) \/ lchmod(p, o, m)
                \/ \E oflags \in Oflags :
                      open(p, o, oflags, m) \/ openat(p, o, oflags, m)
                \/ creat(p, o, m) \/ mkdirat(p, o, m)
                \/ mkfifoat(p, o, m) \/ mknodat(p, o, m)
          \/ \E old \in Owners :
                chown(p, o, old) \/ fchownat(p, o, old)
                \/ lchown(p, o, old) \/ fchown(p, o, old)
          \/ unlinkat(p, o)
    BY <1>2 DEF Wrapper
  <2>2. ASSUME NEW m \in Modes,
               \/ chmod(p, o, m) \/ fchmodat(p, o, m)
               \/ fchmod(p, o, m) \/ lchmod(p, o, m)
               \/ \E oflags \in Oflags :
                     open(p, o, oflags, m) \/ openat(p, o, oflags, m)
               \/ creat(p, o, m) \/ mkdirat(p, o, m)
               \/ mkfifoat(p, o, m) \/ mknodat(p, o, m)
        PROVE  IInv'
    <3>1. PICK oflags \in Oflags :
            \/ chmod(p, o, m) \/ fchmodat(p, o, m)
            \/ fchmod(p, o, m) \/ lchmod(p, o, m)
            \/ open(p, o, oflags, m) \/ openat(p, o, oflags, m)
            \/ creat(p, o, m) \/ mkdirat(p, o, m)
            \/ mkfifoat(p, o, m) \/ mknodat(p, o, m)
      BY <2>2 DEF Oflags
    <3> QED BY <3>1, WrapperModeStep
  <2> QED BY <2>1, <2>2, WrapperOwnStep, UnlinkStep
<1> QED BY <1>1, <1>2, KernelStep, RecordStep, UmaskStep DEF Next

(***************************************************************************)
(* The variables of Metadata have their types, whatever the processes do.  *)
(***************************************************************************)
THEOREM TypeCorrect == Spec => []TypeOK
<1>1. Spec => []IInv
  BY InitIInv, NextIInv, PTL DEF Spec
<1>2. IInv => TypeOK
  BY DEF IInv
<1> QED BY <1>1, <1>2, PTL

(***************************************************************************)
(* Any number of processes, chmod()ing, creating, unlinking and masking in *)
(* any interleaving, leave the user the permission to read and write the   *)
(* files he created, and none of them set-user-ID or set-group-ID.         *)
(***************************************************************************)
THEOREM UserAccess == Spec => []UserKeepsAccess
<1>1. Spec => []IInv
  BY InitIInv, NextIInv, PTL DEF Spec
<1>2. IInv => UserKeepsAccess
  BY DEF IInv, FilesOK, KeepsAccess, UserKeepsAccess
<1> QED BY <1>1, <1>2, PTL

-----------------------------------------------------------------------------
(***************************************************************************)
(* A process that runs alone.  From the entry of a wrapper to its record   *)
(* no other step comes between: the mode that is given is the adjustment   *)
(* of the one that was asked for, of the file as it still is, and the      *)
(* inode has it when the call has succeeded.                               *)
(***************************************************************************)
Asked(p) ==
    call[p].pc = "sys" /\ call[p].op \in GivingOps =>
        call[p].mode = __warn_if_insuffisant_user_mode(call[p].obj, call[p].oldmode)

Given(p) ==
    call[p].pc = "record" /\ call[p].op \in {"chmod", "fchmod"} /\ call[p].ret = 0 =>
        LET f == file[call[p].obj]
        IN  f # Absent /\ Mine(f) => f.st_mode = Type(f) \cup (call[p].mode \ S_IFMT)

\* The mode of a new file is one of a file: the name leads to no directory.
Made(p) ==
    call[p].pc = "record" /\ call[p].op \in {"creat", "mkdir"} /\ call[p].ret = 0
    /\ call[p].made =>
        LET f == file[call[p].obj]
        IN  /\ f # Absent /\ Mine(f) /\ f.xmode = NoMode
            /\ \E type \in {S_IFREG, S_IFDIR} :
                  f.st_mode = type \cup ((call[p].mode \ S_IFMT) \ kmask[p])
            /\ call[p].mode =
                  __warn_and_set_user_mode(call[p].oldmode, {S_IRUSR, S_IWUSR})

\* The kernel's mask is the one the program gave last, recorded or not, but for
\* the user's permissions.
MaskedOK ==
    \A p \in Procs : kmask[p] = (given[p] \cap PermBits) \ {S_IRUSR, S_IWUSR}

AloneInv ==
    /\ MaskedOK
    /\ Alone => \A p \in Procs : Asked(p) /\ Given(p) /\ Made(p)

LEMMA AloneIs == ASSUME Alone, NEW p \in Procs PROVE Procs = {p}
  BY DEF Alone

LEMMA MaskedStep == ASSUME IInv, MaskedOK, [Next]_vars PROVE MaskedOK'
<1>1. CASE UNCHANGED <<kmask, emask, given>>
  BY <1>1 DEF MaskedOK
<1>2. ASSUME NEW p \in Procs, NEW mask \in Masks, NEW recorded \in BOOLEAN,
             umask(p, mask, recorded)
      PROVE  MaskedOK'
  BY <1>2 DEF umask, MaskedOK, IInv, TypeOK
<1>3. ASSUME NEW p \in Procs, Wrapper(p)
      PROVE  UNCHANGED <<kmask, emask, given>>
  BY <1>3 DEF Wrapper, chmod, fchmodat, fchmod, lchmod, open, openat, creat, mkdirat,
              mkfifoat, mknodat, chown, fchownat, lchown, fchown, unlinkat, Enter
<1>4. ASSUME NEW p \in Procs, Kernel(p) \/ RecordMode(p) \/ RecordOwner(p)
      PROVE  UNCHANGED <<kmask, emask, given>>
  BY <1>4 DEF Kernel, NextFails, NextChmod, NextOrphan, NextOpen, NextTmpfile, NextCreat, NextMkdir,
              NextMkfifo, NextCreates, NextChown, NextChownFails, RecordMode, RecordOwner,
              Record
<1> QED BY <1>1, <1>2, <1>3, <1>4 DEF Next, vars

\* A call that is not of the kinds spoken of says nothing.
LEMMA OtherCall ==
    ASSUME NEW p, \/ call[p] = Idle
                  \/ call[p].op \notin GivingOps
                  \/ call[p].pc = "record" /\ (call[p].ret # 0 \/ call[p].op \notin {"chmod", "fchmod", "creat", "mkdir"})
    PROVE  Asked(p) /\ Given(p) /\ Made(p)
  BY DEF Asked, Given, Made, Idle, GivingOps

LEMMA AloneEnters ==
    ASSUME IInv, NEW p \in Procs, NEW o \in Objs, NEW op \in GivingOps, NEW mode,
           Enter(p, ModeCall(op, o, mode, __warn_if_insuffisant_user_mode(o, mode)))
    PROVE  Asked(p)' /\ Given(p)' /\ Made(p)'
<1> DEFINE adjusted == __warn_if_insuffisant_user_mode(o, mode)
           c == ModeCall(op, o, mode, adjusted)
<1>1. c.pc = "sys" /\ c.obj = o /\ c.oldmode = mode /\ c.mode = adjusted
  BY DEF ModeCall
<1>2. call'[p] = c /\ file' = file
  BY DEF Enter, IInv, TypeOK
<1>3. adjusted' = adjusted
  BY <1>2 DEF __warn_if_insuffisant_user_mode, __is_directory, Exists
<1> HIDE DEF c, adjusted
<1>4. Asked(p)'
  <2>1. call'[p].mode = adjusted /\ call'[p].obj = o /\ call'[p].oldmode = mode
    BY <1>1, <1>2
  <2> QED BY <2>1, <1>3 DEF Asked, adjusted
<1>5. Given(p)' /\ Made(p)'
  BY <1>1, <1>2 DEF Given, Made
<1> QED BY <1>4, <1>5

LEMMA AloneWrapper ==
    ASSUME IInv, NEW p \in Procs, Procs = {p}, Wrapper(p),
           Asked(p) /\ Given(p) /\ Made(p)
    PROVE  Asked(p)' /\ Given(p)' /\ Made(p)'
<1>1. PICK o \in Objs :
          \/ \E m \in Modes, oflags \in Oflags :
                \/ chmod(p, o, m) \/ fchmodat(p, o, m) \/ fchmod(p, o, m) \/ lchmod(p, o, m)
                \/ open(p, o, oflags, m) \/ openat(p, o, oflags, m)
                \/ creat(p, o, m) \/ mkdirat(p, o, m) \/ mkfifoat(p, o, m) \/ mknodat(p, o, m)
          \/ \E old \in Owners : \E op \in OwnOps : Enter(p, OwnCall(op, o, old))
          \/ unlinkat(p, o)
  BY DEF Wrapper, chown, fchownat, lchown, fchown, OwnOps, Oflags
<1>2. ASSUME NEW m \in Modes, NEW oflags \in Oflags,
             \/ chmod(p, o, m) \/ fchmodat(p, o, m) \/ fchmod(p, o, m) \/ lchmod(p, o, m)
             \/ open(p, o, oflags, m) \/ openat(p, o, oflags, m)
             \/ creat(p, o, m) \/ mkdirat(p, o, m) \/ mkfifoat(p, o, m) \/ mknodat(p, o, m)
      PROVE  Asked(p)' /\ Given(p)' /\ Made(p)'
  <2> DEFINE adjusted == __warn_if_insuffisant_user_mode(o, m)
  <2>1. \/ \E op \in GivingOps : Enter(p, ModeCall(op, o, m, adjusted))
        \/ \E mode : Enter(p, ModeCall("open", o, mode, mode))
        \/ \E mode : Enter(p, ModeCall("tmpfile", o, mode, mode))
    BY <1>2 DEF chmod, fchmodat, fchmod, lchmod, open, openat, creat, mkdirat,
                mkfifoat, mknodat, GivingOps
  <2>2. CASE \E op \in GivingOps : Enter(p, ModeCall(op, o, m, adjusted))
    BY <2>2, AloneEnters
  <2>3. ASSUME NEW op \in {"open", "tmpfile"}, NEW mode,
               Enter(p, ModeCall(op, o, mode, mode))
        PROVE  Asked(p)' /\ Given(p)' /\ Made(p)'
    <3>1. call'[p].pc = "sys" /\ call'[p].op = op
      BY <2>3 DEF Enter, IInv, TypeOK, ModeCall
    <3> QED BY <3>1 DEF Asked, Given, Made, GivingOps
  <2> QED BY <2>1, <2>2, <2>3
<1>3. ASSUME NEW old \in Owners, NEW op \in OwnOps, Enter(p, OwnCall(op, o, old))
      PROVE  Asked(p)' /\ Given(p)' /\ Made(p)'
  <2>1. call'[p] = OwnCall(op, o, old)
    BY <1>3 DEF Enter, IInv, TypeOK
  <2>2. call'[p].pc = "sys" /\ call'[p].op = op
    BY <2>1 DEF OwnCall
  <2> QED BY <2>2 DEF Asked, Given, Made, GivingOps, OwnOps
<1>4. ASSUME unlinkat(p, o)
      PROVE  Asked(p)' /\ Given(p)' /\ Made(p)'
  <2>1. call[p] = Idle
    BY <1>4 DEF unlinkat
  <2>2. call'[p] = Idle
    BY <1>4, <2>1 DEF unlinkat, Calling, Idle
  <2> QED BY <2>2 DEF Asked, Given, Made, Idle
<1> QED BY <1>1, <1>2, <1>3, <1>4

LEMMA AloneKernel ==
    ASSUME IInv, MaskedOK, NEW p \in Procs, Procs = {p}, Kernel(p),
           Asked(p) /\ Given(p) /\ Made(p)
    PROVE  Asked(p)' /\ Given(p)' /\ Made(p)'
<1> USE DEF Calling
<1>1. ASSUME NEW ret \in {0, -1}, NEW made \in BOOLEAN, Return(p, ret, made),
             call[p].pc = "sys", call[p].op \in ModeOps
      PROVE  /\ call[p] \in ModeCalls
             /\ call'[p] = [call[p] EXCEPT !.pc = "record", !.ret = ret, !.made = made]
             /\ call'[p].pc = "record" /\ call'[p].ret = ret /\ call'[p].made = made
             /\ call'[p].op = call[p].op /\ call'[p].obj = call[p].obj
             /\ call'[p].mode = call[p].mode /\ call'[p].oldmode = call[p].oldmode
  <2>1. call[p] \in ModeCalls
    BY <1>1 DEF IInv, TypeOK, Idle, OwnCalls, ModeOps, OwnOps
  <2>2. call'[p] = [call[p] EXCEPT !.pc = "record", !.ret = ret, !.made = made]
    BY <1>1 DEF Return, IInv, TypeOK
  <2> QED BY <2>1, <2>2 DEF ModeCalls
<1>2. ASSUME call'[p].pc = "record", call'[p].ret # 0 \/ call'[p].op \notin {"chmod", "fchmod", "creat", "mkdir"}
      PROVE  Asked(p)' /\ Given(p)' /\ Made(p)'
  BY <1>2 DEF Asked, Given, Made
<1>3. CASE NextFails(p)
  <2>1. call'[p].pc = "record" /\ call'[p].ret = -1
    BY <1>1, <1>3 DEF NextFails
  <2> QED BY <1>2, <2>1
<1>4. CASE NextOrphan(p)
  <2>1. call'[p].pc = "record" /\ call'[p].op = "orphan"
    BY <1>1, <1>4 DEF NextOrphan, ModeOps
  <2> QED BY <1>2, <2>1
<1>5. CASE NextOpen(p) \/ NextTmpfile(p)
  <2>1. /\ call'[p].pc = "record" /\ call'[p].op \in {"open", "tmpfile", "creat"}
        /\ call'[p].made = FALSE
    BY <1>1, <1>5 DEF NextOpen, NextTmpfile, ModeOps
  <2> QED BY <2>1 DEF Asked, Given, Made
<1>6. CASE NextChmod(p)
  <2> DEFINE o == call[p].obj
             f == file[o]
             g == [f EXCEPT !.st_mode = Type(f) \cup (call[p].mode \ S_IFMT)]
  <2>1. /\ call'[p].pc = "record" /\ call'[p].op \in {"chmod", "fchmod", "lchmod"}
        /\ call'[p].obj = o /\ call'[p].mode = call[p].mode /\ call[p] \in ModeCalls
    BY <1>1, <1>6 DEF NextChmod, ModeOps
  <2>2. o \in Objs /\ f \in Inodes /\ call[p].mode \in SUBSET ModeBits
    BY <1>6, <2>1 DEF IInv, TypeOK, NextChmod, Exists, ModeCalls
  <2>3. file' = IF Mine(f) THEN [file EXCEPT ![o] = g] ELSE file
    BY <1>6 DEF NextChmod
  <2>4. g.st_mode = Type(f) \cup (call[p].mode \ S_IFMT)
    BY <2>2 DEF Inodes
  <2>5. Type(g) = Type(f)
    <3>1. g.st_mode \cap S_IFMT = Type(f)
      BY <2>2, <2>4 DEF Type, S_IFMT, Inodes
    <3> HIDE DEF f, g
    <3> QED BY <3>1 DEF Type
  <2>6. file'[o] = IF Mine(f) THEN g ELSE f
    BY <2>2, <2>3 DEF IInv, TypeOK
  <2> HIDE DEF f, g, o
  <2>7. Given(p)'
    <3>1. Mine(f) => file'[o] = g
      BY <2>6
    <3>2. ~Mine(f) => ~Mine(file'[o])
      BY <2>6
    <3>3. Mine(file'[o]) => file'[o].st_mode = Type(file'[o]) \cup (call[p].mode \ S_IFMT)
      BY <3>1, <3>2, <2>4, <2>5
    <3> QED BY <2>1, <3>3 DEF Given
  <2> QED BY <2>1, <2>7 DEF Asked, Made
<1>7. ASSUME NEW op \in {"creat", "mkdir", "mkfifo"}, NEW type \in {S_IFREG, S_IFDIR, S_IFIFO},
             NextCreates(p, op, type), op # "mkfifo" => type \in {S_IFREG, S_IFDIR}
      PROVE  Asked(p)' /\ Given(p)' /\ Made(p)'
  <2> DEFINE o == call[p].obj
             mode == (call[p].mode \ S_IFMT) \ kmask[p]
             f == NewInode(type, mode)
  <2>1. /\ call'[p].pc = "record" /\ call'[p].op = op /\ call'[p].obj = o
        /\ call'[p].mode = call[p].mode /\ call'[p].oldmode = call[p].oldmode
        /\ call[p] \in ModeCalls /\ call[p].pc = "sys" /\ call[p].op = op
    BY <1>1, <1>7 DEF NextCreates, ModeOps
  <2>2. o \in Objs
    BY <2>1 DEF ModeCalls
  <2>3. file'[o] = f /\ kmask' = kmask /\ ~Exists(o)
    BY <1>7, <2>2 DEF NextCreates, IInv, TypeOK
  <2>4. call[p].mode = __warn_if_insuffisant_user_mode(o, call[p].oldmode)
    BY <2>1 DEF Asked, GivingOps
  <2>5. call[p].mode = __warn_and_set_user_mode(call[p].oldmode, {S_IRUSR, S_IWUSR})
    BY <2>3, <2>4 DEF __warn_if_insuffisant_user_mode, __is_directory
  <2>6. f.uid = UserId /\ f.xmode = NoMode /\ f.st_mode = type \cup mode
    BY DEF NewInode
  <2>7. f \in Inodes
    <3>1. f.st_mode \in SUBSET ModeBits
      <4>1. call[p].mode \in SUBSET ModeBits
        BY <2>1 DEF ModeCalls
      <4>2. type \in SUBSET ModeBits
        BY DEF S_IFREG, S_IFDIR, S_IFIFO, ModeBits
      <4> QED BY <2>6, <4>1, <4>2
    <3>2. NoOwner \in Owners
      BY IdsAssumption DEF NoOwner, Owners
    <3> QED BY <2>6, <3>1, <3>2, UserAssumption DEF NewInode, Inodes
  <2>8. f # Absent /\ Mine(f)
    BY <2>6, <2>7, AbsentAssumption DEF Mine
  <2> HIDE DEF f
  <2>9. Made(p)'
    <3>1. op \in {"creat", "mkdir"} => type \in {S_IFREG, S_IFDIR}
      BY <1>7
    <3>2. file'[call'[p].obj] = f
      BY <2>1, <2>3
    <3>3. op \in {"creat", "mkdir"} => \E ty \in {S_IFREG, S_IFDIR} :
              f.st_mode = ty \cup ((call'[p].mode \ S_IFMT) \ kmask'[p])
      BY <2>1, <2>3, <2>6, <3>1
    <3> QED BY <2>1, <2>5, <2>6, <2>8, <3>2, <3>3 DEF Made
  <2> QED BY <2>1, <2>9 DEF Asked, Given
<1>8. CASE NextCreat(p) \/ NextMkdir(p) \/ NextMkfifo(p)
  BY <1>7, <1>8 DEF NextCreat, NextMkdir, NextMkfifo
<1>9. CASE NextChown(p) \/ NextChownFails(p)
  <2>1. call[p] \in OwnCalls
    BY <1>9 DEF IInv, TypeOK, NextChown, NextChownFails, Idle, ModeCalls, ModeOps, OwnOps
  <2>2. call'[p].pc = "record" /\ call'[p].op \in OwnOps
    <3> DEFINE c == [call[p] EXCEPT !.pc = "record", !.ret = 0]
               d == [call[p] EXCEPT !.pc = "record"]
    <3>1. c.pc = "record" /\ c.op \in OwnOps /\ d.pc = "record" /\ d.op \in OwnOps
      BY <2>1 DEF OwnCalls
    <3>2. call'[p] = c \/ call'[p] = d
      BY <1>9 DEF NextChown, NextChownFails, IInv, TypeOK
    <3> HIDE DEF c, d
    <3> QED BY <3>1, <3>2
  <2> QED BY <1>2, <2>2 DEF OwnOps
<1> QED BY <1>3, <1>4, <1>5, <1>6, <1>8, <1>9 DEF Kernel

LEMMA AloneStep == IInv /\ AloneInv /\ [Next]_vars => AloneInv'
<1> SUFFICES ASSUME IInv, AloneInv, [Next]_vars, Alone', NEW p \in Procs
             PROVE  Asked(p)' /\ Given(p)' /\ Made(p)'
  BY MaskedStep DEF AloneInv
<1>2. Procs = {p} /\ MaskedOK /\ Asked(p) /\ Given(p) /\ Made(p)
  BY AloneIs DEF AloneInv, Alone
<1>3. CASE UNCHANGED vars
  BY <1>2, <1>3 DEF vars, Asked, Given, Made, Mine, __warn_if_insuffisant_user_mode,
                    __is_directory, Exists
<1>4. CASE Wrapper(p)
  BY <1>2, <1>4, AloneWrapper
<1>5. CASE \E mask \in Masks, recorded \in BOOLEAN : umask(p, mask, recorded)
  <2>1. call'[p] = Idle
    BY <1>5 DEF umask
  <2> QED BY <2>1 DEF Asked, Given, Made, Idle
<1>6. CASE Kernel(p)
  BY <1>2, <1>6, AloneKernel
<1>7. CASE RecordMode(p) \/ RecordOwner(p)
  <2>1. call'[p] = Idle
    BY <1>7 DEF RecordMode, RecordOwner, Record, IInv, TypeOK
  <2> QED BY <2>1 DEF Asked, Given, Made, Idle
<1> QED BY <1>2, <1>3, <1>4, <1>5, <1>6, <1>7 DEF Next

LEMMA InitAlone == Init => AloneInv
  BY DEF Init, AloneInv, MaskedOK, PermBits, Asked, Given, Made, Idle

(***************************************************************************)
(* A mode the user keeps access with needs no adjustment, and the kernel   *)
(* lets him read and write the attributes of a file that has such a mode.  *)
(***************************************************************************)
LEMMA Unadjusted ==
    ASSUME NEW mode, KeepsAccess(mode)
    PROVE  __warn_and_set_user_mode(mode, {S_IRUSR, S_IWUSR}) = mode
  BY DEF KeepsAccess, __warn_and_set_user_mode

LEMMA Recordable ==
    ASSUME NEW f, Mine(f), XattrSupported(f), KeepsAccess(f.st_mode)
    PROVE  XattrWritable(f) /\ XattrReadable(f)
  BY DEF KeepsAccess, XattrWritable, XattrReadable

(***************************************************************************)
(* What stat() shows of a file whose mode was recorded is what was asked   *)
(* for, be it the inode's own mode or not.                                 *)
(***************************************************************************)
LEMMA RecordedIsSeen ==
    ASSUME NEW f \in Inodes, NEW oldmode \in SUBSET ModeBits, NEW mode \in SUBSET ModeBits,
           Mine(f), XattrSupported(f), KeepsAccess(f.st_mode),
           f.st_mode = Type(f) \cup (mode \ S_IFMT)
    PROVE  fstatat(__set_mode(f, oldmode, mode)).st_mode \ S_IFMT = oldmode \ S_IFMT
<1> DEFINE x == IF oldmode = mode THEN NoMode ELSE oldmode
           g == [f EXCEPT !.xmode = x]
<1>1. __set_mode(f, oldmode, mode) = g
  BY Recordable DEF __set_mode
<1>2. g.st_mode = f.st_mode /\ g.uid = f.uid /\ g.xmode = x
  BY DEF Inodes
<1> HIDE DEF g, x
<1>3. Type(g) = Type(f) /\ Mine(g) /\ XattrSupported(g)
  BY <1>2 DEF Type, Mine, XattrSupported
<1>4. __get_mode(g) = x
  BY <1>2, <1>3, Recordable DEF __get_mode
<1>5. fstatat(g).st_mode = IF x # NoMode THEN Type(g) \cup x ELSE g.st_mode
  BY <1>4 DEF fstatat, __st_mode
<1>6. Type(f) \subseteq S_IFMT
  BY DEF Type
<1>7. CASE oldmode = mode
  <2>1. x = NoMode
    BY <1>7 DEF x
  <2>2. fstatat(g).st_mode = Type(f) \cup (oldmode \ S_IFMT)
    BY <1>2, <1>5, <1>7, <2>1
  <2> HIDE DEF S_IFMT
  <2> QED BY <1>1, <1>6, <2>2
<1>8. CASE oldmode # mode
  <2>1. x = oldmode /\ x # NoMode
    BY <1>8, NullAssumption DEF x
  <2>2. fstatat(g).st_mode = Type(f) \cup oldmode
    BY <1>3, <1>5, <2>1
  <2> HIDE DEF S_IFMT
  <2> QED BY <1>1, <1>6, <2>2
<1> QED BY <1>7, <1>8

\* The record of a call that has returned.
LEMMA ReturnIs ==
    ASSUME IInv, [Next]_vars, NEW p \in Procs, Procs = {p}, NEW op \in ModeOps, Returned(p, op)
    PROVE  /\ call[p] \in ModeCalls
           /\ file[call[p].obj] # Absent =>
                file'[call[p].obj] = __set_mode(file[call[p].obj], call[p].oldmode, call[p].mode)
<1>1. call[p] \in ModeCalls /\ call[p].pc = "record" /\ call[p] # Idle /\ call'[p] # call[p]
  BY DEF Returned, IInv, TypeOK, Idle, OwnCalls, ModeOps, OwnOps
<1>2. ~Wrapper(p)
  BY <1>1 DEF Wrapper, chmod, fchmodat, fchmod, lchmod, open, openat, creat, mkdirat,
              mkfifoat, mknodat, chown, fchownat, lchown, fchown, unlinkat, Enter
<1>3. \A mask \in Masks, recorded \in BOOLEAN : ~umask(p, mask, recorded)
  BY <1>1 DEF umask
<1>4. ~Kernel(p)
  BY <1>1 DEF Kernel, NextFails, NextChmod, NextOrphan, NextOpen, NextTmpfile, NextCreat, NextMkdir,
              NextMkfifo, NextCreates, NextChown, NextChownFails, Calling
<1>5. ~RecordOwner(p)
  BY DEF RecordOwner, Returned, ModeOps, OwnOps
<1>6. RecordMode(p)
  BY <1>1, <1>2, <1>3, <1>4, <1>5 DEF Next, vars
<1>7. call[p].obj \in Objs
  BY <1>1 DEF ModeCalls
<1> QED BY <1>1, <1>6, <1>7 DEF RecordMode, Record, IInv, TypeOK

\* The step of ChmodIsSeen.
LEMMA ChmodSeen ==
    ASSUME IInv, AloneInv, [Next]_vars, NEW p \in Procs, Alone,
           Returned(p, "chmod") \/ Returned(p, "fchmod"),
           file[call[p].obj] # Absent, Mine(file[call[p].obj]),
           XattrSupported(file[call[p].obj])
    PROVE  fstatat(file'[call[p].obj]).st_mode \ S_IFMT = call[p].oldmode \ S_IFMT
<1> DEFINE o == call[p].obj
           f == file[o]
           oldmode == call[p].oldmode
           mode    == call[p].mode
<1>1. Procs = {p}
  BY AloneIs
<1>2. call[p] \in ModeCalls /\ file'[o] = __set_mode(f, oldmode, mode)
  BY <1>1, ReturnIs DEF ModeOps
<1>3. o \in Objs /\ oldmode \in SUBSET ModeBits /\ mode \in SUBSET ModeBits
  BY <1>2 DEF ModeCalls
<1>4. f \in Inodes /\ KeepsAccess(f.st_mode)
  BY <1>3 DEF IInv, TypeOK, FilesOK, Exists
<1>5. f.st_mode = Type(f) \cup (mode \ S_IFMT)
  BY DEF AloneInv, Given, Returned
<1>6. Mine(f) /\ XattrSupported(f)
  OBVIOUS
<1> HIDE DEF f, mode, oldmode, S_IFMT
<1>7. fstatat(__set_mode(f, oldmode, mode)).st_mode \ S_IFMT = oldmode \ S_IFMT
  BY <1>3, <1>4, <1>5, <1>6, RecordedIsSeen
<1> QED BY <1>2, <1>7 DEF oldmode

\* The step of CreatedLessTheMask.
LEMMA CreatedSeen ==
    ASSUME IInv, AloneInv, [Next]_vars, NEW p \in Procs, Alone,
           Returned(p, "creat") \/ Returned(p, "mkdir"), call[p].made
    PROVE  LET asked == call[p].oldmode
               masked == (given[p] \cap PermBits) \ {S_IRUSR, S_IWUSR}
               control == /\ {S_IRUSR, S_IWUSR} \subseteq asked
                          /\ asked \cap {S_ISUID, S_ISGID} = {}
           IN  fstatat(file'[call[p].obj]).st_mode \ S_IFMT
                 = (asked \ S_IFMT) \ (IF control THEN masked ELSE {})
<1> DEFINE o == call[p].obj
           f == file[o]
           oldmode == call[p].oldmode
           mode == call[p].mode
           mask == (given[p] \cap PermBits) \ {S_IRUSR, S_IWUSR}
           seen == fstatat(__set_mode(f, oldmode, mode)).st_mode \ S_IFMT
<1>1. Procs = {p}
  BY AloneIs
<1>2. Made(p) /\ kmask[p] = mask
  BY DEF AloneInv, MaskedOK
<1>3. /\ f # Absent /\ Mine(f) /\ f.xmode = NoMode
      /\ mode = __warn_and_set_user_mode(oldmode, {S_IRUSR, S_IWUSR})
  BY <1>2 DEF Made, Returned
<1>4. PICK type \in {S_IFREG, S_IFDIR} : f.st_mode = type \cup ((mode \ S_IFMT) \ mask)
  BY <1>2 DEF Made, Returned
<1>5. call[p] \in ModeCalls /\ file'[o] = __set_mode(f, oldmode, mode)
  BY <1>1, <1>3, ReturnIs DEF ModeOps
<1>6. o \in Objs /\ f \in Inodes /\ oldmode \in SUBSET ModeBits
  BY <1>3, <1>5 DEF IInv, TypeOK, Exists, ModeCalls
<1>7. KeepsAccess(f.st_mode)
  BY <1>3, <1>6 DEF IInv, FilesOK, Exists
<1>8. type \subseteq S_IFMT /\ Type(f) = type /\ XattrSupported(f)
  <2>1. type \subseteq S_IFMT
    BY DEF S_IFREG, S_IFDIR, S_IFMT
  <2>2. Type(f) = type
    BY <1>4, <2>1 DEF Type
  <2> QED BY <2>1, <2>2 DEF XattrSupported
<1> HIDE DEF f, oldmode, mode, mask
<1>9. ASSUME KeepsAccess(oldmode) PROVE seen = (oldmode \ S_IFMT) \ mask
  <2>1. mode = oldmode
    BY <1>3, <1>9, Unadjusted
  <2>2. f.st_mode \ S_IFMT = (oldmode \ S_IFMT) \ mask
    <3> HIDE DEF S_IFMT
    <3> QED BY <1>4, <1>8, <2>1
  <2>3. \/ __set_mode(f, oldmode, mode) = f
        \/ __set_mode(f, oldmode, mode) = [f EXCEPT !.xmode = NoMode]
    BY <2>1 DEF __set_mode
  <2>4. [f EXCEPT !.xmode = NoMode] = f
    BY <1>3, <1>6 DEF Inodes
  <2>5. fstatat(f).st_mode = f.st_mode
    BY <1>3 DEF fstatat, __st_mode, __get_mode
  <2> QED BY <2>2, <2>3, <2>4, <2>5
<1>10. ASSUME ~KeepsAccess(oldmode) PROVE seen = oldmode \ S_IFMT
  <2> DEFINE g == [f EXCEPT !.xmode = oldmode]
  <2>1. mode # oldmode
    <3>1. KeepsAccess(mode)
      BY <1>3 DEF KeepsAccess, __warn_and_set_user_mode
    <3> QED BY <1>10, <3>1
  <2>2. __set_mode(f, oldmode, mode) = g
    BY <1>3, <1>7, <1>8, <2>1, Recordable DEF __set_mode
  <2>3. g.st_mode = f.st_mode /\ g.uid = f.uid /\ g.xmode = oldmode
    BY <1>6 DEF Inodes
  <2> HIDE DEF g
  <2>4. Type(g) = type /\ Mine(g) /\ XattrSupported(g) /\ KeepsAccess(g.st_mode)
    BY <1>3, <1>7, <1>8, <2>3 DEF Type, Mine, XattrSupported
  <2>5. __get_mode(g) = oldmode
    BY <2>3, <2>4, Recordable DEF __get_mode
  <2>6. fstatat(g).st_mode = type \cup oldmode
    <3>1. oldmode # NoMode
      BY <1>6, NullAssumption
    <3> QED BY <2>4, <2>5, <3>1 DEF fstatat, __st_mode
  <2>7. seen = oldmode \ S_IFMT
    <3> HIDE DEF S_IFMT
    <3> QED BY <1>8, <2>2, <2>6
  <2> QED BY <2>7
<1>11. KeepsAccess(oldmode) <=>
         {S_IRUSR, S_IWUSR} \subseteq oldmode /\ oldmode \cap {S_ISUID, S_ISGID} = {}
  BY DEF KeepsAccess
<1>12. seen = (oldmode \ S_IFMT) \ (IF KeepsAccess(oldmode) THEN mask ELSE {})
  <2> HIDE DEF seen, S_IFMT
  <2> QED BY <1>9, <1>10
<1> QED BY <1>5, <1>11, <1>12 DEF oldmode, f, mask

(***************************************************************************)
(* Whatever the modes, the masks and what other users left there, chmod()  *)
(* and fchmod() of a process that runs alone give a file the mode that     *)
(* stat() shows: the attribute of one call is gone after the next.         *)
(***************************************************************************)
THEOREM ChmodSeenByStat == Spec => ChmodIsSeen
<1>1. IInv /\ AloneInv /\ [Next]_vars =>
        [\A p \in Procs :
           Alone /\ (Returned(p, "chmod") \/ Returned(p, "fchmod")) =>
             LET f == file[call[p].obj]
             IN  f # Absent /\ Mine(f) /\ XattrSupported(f) =>
                   fstatat(file'[call[p].obj]).st_mode \ S_IFMT = call[p].oldmode \ S_IFMT]_vars
  BY ChmodSeen
<1> QED BY <1>1, InitIInv, NextIInv, InitAlone, AloneStep, PTL DEF Spec, ChmodIsSeen

(***************************************************************************)
(* Whatever masks a process that runs alone gives to umask(), four digits, *)
(* the user's own permissions and masks that were not recorded included, a *)
(* new file is seen with the mode it was made with less the last of them,  *)
(* but for the user's own read and write permissions; and with all of the  *)
(* mode it was made with when that mode was adjusted.                      *)
(***************************************************************************)
THEOREM NewFilesLessTheMask == Spec => CreatedLessTheMask
<1>1. IInv /\ AloneInv /\ [Next]_vars =>
        [\A p \in Procs :
           Alone /\ (Returned(p, "creat") \/ Returned(p, "mkdir")) /\ call[p].made =>
             LET asked == call[p].oldmode
                 masked == (given[p] \cap PermBits) \ {S_IRUSR, S_IWUSR}
                 control == /\ {S_IRUSR, S_IWUSR} \subseteq asked
                            /\ asked \cap {S_ISUID, S_ISGID} = {}
             IN  fstatat(file'[call[p].obj]).st_mode \ S_IFMT
                   = (asked \ S_IFMT) \ (IF control THEN masked ELSE {})]_vars
  BY CreatedSeen
<1> QED BY <1>1, InitIInv, NextIInv, InitAlone, AloneStep, PTL DEF Spec, CreatedLessTheMask
=============================================================================
