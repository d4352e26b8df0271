----------------------------- MODULE Jail_proofs -----------------------------
(***************************************************************************)
(* Theorems about Jail and Wrappers, for every tree of files, every path   *)
(* and content of a link, every number of descriptors and whatever the     *)
(* regex ignores.                                                          *)
(***************************************************************************)
EXTENDS Wrappers, PathResolution_proofs

(***************************************************************************)
(* What the properties and the calls take for a location is one.           *)
(***************************************************************************)
LEMMA DirsAre ==
    ASSUME TypeOK
    PROVE  /\ cwd \in Seq(FileNames) /\ IsTree(fs) /\ root \in Pathnames
           /\ \A dir \in Dirs : dir \in Roots /\ (dir # NoDir => Location(dir) \in Seq(FileNames))
<1>1. \A loc : IsDir(fs, loc) => loc \in Seq(FileNames)
  BY DEF TypeOK, IsTree, IsDir, Exists
<1>2. ASSUME NEW fd \in Open
      PROVE  fpath(fd) \in Pathnames /\ Location(fpath(fd)) \in Seq(FileNames)
  <2>1. fds[fd] \in Seq(FileNames)
    BY <1>1 DEF TypeOK
  <2> QED BY <2>1, HostPathIs DEF fpath
<1>3. ASSUME NEW dir \in Dirs
      PROVE  dir \in Roots /\ (dir # NoDir => Location(dir) \in Seq(FileNames))
  BY <1>2 DEF Dirs, NoDir, Roots
<1> QED BY <1>1, <1>3 DEF TypeOK

LEMMA ResolvedIs ==
    ASSUME TypeOK, NEW dir \in Dirs, NEW path \in Args, NEW follow
    PROVE  Resolve(dir, path, follow) \in Pathnames
<1>1. path \in Pathnames
  BY InitAssumption
<1> QED BY <1>1, DirsAre, ResolutionIs DEF Resolve, path_resolution

\* The kernel comes to an end, at a name that exists or in a directory that does.
LEMMA HostLookupIs ==
    ASSUME TypeOK, NEW dir \in Dirs, NEW path \in Pathnames, NEW follow
    PROVE  LET l == HostLookup(dir, path, follow)
           IN  l \in Final /\ l.at \in Seq(FileNames)
               /\ (Ended(l) => Exists(fs, l.at) \/ IsDir(fs, Parent(l.at)))
<1> DEFINE base == IF dir = NoDir THEN cwd ELSE Location(dir)
           l == HostLookup(dir, path, follow)
<1>1. base \in Seq(FileNames) /\ IsTree(fs)
  BY DirsAre
<1>2. l = Lookup(fs, <<>>, base, path, follow)
  BY DEF HostLookup
<1>3. <<>> \in Seq(FileNames) /\ path \in Seq(Parts) /\ path # <<>>
  BY PathnamesAre
<1> HIDE DEF base
<1>4. Lookup(fs, <<>>, base, path, follow) \in Final
  BY <1>1, <1>3, LookupTyped
<1>5. Placed(fs, Lookup(fs, <<>>, base, path, follow))
  BY <1>1, <1>3, LookupPlaced
<1> HIDE DEF l
<1>6. l \in Final /\ Placed(fs, l)
  BY <1>2, <1>4, <1>5
<1>7. l.at \in Seq(FileNames) /\ (Ended(l) => Exists(fs, l.at) \/ IsDir(fs, Parent(l.at)))
  BY <1>6, FinalIs DEF Placed, Ended
<1> QED BY <1>6, <1>7 DEF l

-----------------------------------------------------------------------------
(***************************************************************************)
(* The tree is one after each step, and the directories in use are in it:  *)
(* no call removes a directory, and each makes its file in one.            *)
(***************************************************************************)
LEMMA InitTypes == Init => TypeOK
<1> SUFFICES ASSUME Init PROVE TypeOK
  OBVIOUS
<1>1. root \in Pathnames
  BY PathnamesAre DEF Init
<1>2. DOMAIN fds = Fds /\ Open = {}
  BY DEF Init, Open
<1> QED BY <1>1, <1>2, InitAssumption DEF Init, TypeOK

LEMMA CreateTypes ==
    ASSUME TypeOK, NEW l, NEW inode \in Inodes, Create(l, inode),
           l.at \in Seq(FileNames), Exists(fs, l.at) \/ IsDir(fs, Parent(l.at))
    PROVE  TypeOK'
<1>1. /\ ~Exists(fs, l.at) /\ IsDir(fs, Parent(l.at))
      /\ fs' = [loc \in DOMAIN fs \cup {l.at} |-> IF loc = l.at THEN inode ELSE fs[loc]]
      /\ cwd' = cwd /\ root' = root /\ fds' = fds
  BY DEF Create
<1>2. \A loc : IsDir(fs, loc) => IsDir(fs', loc)
  BY <1>1 DEF IsDir, Exists
<1>3. IsTree(fs')
  <2>1. DOMAIN fs' = DOMAIN fs \cup {l.at}
    BY <1>1
  <2>2. DOMAIN fs' \subseteq Seq(FileNames)
    BY <2>1 DEF TypeOK, IsTree
  <2>3. ASSUME NEW loc \in DOMAIN fs' PROVE fs'[loc] \in Inodes /\ IsDir(fs', Parent(loc))
    <3>1. CASE loc = l.at
      BY <1>1, <1>2, <3>1
    <3>2. CASE loc # l.at
      <4>1. loc \in DOMAIN fs /\ fs'[loc] = fs[loc]
        BY <1>1, <3>2
      <4> QED BY <1>2, <4>1 DEF TypeOK, IsTree
    <3> QED BY <3>1, <3>2
  <2> QED BY <2>2, <2>3 DEF IsTree
<1> QED BY <1>1, <1>2, <1>3 DEF TypeOK, Open

LEMMA ChrootdirTypes == \A new : TypeOK /\ __chrootdir(new) => root' \in Pathnames
  BY PathnamesAre DEF TypeOK, __chrootdir

LEMMA NextTypes == TypeOK /\ [Next]_vars => TypeOK'
<1> SUFFICES ASSUME TypeOK, [Next]_vars PROVE TypeOK'
  OBVIOUS
<1>1. ASSUME NEW path \in Args, chroot(path)
      PROVE  TypeOK'
  <2>1. NoDir \in Dirs
    BY DEF Dirs
  <2>2. root' \in Pathnames
    BY <1>1, <2>1, ResolvedIs DEF chroot
  <2> QED BY <1>1, <2>2 DEF chroot, TypeOK, Open
<1>2. ASSUME NEW path \in Args, chdir(path)
      PROVE  TypeOK'
  <2> PICK l : IsDir(fs, l.at) /\ cwd' = l.at /\ __chrootdir(l.at) /\ fs' = fs /\ fds' = fds
    BY <1>2 DEF chdir
  <2> QED BY ChrootdirTypes DEF TypeOK, Open
<1>3. ASSUME NEW fd \in Fds, fchdir(fd)
      PROVE  TypeOK'
  <2>1. fd \in Open /\ cwd' = fds[fd] /\ __chrootdir(fds[fd]) /\ fs' = fs /\ fds' = fds
    BY <1>3 DEF fchdir
  <2> QED BY <2>1, ChrootdirTypes DEF TypeOK, Open
<1>4. ASSUME NEW fd \in Fds, close(fd)
      PROVE  TypeOK'
  BY <1>4 DEF close, TypeOK, Open
<1>5. ASSUME NEW dir \in Dirs, NEW path \in Args, NEW fd \in Fds, openat(dir, path, fd)
      PROVE  TypeOK'
  <2> PICK l : /\ IsDir(fs, l.at)
               /\ fds' = [fds EXCEPT ![fd] = l.at]
               /\ fs' = fs /\ cwd' = cwd /\ root' = root
    BY <1>5 DEF openat
  <2> QED BY DEF TypeOK, Open
<1>6. ASSUME NEW dir \in Dirs, NEW path \in Args, mkdirat(dir, path)
      PROVE  TypeOK'
  <2> DEFINE l == HostLookup(dir, Resolve(dir, path, TRUE), FALSE)
  <2>1. l.at \in Seq(FileNames) /\ (Ended(l) => Exists(fs, l.at) \/ IsDir(fs, Parent(l.at)))
    BY ResolvedIs, HostLookupIs
  <2>2. Create(l, Directory)
    BY <1>6 DEF mkdirat
  <2> HIDE DEF l
  <2>3. Ended(l)
    BY <2>2 DEF Create
  <2>4. Directory \in Inodes
    BY DEF Directory, Inodes
  <2> QED BY <2>1, <2>2, <2>3, <2>4, CreateTypes
<1>7. ASSUME NEW dir \in Dirs, NEW path \in Args, NEW target \in Targets,
             symlinkat(target, dir, path)
      PROVE  TypeOK'
  <2> DEFINE l == HostLookup(dir, Resolve(dir, path, FALSE), FALSE)
  <2>1. l.at \in Seq(FileNames) /\ (Ended(l) => Exists(fs, l.at) \/ IsDir(fs, Parent(l.at)))
    BY ResolvedIs, HostLookupIs
  <2>2. Create(l, Link(target))
    BY <1>7 DEF symlinkat
  <2> HIDE DEF l
  <2>3. Ended(l)
    BY <2>2 DEF Create
  <2>4. Link(target) \in Inodes
    BY InitAssumption DEF Link, Inodes
  <2> QED BY <2>1, <2>2, <2>3, <2>4, CreateTypes
<1>8. ASSUME NEW dir \in Dirs, NEW path \in Args, unlinkat(dir, path)
      PROVE  TypeOK'
  <2> PICK l : /\ ~IsDir(fs, l.at)
               /\ fs' = [loc \in DOMAIN fs \ {l.at} |-> fs[loc]]
               /\ fds' = fds /\ cwd' = cwd /\ root' = root
    BY <1>8 DEF unlinkat
  <2>1. \A loc : IsDir(fs, loc) => IsDir(fs', loc)
    BY DEF IsDir, Exists
  <2>2. IsTree(fs')
    <3>1. \A loc \in DOMAIN fs' : loc \in DOMAIN fs /\ fs'[loc] = fs[loc]
      OBVIOUS
    <3> QED BY <2>1, <3>1 DEF TypeOK, IsTree
  <2> QED BY <2>1, <2>2 DEF TypeOK, Open
<1>9. CASE UNCHANGED vars
  BY <1>9 DEF vars, TypeOK, Open
<1> QED
  BY <1>1, <1>2, <1>3, <1>4, <1>5, <1>6, <1>7, <1>8, <1>9 DEF Next

(***************************************************************************)
(* Whatever the program gives to the wrappers, the working directory and   *)
(* the directories of the descriptors go on being directories, what is in  *)
(* the tree is in a directory of it, and IAMROOT_ROOT is a path that is    *)
(* not empty: path_resolution() never leaves "" in it.                     *)
(***************************************************************************)
THEOREM JailTyping == Spec => []TypeOK
<1>1. Init => TypeOK
  BY InitTypes
<1>2. TypeOK /\ [Next]_vars => TypeOK'
  BY NextTypes
<1> QED
  BY <1>1, <1>2, PTL DEF Spec

-----------------------------------------------------------------------------
\* The step of RootLeftOnlyOutside.
RootLeft == cwd' # cwd /\ Proper /\ InJail(root) /\ ~InJail(root') => ~Below(cwd', JailLoc)

(***************************************************************************)
(* __chrootdir() of iamroot.c, given a directory in the jail, keeps the    *)
(* root: its path begins with it.                                          *)
(***************************************************************************)
LEMMA ChrootdirKeepsRoot ==
    ASSUME TypeOK, NEW new \in Seq(FileNames), __chrootdir(new),
           Proper, InJail(root), Below(new, JailLoc)
    PROVE  root' = root
<1>1. JailLoc \in Seq(FileNames) /\ HostPath(JailLoc) = root
  BY DEF Proper, IsDir, Exists, IsTree, TypeOK
<1>2. JailLoc # <<>>
  BY <1>1 DEF HostPath, InJail
<1>3. __strleq(HostPath(new), root)
  BY <1>1, <1>2, BelowBegins
<1> QED
  BY <1>3 DEF __chrootdir

LEMMA NextRootLeft == TypeOK /\ [Next]_vars => RootLeft
<1> SUFFICES ASSUME TypeOK, [Next]_vars, cwd' # cwd,
                    Proper, InJail(root), Below(cwd', JailLoc)
             PROVE  InJail(root')
  BY DEF RootLeft
<1>1. ASSUME NEW path, chdir(path)
      PROVE  InJail(root')
  <2> PICK l : IsDir(fs, l.at) /\ cwd' = l.at /\ __chrootdir(l.at)
    BY <1>1 DEF chdir
  <2>1. l.at \in Seq(FileNames)
    BY DEF IsDir, Exists, IsTree, TypeOK
  <2> QED
    BY <2>1, ChrootdirKeepsRoot DEF InJail
<1>2. ASSUME NEW fd \in Fds, fchdir(fd)
      PROVE  InJail(root')
  <2>1. cwd' = fds[fd] /\ __chrootdir(fds[fd]) /\ fds[fd] \in Seq(FileNames)
    BY <1>2 DEF fchdir, TypeOK, IsDir, Exists, IsTree
  <2> QED
    BY <2>1, ChrootdirKeepsRoot DEF InJail
<1>3. ASSUME NEW path, chroot(path)
      PROVE  FALSE
  BY <1>3 DEF chroot
<1>4. ASSUME NEW fd \in Fds, close(fd)
      PROVE  FALSE
  BY <1>4 DEF close
<1>5. ASSUME NEW dir, NEW path,
             \/ mkdirat(dir, path) \/ unlinkat(dir, path)
             \/ \E fd \in Fds : openat(dir, path, fd)
             \/ \E target \in Targets : symlinkat(target, dir, path)
      PROVE  FALSE
  BY <1>5 DEF mkdirat, unlinkat, openat, symlinkat, Create
<1>6. CASE UNCHANGED vars
  BY <1>6 DEF vars
<1> QED
  BY <1>1, <1>2, <1>3, <1>4, <1>5, <1>6 DEF Next

(***************************************************************************)
(* No chdir() or fchdir() to a directory of the jail drops the root,       *)
(* whatever the tree, the links, the paths and the open descriptors: the   *)
(* prefix __chrootdir() compares never sets a process free.                *)
(***************************************************************************)
THEOREM RootLeftOutside == Spec => RootLeftOnlyOutside
<1>1. Init => TypeOK
  BY InitTypes
<1>2. TypeOK /\ [Next]_vars => TypeOK'
  BY NextTypes
<1>3. TypeOK /\ [Next]_vars => [RootLeft]_vars
  BY NextRootLeft
<1> QED
  BY <1>1, <1>2, <1>3, PTL DEF Spec, RootLeftOnlyOutside, RootLeft

-----------------------------------------------------------------------------
(***************************************************************************)
(* In every state the path of getcwd() is resolved to the path of the      *)
(* working directory, which the kernel looks up: no link is on the way of  *)
(* a location, and what the root was taken off is put back before it.      *)
(***************************************************************************)
THEOREM GetcwdBack == Spec => []GetcwdRoundTrip
<1>1. ASSUME TypeOK PROVE GetcwdRoundTrip
  <2> SUFFICES ASSUME Proper, Below(cwd, JailLoc), NotRedirected(fs, cwd),
                      ~ignore(getcwd), InJail(root) => ~__strleq(getcwd, root)
               PROVE  LET l == HostLookup(NoDir, Resolve(NoDir, getcwd, TRUE), TRUE)
                      IN  Ended(l) /\ l.at = cwd
    BY DEF GetcwdRoundTrip
  <2>1. /\ IsTree(fs) /\ cwd \in DOMAIN fs /\ cwd \in Seq(FileNames) /\ ~IsLink(fs, cwd)
        /\ JailLoc \in Seq(FileNames) /\ root = HostPath(JailLoc)
    BY <1>1 DEF TypeOK, Proper, IsDir, IsLink, Exists, IsTree
  <2>2. Resolve(NoDir, getcwd, TRUE) = HostPath(cwd)
    <3>1. getcwd = __striprootdir(HostPath(JailLoc), HostPath(cwd))
      BY <2>1 DEF getcwd
    <3> DEFINE jail == JailLoc
               name == getcwd
    <3>2. /\ jail \in Seq(FileNames) /\ Below(cwd, jail) /\ ~ignore(name)
          /\ name = __striprootdir(HostPath(jail), HostPath(cwd))
          /\ InJail(HostPath(jail)) => ~__strleq(name, HostPath(jail))
      BY <2>1, <3>1
    <3> HIDE DEF jail, name
    <3>3. \A follow, prflags :
             path_resolution2(fs, cwd, HostPath(jail), NoDir, name, follow, prflags)
                = HostPath(cwd)
      BY <2>1, <3>2, NameLeadsBack
    <3>4. path_resolution2(fs, cwd, root, NoDir, getcwd, TRUE, {}) = HostPath(cwd)
      BY <2>1, <3>3 DEF jail, name
    <3> QED BY <3>4 DEF Resolve, path_resolution
  <2>3. HostLookup(NoDir, HostPath(cwd), TRUE) = Lookup(fs, <<>>, cwd, HostPath(cwd), TRUE)
    BY DEF HostLookup
  <2> DEFINE l == Lookup(fs, <<>>, cwd, HostPath(cwd), TRUE)
  <2>4. Ended(l) /\ l.at = cwd
    <3>1. ASSUME NEW follow
          PROVE  LET m == Lookup(fs, <<>>, cwd, HostPath(cwd), follow)
                 IN  Ended(m) /\ m.at = cwd
      BY <2>1, CanonicalLookup
    <3> QED BY <3>1
  <2> HIDE DEF l
  <2>5. HostLookup(NoDir, Resolve(NoDir, getcwd, TRUE), TRUE) = l
    BY <2>2, <2>3 DEF l
  <2> QED BY <2>4, <2>5
<1> QED BY <1>1, JailTyping, PTL

-----------------------------------------------------------------------------
\* Where a rename moves what is below the directory and what is not.
LEMMA MovedIs ==
    \A loc, from, to \in Seq(FileNames) :
        /\ Moved(loc, from, to) \in Seq(FileNames)
        /\ ~Below(loc, from) => Moved(loc, from, to) = loc
        /\ Below(loc, from) =>
              /\ Moved(loc, from, to) = to \o Rest(loc, Len(from))
              /\ Below(Moved(loc, from, to), to)
        /\ Moved(from, from, to) = to
<1> TAKE loc, from, to \in Seq(FileNames)
<1>1. ASSUME Below(loc, from)
      PROVE  /\ Moved(loc, from, to) = to \o Rest(loc, Len(from))
             /\ Moved(loc, from, to) \in Seq(FileNames) /\ Below(Moved(loc, from, to), to)
  <2>1. Rest(loc, Len(from)) \in Seq(FileNames)
    BY <1>1, BelowIs
  <2>2. Moved(loc, from, to) = to \o Rest(loc, Len(from))
    BY <1>1 DEF Moved, Rest
  <2>3. to \o Rest(loc, Len(from)) \in Seq(FileNames)
    BY <2>1, ConcatProperties
  <2> QED BY <2>1, <2>2, <2>3, BelowIs
<1>2. ~Below(loc, from) => Moved(loc, from, to) = loc
  BY DEF Moved
<1>3. Moved(from, from, to) = to
  <2>1. Below(from, from)
    BY BelowParent
  <2>2. Rest(from, Len(from)) = <<>>
    BY CutEnds
  <2>3. to \o <<>> = to
    BY ConcatEmptySeq
  <2> QED BY <2>1, <2>2, <2>3 DEF Moved, Rest
<1> QED BY <1>1, <1>2, <1>3

LEMMA MovedParent ==
    ASSUME NEW from \in Seq(FileNames), NEW to \in Seq(FileNames), NEW loc \in Seq(FileNames),
           Below(loc, from), loc # from
    PROVE  Moved(Parent(loc), from, to) = Parent(Moved(loc, from, to))
<1> DEFINE tail == Rest(loc, Len(from))
<1>1. tail \in Seq(FileNames) /\ loc = from \o tail
  BY BelowIs
<1>2. tail # <<>>
  BY <1>1, ConcatEmptySeq
<1> HIDE DEF tail
<1>3. Parent(loc) = from \o Parent(tail) /\ Parent(tail) \in Seq(FileNames)
      /\ Parent(to \o tail) = to \o Parent(tail)
  BY <1>1, <1>2, ParentParts
<1>4. Below(Parent(loc), from) /\ Parent(loc) \in Seq(FileNames)
  BY BelowParent, ParentIs
<1>5. Rest(Parent(loc), Len(from)) = Parent(tail)
  <2>1. Parent(loc) = from \o Rest(Parent(loc), Len(from))
        /\ Rest(Parent(loc), Len(from)) \in Seq(FileNames)
    BY <1>4, BelowIs
  <2>2. \A u, v, w \in Seq(FileNames) : u \o v = u \o w => v = w
    BY ConcatSimplifications
  <2> QED BY <1>3, <2>1, <2>2
<1>0. \A x \in Seq(FileNames) :
         Below(x, from) => Moved(x, from, to) = to \o Rest(x, Len(from))
  BY MovedIs
<1>6. Moved(Parent(loc), from, to) = to \o Parent(tail)
  BY <1>0, <1>4, <1>5
<1>7. Moved(loc, from, to) = to \o tail
  BY <1>0 DEF tail
<1> QED BY <1>3, <1>6, <1>7

LEMMA MovedApart ==
    ASSUME NEW from \in Seq(FileNames), NEW to \in Seq(FileNames),
           NEW a \in Seq(FileNames), NEW b \in Seq(FileNames)
    PROVE  ~Below(a, to) /\ ~Below(b, to) /\ Moved(a, from, to) = Moved(b, from, to) => a = b
<1>0. ASSUME NEW x \in Seq(FileNames)
      PROVE  /\ ~Below(x, from) => Moved(x, from, to) = x
             /\ Below(x, from) => Moved(x, from, to) = to \o Rest(x, Len(from))
             /\ Below(x, from) => Below(Moved(x, from, to), to)
  <2>1. ~Below(x, from) => Moved(x, from, to) = x
    BY MovedIs
  <2>2. Below(x, from) => Moved(x, from, to) = to \o Rest(x, Len(from))
    BY MovedIs
  <2>3. Below(x, from) => Below(Moved(x, from, to), to)
    BY MovedIs
  <2> QED BY <2>1, <2>2, <2>3
<1> SUFFICES ASSUME ~Below(a, to), ~Below(b, to), Moved(a, from, to) = Moved(b, from, to)
             PROVE  a = b
  OBVIOUS
<1>1. Below(a, from) <=> Below(b, from)
  BY <1>0
<1>2. CASE Below(a, from)
  <2> DEFINE s == Rest(a, Len(from))
             t == Rest(b, Len(from))
  <2>1. s \in Seq(FileNames) /\ t \in Seq(FileNames) /\ a = from \o s /\ b = from \o t
    BY <1>1, <1>2, BelowIs
  <2>2. to \o s = to \o t
    BY <1>0, <1>1, <1>2
  <2> HIDE DEF s, t
  <2>3. \A u, v, w \in Seq(FileNames) : u \o v = u \o w => v = w
    BY ConcatSimplifications
  <2> QED BY <2>1, <2>2, <2>3
<1>3. CASE ~Below(a, from)
  BY <1>0, <1>1, <1>3
<1> QED BY <1>2, <1>3

-----------------------------------------------------------------------------
(***************************************************************************)
(* The wrappers that rename and remove: the tree stays one.                *)
(***************************************************************************)
\* Nothing is below what does not exist.
LEMMA NothingBelow ==
    ASSUME NEW tree, IsTree(tree), NEW loc \in DOMAIN tree, NEW dir \in Seq(FileNames),
           Below(loc, dir)
    PROVE  Exists(tree, dir)
<1>1. Len(dir) \in 0..Len(loc) /\ Begin(loc, Len(dir)) = dir
  BY DEF Below, Begin, IsTree
<1>2. Exists(tree, Begin(loc, Len(dir)))
  BY <1>1, OnTheWay
<1> QED BY <1>1, <1>2

LEMMA RenameTypes ==
    ASSUME TypeOK, NEW from \in Seq(FileNames), NEW to \in Seq(FileNames), Rename(from, to),
           Exists(fs, from), Exists(fs, to) \/ IsDir(fs, Parent(to))
    PROVE  TypeOK'
<1> DEFINE Tree == DOMAIN fs \ {to}
           To(loc) == Moved(loc, from, to)
           Origin(loc) == CHOOSE old \in Tree : To(old) = loc
<1>1. /\ from # <<>> /\ ~Below(to, from) /\ ~Below(from, to)
      /\ Exists(fs, to) => ~InUse(to) /\ IsEmpty(to)
      /\ fs' = [loc \in {To(old) : old \in Tree} |-> fs[Origin(loc)]]
      /\ cwd' = To(cwd)
      /\ fds' = [fd \in Fds |-> IF fd \in Open THEN To(fds[fd]) ELSE Closed]
      /\ root' = root
  BY DEF Rename
<1>2. /\ IsTree(fs) /\ DOMAIN fs \subseteq Seq(FileNames)
      /\ \A loc \in DOMAIN fs : fs[loc] \in Inodes /\ IsDir(fs, Parent(loc))
  BY DEF TypeOK, IsTree
<1>3. to # <<>> /\ IsDir(fs, Parent(to)) /\ from \in Tree
  <2>1. to # <<>> /\ from # to
    BY <1>1, BelowParent
  <2>2. IsDir(fs, Parent(to))
    BY <1>2 DEF Exists
  <2> QED BY <2>1, <2>2 DEF Exists
<1>4. ASSUME NEW loc \in Tree PROVE loc \in Seq(FileNames) /\ ~Below(loc, to)
  <2>1. loc \in DOMAIN fs /\ loc # to /\ loc \in Seq(FileNames)
    BY <1>2
  <2> SUFFICES ASSUME Below(loc, to) PROVE FALSE
    BY <2>1
  <2>2. Exists(fs, to)
    BY <1>2, <2>1, NothingBelow
  <2>3. loc = to
    BY <1>1, <2>1, <2>2 DEF IsEmpty
  <2> QED BY <2>1, <2>3
<1> HIDE DEF Tree, To
<1>5. ASSUME NEW old \in Tree PROVE To(old) \in DOMAIN fs' /\ fs'[To(old)] = fs[old]
  <2>1. \A other \in Tree : To(other) = To(old) => other = old
    <3> TAKE other \in Tree
    <3> HAVE To(other) = To(old)
    <3> QED BY <1>4, MovedApart DEF To
  <2>2. Origin(To(old)) = old
    BY <2>1
  <2> HIDE DEF Origin
  <2>3. To(old) \in {To(other) : other \in Tree}
    OBVIOUS
  <2> QED BY <1>1, <2>2, <2>3
<1>6. ASSUME NEW loc, IsDir(fs, loc), loc # to PROVE IsDir(fs', To(loc))
  <2>1. loc \in Tree
    BY <1>6 DEF Tree, IsDir, Exists
  <2> QED BY <1>5, <1>6, <2>1 DEF IsDir, Exists
<1>7. ASSUME NEW old \in Tree PROVE IsDir(fs', Parent(To(old)))
  <2>1. old \in DOMAIN fs /\ old \in Seq(FileNames) /\ ~Below(old, to) /\ old # to
    BY <1>4 DEF Tree
  <2>2. Parent(old) \in Seq(FileNames) /\ Parent(to) \in Seq(FileNames) /\ IsDir(fs, Parent(old))
    BY <1>2, <2>1, ParentIs
  <2>3. CASE old = from
    <3>1. Parent(to) # to /\ ~Below(Parent(to), from)
      BY <1>1, <1>3, BelowParent, ParentParts
    <3>2. To(Parent(to)) = Parent(to)
      BY <2>2, <3>1, MovedIs DEF To
    <3>3. To(old) = to
      BY <2>3, MovedIs DEF To
    <3> QED BY <1>3, <1>6, <3>1, <3>2, <3>3
  <2>4. CASE old # from /\ Below(old, from)
    <3>1. Parent(old) # to
      <4>1. Below(Parent(old), from)
        BY <2>1, <2>4, BelowParent
      <4> QED BY <1>1, <4>1
    <3>2. To(Parent(old)) = Parent(To(old))
      BY <2>1, <2>4, MovedParent DEF To
    <3> QED BY <1>6, <2>2, <3>1, <3>2
  <2>5. CASE ~Below(old, from)
    <3>1. ~Below(Parent(old), from)
      BY <2>1, <2>5, BelowParent
    <3>2. Parent(old) # to
      <4>1. CASE old = <<>>
        BY <1>3, <4>1 DEF Parent
      <4>2. CASE old # <<>>
        BY <2>1, <4>2, BelowParent
      <4> QED BY <4>1, <4>2
    <3>3. To(Parent(old)) = Parent(old) /\ To(old) = old
      BY <2>1, <2>2, <2>5, <3>1, MovedIs DEF To
    <3> QED BY <1>6, <2>2, <3>2, <3>3
  <2> QED BY <2>3, <2>4, <2>5
<1>8. IsTree(fs')
  <2>1. DOMAIN fs' = {To(old) : old \in Tree}
    <3> HIDE DEF Origin
    <3> QED BY <1>1
  <2>2. ASSUME NEW loc \in DOMAIN fs'
        PROVE  loc \in Seq(FileNames) /\ fs'[loc] \in Inodes /\ IsDir(fs', Parent(loc))
    <3>1. PICK old \in Tree : loc = To(old)
      BY <2>1
    <3>2. To(old) \in Seq(FileNames)
      BY <1>4, MovedIs DEF To
    <3>3. fs[old] \in Inodes
      BY <1>2 DEF Tree
    <3> QED BY <1>5, <1>7, <3>1, <3>2, <3>3
  <2> QED BY <2>2 DEF IsTree
<1>9. IsDir(fs', cwd')
  <2>1. cwd # to
    BY <1>1 DEF InUse, TypeOK, IsDir
  <2> QED BY <1>1, <1>6, <2>1 DEF TypeOK
<1>10. DOMAIN fds' = Fds /\ \A fd \in Open' : IsDir(fs', fds'[fd])
  <2>1. DOMAIN fds' = Fds
    BY <1>1
  <2>2. ASSUME NEW fd \in Open' PROVE IsDir(fs', fds'[fd])
    <3>1. fd \in Fds /\ fds'[fd] # Closed
      BY <2>2 DEF Open
    <3>2. fd \in Open /\ fds'[fd] = To(fds[fd])
      BY <1>1, <3>1
    <3>3. IsDir(fs, fds[fd])
      BY <3>2 DEF TypeOK
    <3>4. fds[fd] # to
      BY <1>1, <3>2, <3>3 DEF InUse, IsDir
    <3> QED BY <1>6, <3>2, <3>3, <3>4
  <2> QED BY <2>1, <2>2
<1>11. root' \in Pathnames
  BY <1>1 DEF TypeOK
<1> QED BY <1>8, <1>9, <1>10, <1>11 DEF TypeOK

LEMMA RemoveTypes ==
    ASSUME TypeOK, NEW l, Remove(l)
    PROVE  TypeOK'
<1>1. /\ l.at # <<>> /\ ~InUse(l.at) /\ IsEmpty(l.at)
      /\ fs' = [loc \in DOMAIN fs \ {l.at} |-> fs[loc]]
      /\ cwd' = cwd /\ root' = root /\ fds' = fds
  BY DEF Remove
<1>2. \A loc : IsDir(fs, loc) /\ loc # l.at => IsDir(fs', loc)
  BY <1>1 DEF IsDir, Exists
<1>3. ASSUME NEW loc \in DOMAIN fs'
      PROVE  loc \in Seq(FileNames) /\ fs'[loc] \in Inodes /\ IsDir(fs', Parent(loc))
  <2>1. loc \in DOMAIN fs /\ loc # l.at /\ fs'[loc] = fs[loc]
    BY <1>1
  <2>2. loc \in Seq(FileNames) /\ fs[loc] \in Inodes /\ IsDir(fs, Parent(loc))
    BY <2>1 DEF TypeOK, IsTree
  <2>3. Parent(loc) # l.at
    <3>1. CASE loc = <<>>
      BY <1>1, <3>1 DEF Parent
    <3>2. CASE loc # <<>>
      <4>1. Below(loc, Parent(loc))
        BY <2>2, <3>2, BelowParent
      <4> QED BY <1>1, <2>1, <4>1 DEF IsEmpty
    <3> QED BY <3>1, <3>2
  <2> QED BY <1>2, <2>1, <2>2, <2>3
<1>4. IsTree(fs')
  BY <1>3 DEF IsTree
<1>5. cwd # l.at /\ \A fd \in Open : fds[fd] # l.at
  BY <1>1 DEF InUse
<1> QED BY <1>1, <1>2, <1>4, <1>5 DEF TypeOK, Open

\* What next_X() finds, for any of the calls.
LEMMA ReachIs ==
    ASSUME TypeOK, NEW call, NEW dir \in Dirs, NEW path \in Args
    PROVE  LET l == Reach(call, dir, path)
           IN  l.at \in Seq(FileNames)
               /\ (Ended(l) => Exists(fs, l.at) \/ IsDir(fs, Parent(l.at)))
<1> DEFINE given == Given(call, dir, path)
           at == At(call, dir)
           l == HostLookup(at, given, call.sys)
<1>1. at \in Dirs /\ path \in Pathnames
  BY InitAssumption DEF At, Dirs
<1>2. given \in Pathnames
  <2>1. at \in Roots /\ IsTree(fs) /\ cwd \in Seq(FileNames) /\ root \in Pathnames
    BY <1>1, DirsAre
  <2> HIDE DEF at
  <2>2. \A follow, prflags :
           path_resolution2(fs, cwd, root, at, path, follow, prflags) \in Pathnames
    BY <1>1, <2>1, ResolutionIs
  <2> QED BY <1>1, <2>2 DEF Given, at
<1> HIDE DEF at, given
<1>3. l.at \in Seq(FileNames) /\ (Ended(l) => Exists(fs, l.at) \/ IsDir(fs, Parent(l.at)))
  BY <1>1, <1>2, HostLookupIs
<1> HIDE DEF l
<1>4. Reach(call, dir, path) = l
  BY DEF Reach, l, at, given
<1> QED BY <1>3, <1>4

LEMMA RenameatTypes ==
    ASSUME TypeOK, NEW olddir \in Dirs, NEW newdir \in Dirs, NEW old \in Args, NEW new \in Args,
           NEW a, NEW b,
           \E from \in {Reach(a, olddir, old)}, to \in {Reach(b, newdir, new)} :
              Found(fs, from) /\ Ended(to) /\ Rename(from.at, to.at)
    PROVE  TypeOK'
<1> PICK from \in {Reach(a, olddir, old)}, to \in {Reach(b, newdir, new)} :
        Found(fs, from) /\ Ended(to) /\ Rename(from.at, to.at)
  OBVIOUS
<1>1. from.at \in Seq(FileNames)
  BY ReachIs
<1>2. to.at \in Seq(FileNames) /\ (Exists(fs, to.at) \/ IsDir(fs, Parent(to.at)))
  BY ReachIs
<1> QED BY <1>1, <1>2, RenameTypes DEF Found

LEMMA LinkatTypes ==
    ASSUME TypeOK, NEW olddir \in Dirs, NEW newdir \in Dirs, NEW old \in Args, NEW new \in Args,
           NEW atflags, linkat(olddir, old, newdir, new, atflags)
    PROVE  TypeOK'
<1> DEFINE l == Reach(C!linkat(atflags).new, newdir, new)
<1>1. PICK from : Found(fs, from) /\ Create(l, fs[from.at])
  BY DEF linkat
<1>2. l.at \in Seq(FileNames) /\ (Ended(l) => Exists(fs, l.at) \/ IsDir(fs, Parent(l.at)))
  <2>1. \A call : LET m == Reach(call, newdir, new)
                  IN  m.at \in Seq(FileNames)
                      /\ (Ended(m) => Exists(fs, m.at) \/ IsDir(fs, Parent(m.at)))
    BY ReachIs
  <2> QED BY <2>1
<1> HIDE DEF l
<1>3. fs[from.at] \in Inodes
  BY <1>1 DEF Found, Exists, TypeOK, IsTree
<1>4. Ended(l)
  BY <1>1 DEF Create
<1> QED BY <1>1, <1>2, <1>3, <1>4, CreateTypes

LEMMA CreatTypes ==
    ASSUME TypeOK, NEW path \in Args, creat(path)
    PROVE  TypeOK'
<1> DEFINE l == Reach(C!creat, NoDir, path)
<1>1. Create(l, File) /\ File \in Inodes
  BY DEF creat, File, Inodes
<1>2. l.at \in Seq(FileNames) /\ (Ended(l) => Exists(fs, l.at) \/ IsDir(fs, Parent(l.at)))
  <2>1. NoDir \in Dirs
    BY DEF Dirs
  <2>2. \A call : LET m == Reach(call, NoDir, path)
                  IN  m.at \in Seq(FileNames)
                      /\ (Ended(m) => Exists(fs, m.at) \/ IsDir(fs, Parent(m.at)))
    BY <2>1, ReachIs
  <2> QED BY <2>2
<1> HIDE DEF l
<1>3. Ended(l)
  BY <1>1 DEF Create
<1> QED BY <1>1, <1>2, <1>3, CreateTypes

LEMMA WrappersNextTypes == TypeOK /\ [WrappersNext]_vars => TypeOK'
<1> SUFFICES ASSUME TypeOK, [WrappersNext]_vars PROVE TypeOK'
  OBVIOUS
<1>1. CASE [Next]_vars
  BY <1>1, NextTypes
<1>2. ASSUME NEW olddir \in Dirs, NEW newdir \in Dirs, NEW old \in Args, NEW new \in Args,
             renameat(olddir, old, newdir, new)
      PROVE  TypeOK'
  BY <1>2, RenameatTypes DEF renameat
<1>3. ASSUME NEW olddir \in Dirs, NEW newdir \in Dirs, NEW old \in Args, NEW new \in Args,
             renameat2(olddir, old, newdir, new)
      PROVE  TypeOK'
  BY <1>3, RenameatTypes DEF renameat2
<1>4. ASSUME NEW olddir \in Dirs, NEW newdir \in Dirs, NEW old \in Args, NEW new \in Args,
             NEW atflags \in BOOLEAN, linkat(olddir, old, newdir, new, atflags)
      PROVE  TypeOK'
  BY <1>4, LinkatTypes
<1>5. ASSUME NEW path \in Args, rmdir(path) \/ remove(path)
      PROVE  TypeOK'
  <2>1. PICK l : Remove(l)
    BY <1>5 DEF rmdir, remove
  <2> QED BY <2>1, RemoveTypes
<1>6. ASSUME NEW path \in Args, creat(path)
      PROVE  TypeOK'
  BY <1>6, CreatTypes
<1> QED
  BY <1>1, <1>2, <1>3, <1>4, <1>5, <1>6 DEF WrappersNext

(***************************************************************************)
(* The wrappers that rename, link and remove keep it so: a directory is    *)
(* renamed with all that is below it, the working directory and the open   *)
(* descriptors included, and none is removed that has something in it.     *)
(***************************************************************************)
THEOREM WrappersTyping == WrappersSpec => []TypeOK
<1>1. Init => TypeOK
  BY InitTypes
<1> QED
  BY <1>1, WrappersNextTypes, PTL DEF WrappersSpec

-----------------------------------------------------------------------------
(***************************************************************************)
(* Fifteen wrappers take the root off the paths they return, in three      *)
(* ways, and come to the same.                                             *)
(***************************************************************************)
LEMMA ToldIs ==
    ASSUME TypeOK, Proper, NEW loc \in DOMAIN fs, Below(loc, JailLoc), NEW name \in Told(loc)
    PROVE  name = __striprootdir(root, HostPath(loc))
<1> DEFINE jail == JailLoc
           rest == Rest(loc, Len(jail))
           stripped == __striprootdir(root, HostPath(loc))
<1>1. loc \in Seq(FileNames) /\ jail \in Seq(FileNames) /\ root = HostPath(jail)
  BY DEF TypeOK, IsTree, Proper, IsDir, Exists
<1>2. CASE ~InJail(root)
  <2>1. stripped = HostPath(loc)
    BY <1>2 DEF InJail, __striprootdir
  <2>2. realpath(loc) = HostPath(loc) /\ \A exe \in BOOLEAN : readlinkat(loc, exe) = HostPath(loc)
    BY <1>2 DEF realpath, readlinkat, __getexe
  <2> QED
    BY <2>1, <2>2 DEF Told, canonicalize_file_name, ttyname, ttyname_r, ptsname, ptsname_r,
           ctermid, tempnam, dladdr, dladdr1, dl_iterate_phdr, getcwd, get_current_dir_name, getwd
<1>3. CASE InJail(root)
  <2>1. jail # <<>>
    BY <1>1, <1>3 DEF InJail, HostPath
  <2>2. /\ rest \in Seq(FileNames) /\ __strleq(HostPath(loc), root)
        /\ After(HostPath(loc), root) = Empty \o rest /\ stripped = HostPath(rest)
    BY <1>1, <2>1, StrippedIs
  <2>3. loc = jail \o rest
    BY <1>1, BelowIs
  <2> HIDE DEF jail, rest, stripped
  <2>4. rest # <<>> => HostPath(rest) = Empty \o rest
    BY <2>2, HostPathNames
  <2>5. rest = <<>> <=> HostPath(loc) = root
    <3>1. \A x, y \in Seq(FileNames) : HostPath(x) = HostPath(y) => x = y
      BY HostPathIs
    <3>2. \A x, y \in Seq(FileNames) : x \o y = x <=> y = <<>>
      BY ConcatEqualIffEmpty
    <3> QED BY <1>1, <2>2, <2>3, <3>1, <3>2
  <2>6. rest = <<>> => Empty \o rest = Empty /\ HostPath(rest) = Slash
    <3>1. \A t \in Seq(Parts) : t \o <<>> = t
      BY ConcatEmptySeq
    <3>2. Empty \o <<>> = Empty
      BY <3>1, EmptyIs
    <3> QED BY <3>2 DEF HostPath
  <2>7. readlinkat(loc, FALSE) = stripped
    BY <1>3, <2>2, <2>4, <2>5, <2>6 DEF readlinkat
  <2>8. /\ realpath(loc) # Empty => realpath(loc) = stripped
        /\ readlinkat(loc, TRUE) # Empty => readlinkat(loc, TRUE) = stripped
    BY <1>3, <2>2, <2>4, <2>6 DEF realpath, readlinkat, __getexe
  <2> QED
    BY <2>7, <2>8 DEF stripped, Told, canonicalize_file_name, ttyname, ttyname_r, ptsname,
           ptsname_r, ctermid, tempnam, dladdr, dladdr1, dl_iterate_phdr, getcwd,
           get_current_dir_name, getwd
<1> QED BY <1>2, <1>3

(***************************************************************************)
(* After any renames, links and removals, a path one of the wrappers told  *)
(* the program leads back to the file: the resolution puts the root before *)
(* it again and meets no link, so that the kernel is given the path it has *)
(* for the file.                                                           *)
(***************************************************************************)
THEOREM PathsLeadBack == WrappersSpec => []ReturnedPathsLeadBack
<1>1. ASSUME TypeOK PROVE ReturnedPathsLeadBack
  <2> SUFFICES ASSUME Proper, NEW loc \in DOMAIN fs, Below(loc, JailLoc), ~IsLink(fs, loc),
                      NotRedirected(fs, loc), NEW name \in Told(loc), ~ignore(name),
                      InJail(root) => ~__strleq(name, root)
               PROVE  LET l == Reach(C!access, NoDir, name) IN Ended(l) /\ l.at = loc
    BY DEF ReturnedPathsLeadBack
  <2>1. /\ IsTree(fs) /\ cwd \in Seq(FileNames) /\ JailLoc \in Seq(FileNames)
        /\ root = HostPath(JailLoc)
    BY <1>1 DEF TypeOK, Proper, IsDir, Exists, IsTree
  <2>2. name = __striprootdir(root, HostPath(loc))
    BY <1>1, ToldIs
  <2>3. path_resolution2(fs, cwd, root, NoDir, name, TRUE, {}) = HostPath(loc)
    <3> DEFINE jail == JailLoc
    <3>1. /\ jail \in Seq(FileNames) /\ Below(loc, jail)
          /\ name = __striprootdir(HostPath(jail), HostPath(loc))
          /\ InJail(HostPath(jail)) => ~__strleq(name, HostPath(jail))
      BY <2>1, <2>2
    <3> HIDE DEF jail
    <3>2. \A follow, prflags :
             path_resolution2(fs, cwd, HostPath(jail), NoDir, name, follow, prflags)
                = HostPath(loc)
      BY <2>1, <3>1, NameLeadsBack
    <3> QED BY <2>1, <3>2 DEF jail
  <2>4. Reach(C!access, NoDir, name) = HostLookup(NoDir, HostPath(loc), TRUE)
    <3>1. At(C!access, NoDir) = NoDir
      BY DEF At
    <3>2. Given(C!access, NoDir, name) = HostPath(loc)
      BY <2>3, <3>1 DEF Given, C!access, C!Cwd, C!FOLLOW
    <3> QED BY <3>1, <3>2 DEF Reach, C!access, C!Cwd, C!FOLLOW
  <2> DEFINE l == Lookup(fs, <<>>, cwd, HostPath(loc), TRUE)
  <2>5. Ended(l) /\ l.at = loc
    <3>1. ASSUME NEW follow
          PROVE  LET m == Lookup(fs, <<>>, cwd, HostPath(loc), follow)
                 IN  Ended(m) /\ m.at = loc
      BY <2>1, CanonicalLookup
    <3> QED BY <3>1
  <2> HIDE DEF l
  <2>6. Reach(C!access, NoDir, name) = l
    BY <2>4 DEF HostLookup, l
  <2> QED BY <2>5, <2>6
<1> QED BY <1>1, WrappersTyping, PTL

-----------------------------------------------------------------------------
(***************************************************************************)
(* No wrapper here sets user.iamroot.path-resolution: what it makes does   *)
(* not have the attribute, what it moves or links keeps its own.           *)
(***************************************************************************)
LEMMA CreateKeepsPlain ==
    ASSUME NEW l, NEW inode, Create(l, inode), NothingRedirected(fs),
           "redirect" \notin DOMAIN inode
    PROVE  NothingRedirected(fs')
<1>1. fs' = [loc \in DOMAIN fs \cup {l.at} |-> IF loc = l.at THEN inode ELSE fs[loc]]
  BY DEF Create
<1>2. ASSUME NEW loc \in DOMAIN fs' PROVE "redirect" \notin DOMAIN fs'[loc]
  <2>1. loc \in DOMAIN fs \cup {l.at} /\ fs'[loc] = IF loc = l.at THEN inode ELSE fs[loc]
    BY <1>1
  <2> QED BY <2>1 DEF NothingRedirected
<1> QED BY <1>2 DEF NothingRedirected

LEMMA RemoveKeepsPlain ==
    ASSUME NEW at, NothingRedirected(fs), fs' = [loc \in DOMAIN fs \ {at} |-> fs[loc]]
    PROVE  NothingRedirected(fs')
  BY DEF NothingRedirected

LEMMA RenameKeepsPlain ==
    ASSUME NEW from, NEW to, Rename(from, to), NothingRedirected(fs)
    PROVE  NothingRedirected(fs')
<1> DEFINE Tree == DOMAIN fs \ {to}
           Origin(loc) == CHOOSE old \in Tree : Moved(old, from, to) = loc
<1>1. fs' = [loc \in {Moved(old, from, to) : old \in Tree} |-> fs[Origin(loc)]]
  BY DEF Rename
<1>2. ASSUME NEW loc \in DOMAIN fs' PROVE "redirect" \notin DOMAIN fs'[loc]
  <2>1. loc \in {Moved(old, from, to) : old \in Tree} /\ fs'[loc] = fs[Origin(loc)]
    BY <1>1
  <2>2. Origin(loc) \in Tree
    BY <2>1
  <2> HIDE DEF Origin
  <2> QED BY <2>1, <2>2 DEF NothingRedirected
<1> QED BY <1>2 DEF NothingRedirected

LEMMA NextKeepsPlain == NothingRedirected(fs) /\ [Next]_vars => NothingRedirected(fs')
<1> SUFFICES ASSUME NothingRedirected(fs), [Next]_vars PROVE NothingRedirected(fs')
  OBVIOUS
<1>1. ASSUME NEW dir, NEW path, mkdirat(dir, path) PROVE NothingRedirected(fs')
  <2>1. "redirect" \notin DOMAIN Directory
    BY DEF Directory
  <2> QED BY <1>1, <2>1, CreateKeepsPlain DEF mkdirat
<1>2. ASSUME NEW target, NEW dir, NEW path, symlinkat(target, dir, path) PROVE NothingRedirected(fs')
  <2>1. "redirect" \notin DOMAIN Link(target)
    BY DEF Link
  <2> QED BY <1>2, <2>1, CreateKeepsPlain DEF symlinkat
<1>3. ASSUME NEW dir, NEW path, unlinkat(dir, path) PROVE NothingRedirected(fs')
  BY <1>3, RemoveKeepsPlain DEF unlinkat
<1>4. CASE UNCHANGED fs
  BY <1>4
<1>5. ASSUME NEW path, chroot(path) \/ chdir(path) PROVE UNCHANGED fs
  BY <1>5 DEF chroot, chdir
<1>6. ASSUME NEW fd \in Fds, \/ fchdir(fd) \/ close(fd) \/ \E dir, path : openat(dir, path, fd)
      PROVE  UNCHANGED fs
  BY <1>6 DEF fchdir, close, openat
<1>7. UNCHANGED vars => UNCHANGED fs
  BY DEF vars
<1> QED BY <1>1, <1>2, <1>3, <1>4, <1>5, <1>6, <1>7 DEF Next

LEMMA WrappersNextKeepsPlain ==
    NothingRedirected(fs) /\ [WrappersNext]_vars => NothingRedirected(fs')
<1> SUFFICES ASSUME NothingRedirected(fs), [WrappersNext]_vars PROVE NothingRedirected(fs')
  OBVIOUS
<1>1. CASE [Next]_vars
  BY <1>1, NextKeepsPlain
<1>2. ASSUME NEW olddir, NEW old, NEW newdir, NEW new,
             renameat(olddir, old, newdir, new) \/ renameat2(olddir, old, newdir, new)
      PROVE  NothingRedirected(fs')
  <2>1. \E from, to : Rename(from, to)
    BY <1>2 DEF renameat, renameat2
  <2> QED BY <2>1, RenameKeepsPlain
<1>3. ASSUME NEW olddir, NEW old, NEW newdir, NEW new, NEW atflags,
             linkat(olddir, old, newdir, new, atflags)
      PROVE  NothingRedirected(fs')
  <2>1. PICK from : Found(fs, from)
                    /\ Create(Reach(C!linkat(atflags).new, newdir, new), fs[from.at])
    BY <1>3 DEF linkat
  <2>2. "redirect" \notin DOMAIN fs[from.at]
    BY <2>1 DEF Found, Exists, NothingRedirected
  <2> QED BY <2>1, <2>2, CreateKeepsPlain
<1>4. ASSUME NEW path, rmdir(path) \/ remove(path) PROVE NothingRedirected(fs')
  <2>1. \E l : Remove(l)
    BY <1>4 DEF rmdir, remove
  <2> QED BY <2>1, RemoveKeepsPlain DEF Remove
<1>5. ASSUME NEW path, creat(path) PROVE NothingRedirected(fs')
  <2>1. "redirect" \notin DOMAIN File
    BY DEF File
  <2> QED BY <1>5, <2>1, CreateKeepsPlain DEF creat
<1> QED BY <1>1, <1>2, <1>3, <1>4, <1>5 DEF WrappersNext

LEMMA LeadsAs ==
    ASSUME TypeOK, NothingRedirected(fs), ResolutionEnds
    PROVE  SameAsChroot
<1> SUFFICES ASSUME Proper, NEW dir \in Dirs, NEW path \in Probes
             PROVE  Leads(dir, path, TRUE, Resolve(dir, path, TRUE))
  BY DEF SameAsChroot
<1> SUFFICES ASSUME NEW l, l = Reference(dir, path, TRUE), Ended(l), ~l.clamped,
                    l.links + 1 < SYMLOOP_MAX, ~Excepted(path, l),
                    NEW h, h = HostLookup(dir, Resolve(dir, path, TRUE), TRUE)
             PROVE  Ended(h) /\ h.at = l.at
  BY DEF Leads
<1> DEFINE jail == JailLoc
           base == Base(cwd, dir)
           at == IF IsAbsolute(path) THEN jail ELSE base
<1>1. /\ IsTree(fs) /\ cwd \in DOMAIN fs /\ IsDir(fs, cwd) /\ jail \in DOMAIN fs /\ IsDir(fs, jail)
      /\ root = HostPath(jail) /\ jail \in Seq(FileNames)
  BY DEF TypeOK, Proper, IsDir, Exists, IsTree
<1>2. dir \in DirPaths(fs)
  BY DEF TypeOK, Dirs, Open, fpath, DirPaths, IsDir, Exists
<1>3. path \in Pathnames /\ path \in Seq(Parts) /\ path # Empty /\ path # <<>>
  BY InitAssumption, PathnamesAre, EmptyIs
<1>4. base \in Seq(FileNames)
  BY <1>1, <1>2, BaseIs
<1>5. Reaches(fs, jail, TRUE, at, path, 0, l)
  <2>1. l = Lookup(fs, jail, base, path, TRUE)
    BY DEF Reference, Base
  <2> HIDE DEF base, jail
  <2>2. l = Walked(fs, jail, TRUE, On(at, path, 0))
    BY <1>3, <2>1, LookupIs
  <2>3. at \in Seq(FileNames)
    BY <1>1, <1>4
  <2>4. 0 \in 0..SYMLOOP_MAX
    BY KernelAssumption, ZeroIn
  <2> HIDE DEF at
  <2> QED BY <1>3, <2>2, <2>3, <2>4 DEF Reaches
<1>6. l.links \in Nat
  BY LinksAre
<1>7. /\ ~ignore(path)
      /\ Below(l.at, jail) => ~ignore(Concat(One(""), Rest(l.at, Len(jail))))
      /\ IsAbsolute(path) /\ InJail(root) => ~__strleq(path, root)
  BY DEF Excepted, InJailPath, Rest, Concat, One
<1> DEFINE run == RealpathRun(fs, cwd, root, Sanitized(root, dir, path), TRUE)
<1>8. run.done \/ run.err # ""
  BY DEF ResolutionEnds
<1>9. Resolve(dir, path, TRUE) \in PathsTo(l.at) /\ Stands(fs, l.at)
  <2>1. path_resolution(fs, cwd, HostPath(jail), dir, path, TRUE) \in PathsTo(l.at)
        /\ Stands(fs, l.at)
    <3>1. run = RealpathRun(fs, cwd, HostPath(jail), Sanitized(HostPath(jail), dir, path), TRUE)
      BY <1>1
    <3>2. IsAbsolute(path) /\ InJail(HostPath(jail)) => ~__strleq(path, HostPath(jail))
      BY <1>1, <1>7
    <3> HIDE DEF jail, run
    <3>3. Reaches(fs, jail, TRUE, IF IsAbsolute(path) THEN jail ELSE Base(cwd, dir), path, 0, l)
      BY <1>5
    <3> HIDE DEF at, base
    <3>4. Resolvable(fs, cwd, jail, dir, path, l, run)
      BY <1>1, <1>2, <1>3, <1>6, <1>7, <1>8, <3>1, <3>2, <3>3 DEF Resolvable
    <3> QED BY <3>4, ResolutionLeads
  <2> QED BY <1>1, <2>1 DEF Resolve
<1> DEFINE p == Resolve(dir, path, TRUE)
<1>10. p \in Pathnames /\ IsAbsolute(p) /\ p # Empty
       /\ Reaches(fs, <<>>, TRUE, <<>>, p, 0, On(l.at, <<>>, 0))
  <2>1. p \in PathsTo(l.at) /\ Stands(fs, l.at) /\ <<>> \in Seq(FileNames)
    BY <1>9, NoneLeft
  <2> HIDE DEF p
  <2> QED BY <1>1, <2>1, PathsLead, EmptyIs
<1>11. h = Lookup(fs, <<>>, base, p, TRUE)
  BY DEF HostLookup, Base
<1> HIDE DEF p, base
<1>12. h = Walked(fs, <<>>, TRUE, On(<<>>, p, 0))
  BY <1>10, <1>11, LookupIs
<1>13. Reaches(fs, <<>>, TRUE, <<>>, p, 0, On(l.at, <<>>, 0))
  BY <1>10
<1>14. h = On(l.at, <<>>, 0) /\ Ended(h)
  BY <1>12, <1>13 DEF Reaches
<1>15. On(l.at, <<>>, 0).at = l.at
  BY DEF On
<1> QED BY <1>14, <1>15

(***************************************************************************)
(* In every state of a process in the jail, whatever directories, links    *)
(* and renames came before: a path that leads somewhere for chroot(2)      *)
(* leads there behind path_resolution() too, from the working directory or *)
(* a descriptor, through links of any content and any number up to the     *)
(* limit.  The attribute user.iamroot.path-resolution, which leads         *)
(* elsewhere on purpose, is nowhere in the file system at the start.       *)
(***************************************************************************)
THEOREM JailIsChroot ==
    ASSUME NothingRedirected(InitFs)
    PROVE  Spec \/ WrappersSpec => [](ResolutionEnds => SameAsChroot)
<1> DEFINE Plain == NothingRedirected(fs)
<1>1. Init => TypeOK /\ Plain
  BY InitTypes DEF Init
<1>2. TypeOK /\ Plain /\ [Next]_vars => (TypeOK /\ Plain)'
  BY NextTypes, NextKeepsPlain
<1>3. TypeOK /\ Plain /\ [WrappersNext]_vars => (TypeOK /\ Plain)'
  BY WrappersNextTypes, WrappersNextKeepsPlain
<1>4. TypeOK /\ Plain => (ResolutionEnds => SameAsChroot)
  BY LeadsAs
<1> QED
  BY <1>1, <1>2, <1>3, <1>4, PTL DEF Spec, WrappersSpec

=============================================================================
