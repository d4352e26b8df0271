----------------------------- MODULE Exec_proofs -----------------------------
(***************************************************************************)
(* Type correctness of Exec, and that a program of the jail runs with its  *)
(* arguments, the library and directories under the root, for every set of *)
(* programs, loaders, libraries and arguments.                             *)
(*                                                                         *)
(* The invariant IInv only has to tell what the environment may have come  *)
(* to (a list is never empty); the properties speak of the calls that the  *)
(* process may make next, and follow from it by what the functions that    *)
(* make the command line of the loader return: Options() writes as many    *)
(* words as shift() counts (OptionsTold), the loader takes none of them    *)
(* for the program (LoaderStarted), and the moved arguments come after     *)
(* them (CallMade).                                                        *)
(***************************************************************************)
EXTENDS Exec, Lists_proofs

-----------------------------------------------------------------------------
(* The lists *)

\* Entries of any number of roots: the lists before Bounded.
LooseEntries == [roots : Nat, dir : STRING]

(***************************************************************************)
(* The library a program is given is one of those there are.               *)
(***************************************************************************)
LEMMA LibraryIs == \A program : __getlibiamroot(program) \in DOMAIN BuiltFor \cup {"libiamroot.so"}
<1> TAKE program
<1>1. \A dir \in DOMAIN Installed : \A build \in DOMAIN Installed[dir] :
         Installed[dir][build] \in DOMAIN BuiltFor
  BY ExecAssumption DEF InstalledAssumption
<1>2. \A build \in DOMAIN LibVariables : LibVariables[build] \in DOMAIN BuiltFor
  BY ExecAssumption DEF InstalledAssumption
<1>3. IAMROOT_LIB # NULL => IAMROOT_LIB \in DOMAIN BuiltFor
  BY ExecAssumption DEF InstalledAssumption
<1>4. Prefix \in DOMAIN Installed /\ (Origin # NULL => Origin \in DOMAIN Installed)
  BY LoadersAssumption
<1>5. \A dir \in DOMAIN Installed : __libiamroot_access(program, dir) # NULL =>
         __libiamroot_access(program, dir) \in DOMAIN BuiltFor
  BY <1>1 DEF __libiamroot_access
<1>7. CASE Build(program) \in DOMAIN LibVariables
  BY <1>2, <1>7 DEF __getlibiamroot
<1>8. CASE Build(program) \notin DOMAIN LibVariables
  BY <1>1, <1>3, <1>4, <1>5, <1>8 DEF __getlibiamroot
<1> QED BY <1>7, <1>8

(***************************************************************************)
(* It has directories of libraries.                                        *)
(***************************************************************************)
LEMMA DirectoriesAre == \A program : __getdeflib(program) \in Seq(STRING) \ {<<>>}
<1> TAKE program
<1>1. Literals \subseteq STRING
  BY ExecAssumption
<1>2. /\ "/lib64" \in STRING /\ "/usr/lib64" \in STRING /\ "/lib" \in STRING
      /\ "/usr/lib" \in STRING /\ "/usr/pkg/lib" \in STRING /\ "/usr/local/lib" \in STRING
  BY <1>1 DEF Literals
<1>3. /\ <<"/lib64", "/usr/lib64">> \in Seq(STRING) \ {<<>>}
      /\ <<"/lib", "/usr/lib">> \in Seq(STRING) \ {<<>>}
      /\ <<"/lib", "/usr/pkg/lib", "/usr/lib">> \in Seq(STRING) \ {<<>>}
      /\ <<"/lib", "/usr/local/lib", "/usr/lib">> \in Seq(STRING) \ {<<>>}
  BY <1>2
<1> QED BY <1>3, LoadersAssumption DEF __getdeflib

LEMMA RootsAdded ==
    \A path \in Seq(LooseEntries) :
        /\ RootPrefixed(path) \in Seq(LooseEntries) /\ Len(RootPrefixed(path)) = Len(path)
        /\ \A i \in DOMAIN RootPrefixed(path) : RootPrefixed(path)[i].roots > 0
<1> SUFFICES ASSUME NEW path \in Seq(LooseEntries)
             PROVE  /\ RootPrefixed(path) \in Seq(LooseEntries)
                    /\ Len(RootPrefixed(path)) = Len(path)
                    /\ \A i \in DOMAIN RootPrefixed(path) : RootPrefixed(path)[i].roots > 0
  OBVIOUS
<1>1. \A i \in 1..Len(path) : path[i] \in LooseEntries
  OBVIOUS
<1>2. \A entry \in LooseEntries :
         [entry EXCEPT !.roots = @ + 1] \in LooseEntries
         /\ [entry EXCEPT !.roots = @ + 1].roots > 0
  BY DEF LooseEntries
<1>3. DOMAIN path = 1..Len(path) /\ Len(path) \in Nat
  OBVIOUS
<1> DEFINE new == RootPrefixed(path)
<1>4. /\ DOMAIN new = 1..Len(path)
      /\ \A i \in 1..Len(path) : new[i] = [path[i] EXCEPT !.roots = @ + 1]
  BY <1>3 DEF RootPrefixed
<1>5. new = [i \in 1..Len(path) |-> new[i]]
  BY <1>3 DEF RootPrefixed
<1> HIDE DEF new
<1>6. \A i \in 1..Len(path) : new[i] \in LooseEntries /\ new[i].roots > 0
  BY <1>1, <1>2, <1>4
<1>7. new \in Seq(LooseEntries) /\ Len(new) = Len(path)
  BY <1>3, <1>5, <1>6
<1> QED BY <1>4, <1>6, <1>7 DEF new

(***************************************************************************)
(* The environment: the lists are not empty, and no entry of LD_LIBRARY_   *)
(* PATH is the library's.                                                  *)
(***************************************************************************)
EnvOK(e) ==
    /\ DOMAIN e = Variables
    /\ e["LD_PRELOAD"] \in (Seq(Libraries) \ {<<>>}) \cup {NULL}
    /\ e["LD_LIBRARY_PATH"] \in (Seq(LooseEntries) \ {<<>>}) \cup {NULL}
    /\ e["ld_library_path"] = NULL

LEMMA DefLibIs ==
    \A program : DefLib(program) \in Seq(LooseEntries) /\ Len(DefLib(program)) > 0
<1> TAKE program
<1> DEFINE dirs == __getdeflib(program)
           path == DefLib(program)
<1>1. dirs \in Seq(STRING) /\ dirs # <<>>
  BY DirectoriesAre
<1>2. path = [i \in DOMAIN dirs |-> Entry(dirs[i])]
  BY DEF DefLib
<1>3. \A dir \in STRING : Entry(dir) \in LooseEntries
  BY DEF Entry, LooseEntries
<1> HIDE DEF dirs, path
<1>4. DOMAIN dirs = 1..Len(dirs) /\ Len(dirs) \in Nat /\ Len(dirs) > 0
      /\ \A i \in 1..Len(dirs) : dirs[i] \in STRING
  BY <1>1
<1>5. path \in Seq(LooseEntries) /\ Len(path) = Len(dirs)
  <2> DEFINE n == Len(dirs)
  <2>1. path = [i \in 1..n |-> Entry(dirs[i])] /\ n \in Nat
    BY <1>2, <1>4
  <2>2. \A i \in 1..n : Entry(dirs[i]) \in LooseEntries
    BY <1>3, <1>4
  <2> HIDE DEF n
  <2>3. path \in [1..n -> LooseEntries]
    BY <2>1, <2>2
  <2>4. path \in Seq(LooseEntries) /\ Len(path) = n
    BY <2>1, <2>3
  <2> QED BY <2>4 DEF n
<1> QED BY <1>4, <1>5 DEF path

LEMMA OwnEntriesAre ==
    ASSUME NEW e, EnvOK(e)
    PROVE  __getld_library_path(e) \in Seq(LooseEntries)
<1> DEFINE curr == e["LD_LIBRARY_PATH"]
<1>1. __getld_library_path(e) = IF curr = NULL THEN <<>> ELSE curr
  BY DEF EnvOK, __getld_library_path
<1>2. curr = NULL \/ curr \in Seq(LooseEntries)
  BY DEF EnvOK
<1> HIDE DEF curr
<1> QED BY <1>1, <1>2

(***************************************************************************)
(* The list of directories a loader is told: all of them under the root.   *)
(***************************************************************************)
Rooted(path) ==
    /\ path \in Seq(LooseEntries) /\ Len(path) > 0
    /\ \A i \in DOMAIN path : path[i].roots > 0

LEMMA LibraryPathIs ==
    ASSUME NEW e, EnvOK(e), NEW program
    PROVE  Rooted(__ld_library_path(e, program))
<1> DEFINE a == RootPrefixed(DefLib(program))
           b == RootPrefixed(__getld_library_path(e))
<1>1. /\ a \in Seq(LooseEntries) /\ Len(a) > 0
      /\ \A i \in DOMAIN a : a[i].roots > 0
  BY DefLibIs, RootsAdded
<1>2. /\ b \in Seq(LooseEntries)
      /\ \A i \in DOMAIN b : b[i].roots > 0
  BY OwnEntriesAre, RootsAdded
<1>3. __ld_library_path(e, program) = a \o b
  BY DEF __ld_library_path
<1> HIDE DEF a, b
<1>4. /\ a \o b \in Seq(LooseEntries) /\ Len(a \o b) = Len(a) + Len(b)
      /\ Len(a) \in Nat /\ Len(b) \in Nat
      /\ DOMAIN (a \o b) = 1..(Len(a) + Len(b))
      /\ DOMAIN a = 1..Len(a) /\ DOMAIN b = 1..Len(b)
  BY <1>1, <1>2
<1>5. ASSUME NEW i \in 1..(Len(a) + Len(b)) PROVE (a \o b)[i].roots > 0
  <2>1. CASE i \in 1..Len(a)
    <3>1. (a \o b)[i] = a[i]
      BY <1>1, <1>2, <1>4, <2>1
    <3> QED BY <1>1, <1>4, <2>1, <3>1
  <2>2. CASE i \notin 1..Len(a)
    <3>1. i - Len(a) \in 1..Len(b)
      BY <1>4, <2>2
    <3>2. (a \o b)[i] = b[i - Len(a)]
      BY <1>1, <1>2, <1>4, <2>2
    <3> QED BY <1>2, <1>4, <3>1, <3>2
  <2> QED BY <2>1, <2>2
<1> QED BY <1>1, <1>3, <1>4, <1>5 DEF Rooted

LEMMA PreloadIs ==
    \A program :
        /\ __ld_preload(program) \in Seq(Libraries) \ {<<>>}
        /\ __getlibiamroot(program) \in ToSet(__ld_preload(program))
<1> TAKE program
<1> DEFINE so == __getlibiamroot(program)
<1>1. so \in Libraries
  BY LibraryIs DEF Libraries
<1>2. Needed \in Seq(Libraries)
  <2>1. Needed \in Seq(STRING)
    BY ExecAssumption
  <2>2. \A i \in 1..Len(Needed) : Needed[i] \in ToSet(Needed)
    BY <2>1 DEF ToSet
  <2> QED BY <2>1, <2>2 DEF Libraries
<1>3. __ld_preload(program) = <<so>> \o Needed
  BY DEF __ld_preload
<1> HIDE DEF so
<1>4. /\ <<so>> \in Seq(Libraries) /\ <<so>> \o Needed \in Seq(Libraries)
      /\ Len(<<so>> \o Needed) = 1 + Len(Needed) /\ Len(Needed) \in Nat
      /\ (<<so>> \o Needed)[1] = so
  BY <1>1, <1>2
<1>5. 1 \in DOMAIN (<<so>> \o Needed)
  BY <1>4
<1> QED BY <1>3, <1>4, <1>5 DEF ToSet, so

-----------------------------------------------------------------------------
(* The environment of a call *)

(***************************************************************************)
(* It is the same but for the two lists.                                   *)
(***************************************************************************)
LEMMA EnvKept ==
    ASSUME NEW e, EnvOK(e), NEW f, DOMAIN f = DOMAIN e,
           f["LD_PRELOAD"] \in (Seq(Libraries) \ {<<>>}) \cup {NULL},
           f["LD_LIBRARY_PATH"] \in (Seq(LooseEntries) \ {<<>>}) \cup {NULL},
           f["ld_library_path"] = e["ld_library_path"]
    PROVE  EnvOK(f)
BY DEF EnvOK

LEMMA ErrnoIs == \A e, errno : Errno(e, errno).env = e /\ Errno(e, errno).errno = errno
BY DEF Errno

IsErrno(call, e) == \E errno : call = Errno(e, errno)
IsCall(call, e)  == \E file, argv, lists : call = Call(e, file, argv, lists)

LEMMA CallIs ==
    \A e, file, argv, lists :
        LET call == Call(e, file, argv, lists)
        IN  /\ call.env = e /\ call.errno = "" /\ call.file = file
            /\ call.argv = argv /\ call.lists = lists
BY DEF Call

LEMMA EnvOfCall == \A call, e : IsErrno(call, e) \/ IsCall(call, e) => call.env = e
<1> TAKE call, e
<1>1. CASE IsErrno(call, e)
  <2>1. PICK errno : call = Errno(e, errno)
    BY <1>1 DEF IsErrno
  <2> QED BY <2>1, ErrnoIs
<1>2. CASE IsCall(call, e)
  <2>1. PICK file, argv, lists : call = Call(e, file, argv, lists)
    BY <1>2 DEF IsCall
  <2> QED BY <2>1 DEF Call
<1> QED BY <1>1, <1>2

\* The variables of the lists are unset.
Unset(e) == [e EXCEPT !["LD_PRELOAD"] = NULL, !["LD_LIBRARY_PATH"] = NULL]

LEMMA UnsetIs == ASSUME NEW e, EnvOK(e) PROVE EnvOK(Unset(e))
<1>1. DOMAIN e = {"IAMROOT_ROOT", "LD_PRELOAD", "LD_LIBRARY_PATH", "ld_library_path", "argv0"}
  BY DEF EnvOK, Variables
<1>2. /\ DOMAIN Unset(e) = DOMAIN e
      /\ Unset(e)["LD_PRELOAD"] = NULL /\ Unset(e)["LD_LIBRARY_PATH"] = NULL
      /\ Unset(e)["ld_library_path"] = e["ld_library_path"]
  BY <1>1 DEF Unset
<1> HIDE DEF Unset
<1> QED BY <1>2, EnvKept

LEMMA LoaderEnvIs ==
    ASSUME NEW e, EnvOK(e), NEW program, NEW loader, NEW argv0
    PROVE  LET f == LoaderEnv(e, program, loader, argv0)
           IN  /\ EnvOK(f)
               /\ f["IAMROOT_ROOT"] = e["IAMROOT_ROOT"]
               /\ ~Has(program, loader, "--preload") =>
                     f["LD_PRELOAD"] = __ld_preload(program)
               /\ ~Has(program, loader, "--library-path") =>
                     f["LD_LIBRARY_PATH"] = __ld_library_path(e, program)
               /\ f["argv0"] = IF Has(program, loader, "--argv0") THEN e["argv0"] ELSE argv0
<1> DEFINE f == LoaderEnv(e, program, loader, argv0)
           preload == __ld_preload(program)
           libpath == __ld_library_path(e, program)
           H(option) == Has(program, loader, option)
<1>1. DOMAIN e = {"IAMROOT_ROOT", "LD_PRELOAD", "LD_LIBRARY_PATH", "ld_library_path", "argv0"}
  BY DEF EnvOK, Variables
<1>2. f = [e EXCEPT !["LD_PRELOAD"] = IF H("--preload") THEN NULL ELSE preload,
                    !["LD_LIBRARY_PATH"] = IF H("--library-path") THEN NULL ELSE libpath,
                    !["argv0"] = IF H("--argv0") THEN @ ELSE argv0]
  BY DEF LoaderEnv
<1>3. preload \in Seq(Libraries) \ {<<>>}
  BY PreloadIs
<1>4. libpath \in Seq(LooseEntries) /\ libpath # <<>>
  BY LibraryPathIs DEF Rooted
<1> HIDE DEF f, preload, libpath, H
<1>5. /\ DOMAIN f = DOMAIN e
      /\ f["LD_PRELOAD"] = IF H("--preload") THEN NULL ELSE preload
      /\ f["LD_LIBRARY_PATH"] = IF H("--library-path") THEN NULL ELSE libpath
      /\ f["argv0"] = IF H("--argv0") THEN e["argv0"] ELSE argv0
      /\ f["ld_library_path"] = e["ld_library_path"]
      /\ f["IAMROOT_ROOT"] = e["IAMROOT_ROOT"]
  BY <1>1, <1>2
<1>6. EnvOK(f)
  BY <1>3, <1>4, <1>5, EnvKept
<1> QED BY <1>5, <1>6 DEF f, preload, libpath, H

LEMMA PreloadSoIs ==
    ASSUME NEW e, EnvOK(e)
    PROVE  /\ EnvOK(__preload_so(e))
           /\ __preload_so(e)["argv0"] = e["argv0"]
<1> DEFINE so == __getlibiamroot(Files[Running])
           f  == __preload_so(e)
<1>1. DOMAIN e = {"IAMROOT_ROOT", "LD_PRELOAD", "LD_LIBRARY_PATH", "ld_library_path", "argv0"}
  BY DEF EnvOK, Variables
<1>2. so \in Libraries
  BY LibraryIs DEF Libraries
<1>3. <<so>> \in Seq(Libraries) \ {<<>>}
  <2> HIDE DEF so
  <2> QED BY <1>2
<1>4. CASE e["LD_PRELOAD"] = NULL
  <2>1. f = [e EXCEPT !["LD_PRELOAD"] = <<so>>]
    BY <1>4 DEF __preload_so
  <2> HIDE DEF f, so
  <2>2. /\ DOMAIN f = DOMAIN e /\ f["LD_PRELOAD"] = <<so>> /\ f["argv0"] = e["argv0"]
        /\ f["LD_LIBRARY_PATH"] = e["LD_LIBRARY_PATH"]
        /\ f["ld_library_path"] = e["ld_library_path"]
    BY <1>1, <2>1
  <2>3. EnvOK(f)
    BY <1>3, <2>2, EnvKept DEF EnvOK
  <2> QED BY <2>2, <2>3 DEF f
<1>5. CASE e["LD_PRELOAD"] # NULL
  <2>1. CASE "libiamroot.so" \in ToSet(e["LD_PRELOAD"])
    BY <1>5, <2>1 DEF __preload_so
  <2>2. CASE "libiamroot.so" \notin ToSet(e["LD_PRELOAD"])
    <3> DEFINE list == <<so>> \o e["LD_PRELOAD"]
    <3>1. f = [e EXCEPT !["LD_PRELOAD"] = list]
      BY <1>5, <2>2 DEF __preload_so
    <3>2. e["LD_PRELOAD"] \in Seq(Libraries)
      BY <1>5 DEF EnvOK
    <3>3. list \in Seq(Libraries) \ {<<>>}
      <4> HIDE DEF so
      <4>1. <<so>> \in Seq(Libraries) /\ Len(<<so>>) = 1
        BY <1>2
      <4>2. list \in Seq(Libraries) /\ Len(list) = 1 + Len(e["LD_PRELOAD"])
        BY <3>2, <4>1
      <4>3. Len(e["LD_PRELOAD"]) \in Nat
        BY <3>2
      <4> HIDE DEF list
      <4> QED BY <4>2, <4>3
    <3> HIDE DEF f, list
    <3>4. /\ DOMAIN f = DOMAIN e /\ f["LD_PRELOAD"] = list /\ f["argv0"] = e["argv0"]
          /\ f["LD_LIBRARY_PATH"] = e["LD_LIBRARY_PATH"]
          /\ f["ld_library_path"] = e["ld_library_path"]
      BY <1>1, <3>1
    <3>5. EnvOK(f)
      BY <3>3, <3>4, EnvKept DEF EnvOK
    <3> QED BY <3>4, <3>5 DEF f
  <2> QED BY <2>1, <2>2
<1> QED BY <1>4, <1>5

(***************************************************************************)
(* Whatever the call is, its environment is one the library may have left. *)
(***************************************************************************)
LEMMA LdsoEnvIs ==
    ASSUME NEW e, EnvOK(e), NEW path, NEW interparg, NEW rest, NEW nomem
    PROVE  EnvOK(__ldso(e, path, interparg, rest, nomem).env)
<1> DEFINE program == Files[path]
           loader  == Files[path_resolution(e, program.interp)]
           f       == LoaderEnv(e, program, loader, interparg[1])
           call    == __ldso(e, path, interparg, rest, nomem)
<1>1. EnvOK(f)
  BY LoaderEnvIs
<1>2. EnvOK(Unset(e))
  BY UnsetIs
<1>3. IsErrno(call, e) \/ IsErrno(call, Unset(e)) \/ IsCall(call, f)
  BY Zenon DEF __ldso, Unset, IsErrno, IsCall
<1> HIDE DEF call, f
<1>4. call.env = e \/ call.env = Unset(e) \/ call.env = f
  BY <1>3, EnvOfCall
<1>5. EnvOK(call.env)
  BY <1>1, <1>2, <1>4
<1> QED BY <1>5 DEF call

LEMMA CallEnvIs ==
    ASSUME NEW e, EnvOK(e), NEW by, NEW path, NEW argv, NEW nomem
    PROVE  EnvOK(ExecBy(by, e, path, argv, nomem).env)
<1> DEFINE call    == ExecBy(by, e, path, argv, nomem)
           program == Program(e, path, argv)
           shell   == __exec_sh(e, path, argv, nomem)
           ldso    == __ldso(e, program.path, program.interparg, Tail(argv), nomem)
<1>1. EnvOK(ldso.env)
  BY LdsoEnvIs
<1>2. EnvOK(__preload_so(e)) /\ EnvOK(Unset(e))
  BY PreloadSoIs, UnsetIs
<1>3. IsErrno(shell, e) \/ IsCall(shell, Unset(e))
  BY Zenon DEF __exec_sh, Unset, IsErrno, IsCall
<1>4. EnvOK(shell.env)
  <2> HIDE DEF shell
  <2>1. shell.env = e \/ shell.env = Unset(e)
    BY <1>3, EnvOfCall
  <2> QED BY <1>2, <2>1
<1>5. \/ IsErrno(call, e) \/ call = shell \/ call = ldso
      \/ IsCall(call, e) \/ IsCall(call, __preload_so(e))
  BY Zenon DEF ExecBy, IsErrno, IsCall
<1> HIDE DEF call, shell, ldso
<1>6. call.env \in {e, __preload_so(e), shell.env, ldso.env}
  BY <1>5, EnvOfCall
<1>7. EnvOK(call.env)
  BY <1>1, <1>2, <1>4, <1>6
<1> QED BY <1>7 DEF call

-----------------------------------------------------------------------------
(* The types *)

\* The roots are few: what Bounded says of LD_LIBRARY_PATH.
Low(e) ==
    e["LD_LIBRARY_PATH"] # NULL =>
        \A i \in DOMAIN e["LD_LIBRARY_PATH"] : e["LD_LIBRARY_PATH"][i].roots <= MaxRoots

SearchOK(s) ==
    s = NULL \/ s \in [by : {"execve", "posix_spawn"}, left : Words, argv : Argvs, envp : Envps]

\* The inductive invariant.
IInv == EnvOK(env) /\ Low(env) /\ preloaded \in BOOLEAN /\ SearchOK(search)

LEMMA TypeHolds == IInv => ExecTypeOK
<1> SUFFICES ASSUME IInv PROVE ExecTypeOK
  OBVIOUS
<1> DEFINE path == env["LD_LIBRARY_PATH"]
<1>1. ASSUME path # NULL PROVE path \in Seq(Entries) \ {<<>>}
  <2>1. path \in Seq(LooseEntries) \ {<<>>}
    BY <1>1 DEF IInv, EnvOK
  <2>2. \A i \in DOMAIN path : path[i].roots <= MaxRoots
    BY <1>1 DEF IInv, Low
  <2>3. \A entry \in LooseEntries : entry.roots <= MaxRoots => entry \in Entries
    BY ExecAssumption DEF LooseEntries, Entries
  <2> HIDE DEF path
  <2>4. DOMAIN path = 1..Len(path) /\ \A i \in 1..Len(path) : path[i] \in LooseEntries
    BY <2>1
  <2>5. \A i \in 1..Len(path) : path[i] \in Entries
    BY <2>2, <2>3, <2>4
  <2> QED BY <2>1, <2>5
<1>2. search = NULL \/ search.left # <<>>
  BY DEF IInv, SearchOK, Words
<1> QED BY <1>1, <1>2 DEF IInv, EnvOK, ExecTypeOK

LEMMA NoVariablesOK == EnvOK(NoVariables) /\ Low(NoVariables)
BY DEF NoVariables, Variables, EnvOK, Low

LEMMA Reset ==
    ASSUME NEW e, EnvOK(e), NEW envp \in Envps
    PROVE  EnvOK(_resetenv(e, envp))
<1>1. CASE envp = NULL
  BY <1>1 DEF _resetenv
<1>2. CASE envp # NULL
  <2> DEFINE f == [NoVariables EXCEPT !["IAMROOT_ROOT"] = e["IAMROOT_ROOT"]]
  <2>1. _resetenv(e, envp) = f
    BY <1>2 DEF _resetenv, Envps
  <2>2. DOMAIN NoVariables = Variables
    BY DEF NoVariables
  <2>3. /\ DOMAIN f = DOMAIN NoVariables
        /\ \A name \in Variables \ {"IAMROOT_ROOT"} : f[name] = NoVariables[name]
    BY <2>2
  <2> HIDE DEF f
  <2>4. EnvOK(f)
    BY <2>3, NoVariablesOK DEF EnvOK, Variables
  <2> QED BY <2>1, <2>4
<1> QED BY <1>1, <1>2

LEMMA BoundedIsLow == \A e : Bounded(e) => Low(e)
BY DEF Bounded, Low

LEMMA Executing ==
    ASSUME NEW call, EnvOK(call.env), Executed(call)
    PROVE  EnvOK(env') /\ Low(env') /\ preloaded' \in BOOLEAN
<1>1. env' = call.env /\ Bounded(call.env) /\ preloaded' = Preloads(Run(call))
  BY DEF Executed
<1>2. Preloads(Run(call)) \in BOOLEAN
  BY DEF Preloads
<1> QED BY <1>1, <1>2, BoundedIsLow

LEMMA Returning ==
    ASSUME NEW call, EnvOK(call.env), Returned(call), preloaded \in BOOLEAN
    PROVE  EnvOK(env') /\ Low(env') /\ preloaded' \in BOOLEAN
<1>1. env' = call.env /\ Bounded(call.env) /\ preloaded' = preloaded
  BY DEF Returned
<1> QED BY <1>1, BoundedIsLow

LEMMA NotResolved ==
    ASSUME IInv, NEW envp \in Envps, Unresolved(envp)
    PROVE  EnvOK(env') /\ Low(env') /\ preloaded' \in BOOLEAN
<1> DEFINE call == Errno(_resetenv(env, envp), "ELOOP")
<1>1. call.env = _resetenv(env, envp)
  BY ErrnoIs
<1>2. EnvOK(_resetenv(env, envp))
  BY Reset DEF IInv
<1>3. Returned(call) /\ preloaded \in BOOLEAN
  BY DEF Unresolved, IInv
<1> HIDE DEF call
<1>4. EnvOK(call.env)
  BY <1>1, <1>2
<1> QED BY <1>3, <1>4, Returning

LEMMA ExecKeeps ==
    ASSUME IInv, NEW by, NEW path, NEW argv, NEW envp \in Envps, Exec(by, path, argv, envp)
    PROVE  IInv'
<1>1. search' = search /\ SearchOK(search) /\ preloaded \in BOOLEAN
  BY DEF Exec, IInv
<1>2. CASE Unresolved(envp)
  BY <1>1, <1>2, NotResolved DEF IInv
<1>3. ASSUME NEW nomem \in BOOLEAN,
             NEW call \in {ExecBy(by, _resetenv(env, envp), path, argv, nomem)},
             Executed(call) \/ Returned(call)
      PROVE  IInv'
  <2>1. EnvOK(_resetenv(env, envp))
    BY Reset DEF IInv
  <2>2. EnvOK(call.env)
    BY <2>1, CallEnvIs
  <2> QED BY <1>1, <1>3, <2>2, Executing, Returning DEF IInv
<1> QED BY <1>2, <1>3 DEF Exec

LEMMA SearchCallKeeps ==
    ASSUME IInv, SearchNext
    PROVE  IInv'
<1> DEFINE e == _resetenv(env, search.envp)
<1>1. /\ search \in [by : {"execve", "posix_spawn"}, left : Words, argv : Argvs, envp : Envps]
      /\ preloaded \in BOOLEAN
  BY DEF SearchNext, IInv, SearchOK
<1>2. EnvOK(e)
  BY <1>1, Reset DEF IInv
<1>3. SearchOK(NULL)
  BY DEF SearchOK
<1>4. CASE Unresolved(search.envp) /\ search' = NULL
  BY <1>1, <1>3, <1>4, NotResolved DEF IInv
<1>5. \A nomem : EnvOK(SearchCall(nomem).env)
  <2> HIDE DEF e
  <2>1. \A by, path, argv, nomem : EnvOK(ExecBy(by, e, path, argv, nomem).env)
    BY <1>2, CallEnvIs
  <2> QED BY <2>1 DEF SearchCall, e
<1>6. ASSUME NEW nomem \in BOOLEAN, NEW call \in {SearchCall(nomem)},
             Executed(call), search' = NULL
      PROVE  IInv'
  BY <1>3, <1>5, <1>6, Executing DEF IInv
<1>7. ASSUME NEW nomem \in BOOLEAN, NEW call \in {SearchCall(nomem)}, Returned(call),
             \/ search' = NULL
             \/ Left(search) # <<>> /\ search' = [search EXCEPT !.left = Left(search)]
      PROVE  IInv'
  <2>1. Left(search) # <<>> => [search EXCEPT !.left = Left(search)]
           \in [by : {"execve", "posix_spawn"}, left : Words, argv : Argvs, envp : Envps]
    <3> DEFINE left == Left(search)
    <3>1. left \in Seq(STRING)
      BY <1>1 DEF Left, Words
    <3>2. left # <<>> => left \in Words
      BY <3>1 DEF Words
    <3> HIDE DEF left
    <3>3. left \in Words => [search EXCEPT !.left = left]
             \in [by : {"execve", "posix_spawn"}, left : Words, argv : Argvs, envp : Envps]
      BY <1>1
    <3> QED BY <3>2, <3>3 DEF left
  <2>2. SearchOK(search')
    BY <1>3, <1>7, <2>1 DEF SearchOK
  <2>3. EnvOK(env') /\ Low(env') /\ preloaded' \in BOOLEAN
    BY <1>1, <1>5, <1>7, Returning
  <2> QED BY <2>2, <2>3 DEF IInv
<1> QED BY <1>4, <1>6, <1>7 DEF SearchNext

LEMMA fexecveKeeps ==
    ASSUME IInv, NEW path, NEW argv, NEW e \in {env, NoVariables}, fexecve(path, argv, e)
    PROVE  IInv'
<1>1. search' = search /\ SearchOK(search) /\ EnvOK(e)
  BY NoVariablesOK DEF fexecve, IInv
<1>2. ASSUME NEW file, Executed(Call(e, file, argv, <<>>)) PROVE IInv'
  <2> DEFINE call == Call(e, file, argv, <<>>)
  <2>1. call.env = e
    BY DEF Call
  <2>2. Executed(call)
    BY <1>2
  <2> HIDE DEF call
  <2>3. EnvOK(call.env)
    BY <1>1, <2>1
  <2> QED BY <1>1, <2>2, <2>3, Executing DEF IInv
<1>3. ASSUME UNCHANGED <<env, preloaded>> PROVE IInv'
  BY <1>1, <1>3 DEF IInv
<1> QED BY <1>2, <1>3 DEF fexecve

LEMMA SearchKeeps ==
    ASSUME IInv, NEW by \in {"execve", "posix_spawn"}, NEW names \in Searches,
           NEW argv \in Argvs, NEW envp \in Envps, Search(by, names, argv, envp)
    PROVE  IInv'
<1>1. names \in Words
  BY ExecAssumption
<1>2. search' \in [by : {"execve", "posix_spawn"}, left : Words, argv : Argvs, envp : Envps]
  BY <1>1 DEF Search
<1>3. env' = env /\ preloaded' = preloaded
  BY DEF Search
<1> QED BY <1>2, <1>3 DEF IInv, SearchOK

LEMMA RootKeeps ==
    ASSUME IInv, NEW root, Root(root)
    PROVE  IInv'
<1>1. env' = [env EXCEPT !["IAMROOT_ROOT"] = root] /\ preloaded' = preloaded /\ search' = search
  BY DEF Root
<1>2. DOMAIN env = Variables
  BY DEF IInv, EnvOK
<1>3. /\ DOMAIN env' = Variables
      /\ \A name \in Variables \ {"IAMROOT_ROOT"} : env'[name] = env[name]
  BY <1>1, <1>2
<1>4. /\ env'["LD_PRELOAD"] = env["LD_PRELOAD"]
      /\ env'["LD_LIBRARY_PATH"] = env["LD_LIBRARY_PATH"]
      /\ env'["ld_library_path"] = env["ld_library_path"]
  BY <1>3 DEF Variables
<1>5. EnvOK(env')
  BY <1>3, <1>4 DEF IInv, EnvOK
<1>6. Low(env')
  BY <1>4 DEF IInv, Low
<1> QED BY <1>1, <1>5, <1>6 DEF IInv

LEMMA setenvKeeps ==
    ASSUME IInv, NEW name \in DOMAIN Own, NEW value \in {Own[name], NULL}, setenv(name, value)
    PROVE  IInv'
<1>1. env' = [env EXCEPT ![name] = value] /\ preloaded' = preloaded /\ search' = search
  BY DEF setenv
<1>2. DOMAIN env = Variables
  BY DEF IInv, EnvOK
<1>3. DOMAIN Own = {"LD_PRELOAD", "LD_LIBRARY_PATH"}
  BY ExecAssumption
<1>4. DOMAIN env' = Variables /\ env'["ld_library_path"] = env["ld_library_path"]
  BY <1>1, <1>2, <1>3 DEF Variables
<1>5. CASE name = "LD_PRELOAD"
  <2> DEFINE list == Own["LD_PRELOAD"]
  <2>1. list \in Seq(Libraries) \ {<<>>}
    <3>1. list \in Seq(STRING) \ {<<>>}
      BY ExecAssumption DEF Words
    <3>2. \A i \in DOMAIN list : list[i] \in Libraries
      BY DEF Libraries, ToSet
    <3> HIDE DEF list
    <3>3. DOMAIN list = 1..Len(list) /\ Len(list) \in Nat
      BY <3>1
    <3> QED BY <3>1, <3>2, <3>3
  <2>2. /\ env'["LD_PRELOAD"] = value /\ value \in {list, NULL}
        /\ env'["LD_LIBRARY_PATH"] = env["LD_LIBRARY_PATH"]
    BY <1>1, <1>2, <1>5 DEF Variables
  <2> HIDE DEF list
  <2>3. EnvOK(env')
    BY <1>4, <2>1, <2>2 DEF IInv, EnvOK
  <2>4. Low(env')
    BY <2>2 DEF IInv, Low
  <2> QED BY <1>1, <2>3, <2>4 DEF IInv
<1>6. CASE name = "LD_LIBRARY_PATH"
  <2> DEFINE path == Own["LD_LIBRARY_PATH"]
             S    == [roots : {0}, dir : STRING]
  <2>1. path \in Seq(S) \ {<<>>} /\ MaxRoots \in Nat
    BY ExecAssumption
  <2>2. \A entry \in S : entry \in LooseEntries /\ entry.roots = 0
    BY DEF LooseEntries
  <2> HIDE DEF path, S
  <2>3. DOMAIN path = 1..Len(path) /\ \A i \in 1..Len(path) : path[i] \in S
    BY <2>1
  <2>4. \A i \in 1..Len(path) : path[i] \in LooseEntries /\ path[i].roots <= MaxRoots
    BY <2>1, <2>2, <2>3
  <2>5. path \in Seq(LooseEntries) \ {<<>>}
    BY <2>1, <2>4
  <2>6. /\ env'["LD_LIBRARY_PATH"] = value /\ value \in {path, NULL}
        /\ env'["LD_PRELOAD"] = env["LD_PRELOAD"]
    BY <1>1, <1>2, <1>6 DEF Variables, path
  <2>7. EnvOK(env')
    BY <1>4, <2>5, <2>6 DEF IInv, EnvOK
  <2>8. Low(env')
    BY <2>3, <2>4, <2>6 DEF Low
  <2> QED BY <1>1, <2>7, <2>8 DEF IInv
<1> QED BY <1>3, <1>5, <1>6

(***************************************************************************)
(* The invariant is inductive: one step for each action.                   *)
(***************************************************************************)
LEMMA Started == Init => IInv
<1> SUFFICES ASSUME Init PROVE IInv
  OBVIOUS
<1>1. env = [NoVariables EXCEPT !["LD_PRELOAD"] = <<"libiamroot.so">>]
  BY DEF Init
<1>2. <<"libiamroot.so">> \in Seq(Libraries) \ {<<>>}
  BY DEF Libraries
<1>3. DOMAIN NoVariables = Variables
  BY DEF NoVariables
<1>4. /\ DOMAIN env = Variables /\ env["LD_PRELOAD"] = <<"libiamroot.so">>
      /\ env["LD_LIBRARY_PATH"] = NoVariables["LD_LIBRARY_PATH"]
      /\ env["ld_library_path"] = NoVariables["ld_library_path"]
  BY <1>1, <1>3 DEF Variables
<1>5. EnvOK(env) /\ Low(env)
  BY <1>2, <1>4, NoVariablesOK DEF EnvOK, Low
<1> QED BY <1>5 DEF Init, IInv, SearchOK

LEMMA Kept == IInv /\ [Next]_vars => IInv'
<1> SUFFICES ASSUME IInv, [Next]_vars PROVE IInv'
  OBVIOUS
<1>0. NULL \in Envps
  BY DEF Envps
<1>1. ASSUME NEW path \in Paths, NEW argv \in Argvs, NEW envp \in Envps,
             \/ execve(path, argv, envp) \/ execveat(path, argv, envp)
             \/ posix_spawn(path, argv, envp) \/ execle(path, argv, envp)
      PROVE  IInv'
  BY <1>1, ExecKeeps DEF execve, execveat, posix_spawn, execle
<1>2. ASSUME NEW path \in Paths, NEW argv \in Argvs, execl(path, argv) PROVE IInv'
  BY <1>0, <1>2, ExecKeeps DEF execl, execve
<1>3. ASSUME NEW path \in Paths, NEW argv \in Argvs, NEW e \in {env, NoVariables},
             fexecve(path, argv, e)
      PROVE  IInv'
  BY <1>3, fexecveKeeps
<1>4. ASSUME NEW names \in Searches, NEW argv \in Argvs, NEW envp \in Envps,
             execvpe(names, argv, envp) \/ posix_spawnp(names, argv, envp)
      PROVE  IInv'
  BY <1>4, SearchKeeps DEF execvpe, posix_spawnp
<1>5. ASSUME NEW names \in Searches, NEW argv \in Argvs,
             execvp(names, argv) \/ execv(names, argv) \/ execlp(names, argv)
      PROVE  IInv'
  BY <1>0, <1>5, SearchKeeps DEF execvp, execv, execlp, execvpe
<1>6. CASE SearchNext
  BY <1>6, SearchCallKeeps
<1>7. ASSUME NEW root \in {NULL, "/rt"}, Root(root) PROVE IInv'
  BY <1>7, RootKeeps
<1>8. ASSUME NEW name \in DOMAIN Own, setenv(name, Own[name]) \/ setenv(name, NULL)
      PROVE  IInv'
  BY <1>8, setenvKeeps
<1>9. CASE UNCHANGED vars
  BY <1>9 DEF vars, IInv
<1> QED BY <1>1, <1>2, <1>3, <1>4, <1>5, <1>6, <1>7, <1>8, <1>9 DEF Next

LEMMA Invariance == Spec => []IInv
BY Started, Kept, PTL DEF Spec

(***************************************************************************)
(* Type correctness: LD_PRELOAD and LD_LIBRARY_PATH are unset or have      *)
(* libraries and directories, however the calls follow each other, fail,   *)
(* and are given environments of the program.                              *)
(***************************************************************************)
THEOREM ExecTyping == Spec => []ExecTypeOK
BY Invariance, TypeHolds, PTL

-----------------------------------------------------------------------------
(* The loader's command line *)

\* The strings; the provers take what is said of all sets for this one, while they
\* have rules of their own for STRING.
Texts == STRING

(***************************************************************************)
(* A loader that knows the options of "knows" has been told those of       *)
(* "told" by s, the first of which is its own name: each is followed by    *)
(* its value, which does not read like one, and argv0 is that of --argv0.  *)
(***************************************************************************)
Telling(s, knows, told, argv0) ==
    /\ s \in Seq(Texts) /\ Len(s) >= 1
    /\ \A k \in 2..Len(s) :
          /\ s[k] \in Known => s[k] \in knows \cap told
          /\ s[k] \in Valued => k < Len(s) /\ s[k + 1] \notin Known
          /\ s[k] \notin Known => k > 2 /\ s[k - 1] \in Valued
          /\ s[k] = "--argv0" => s[k + 1] = argv0
    /\ \A option \in told : \E k \in 2..Len(s) : s[k] = option

LEMMA OptionsAreTexts == Known \subseteq Texts
BY ExecAssumption DEF Literals, Texts

LEMMA TellsName ==
    ASSUME NEW interp \in Texts, NEW knows, NEW argv0
    PROVE  Telling(<<interp>>, knows, {}, argv0) /\ Len(<<interp>>) = 1
<1> DEFINE s == <<interp>>
<1>1. s \in Seq(Texts) /\ Len(s) = 1
  OBVIOUS
<1>2. 2..Len(s) = {}
  BY <1>1
<1> HIDE DEF s
<1>3. Telling(s, knows, {}, argv0)
  BY <1>1, <1>2 DEF Telling
<1> QED BY <1>1, <1>3 DEF s

(***************************************************************************)
(* Two sequences, one after the other.                                     *)
(***************************************************************************)
LEMMA Joined ==
    ASSUME NEW S, NEW s \in Seq(S), NEW t \in Seq(S)
    PROVE  /\ s \o t \in Seq(S) /\ Len(s \o t) = Len(s) + Len(t)
           /\ Len(s) \in Nat /\ Len(t) \in Nat
           /\ \A k \in 1..Len(s) : (s \o t)[k] = s[k]
           /\ \A k \in 1..Len(t) : (s \o t)[Len(s) + k] = t[k]
<1>1. /\ s \o t \in Seq(S) /\ Len(s \o t) = Len(s) + Len(t)
      /\ Len(s) \in Nat /\ Len(t) \in Nat
  OBVIOUS
<1>2. \A k \in 1..Len(s) : (s \o t)[k] = s[k]
  OBVIOUS
<1>3. ASSUME NEW k \in 1..Len(t) PROVE (s \o t)[Len(s) + k] = t[k]
  OBVIOUS
<1> QED BY <1>1, <1>2, <1>3

\* The same of a sequence and one or two more elements.
LEMMA Two ==
    ASSUME NEW s \in Seq(Texts), NEW a \in Texts, NEW b \in Texts
    PROVE  LET t == s \o <<a, b>>
           IN  /\ t \in Seq(Texts) /\ Len(t) = Len(s) + 2
               /\ \A k \in 1..Len(s) : t[k] = s[k]
               /\ t[Len(s) + 1] = a /\ t[Len(s) + 2] = b
<1> DEFINE u == <<a, b>>
<1>1. u \in Seq(Texts) /\ Len(u) = 2 /\ u[1] = a /\ u[2] = b
  OBVIOUS
<1>0. u \in Seq(Texts)
  BY <1>1
<1> HIDE DEF u
<1>2. /\ s \o u \in Seq(Texts) /\ Len(s \o u) = Len(s) + Len(u)
      /\ \A k \in 1..Len(s) : (s \o u)[k] = s[k]
      /\ \A k \in 1..Len(u) : (s \o u)[Len(s) + k] = u[k]
  BY <1>0, Joined
<1>3. 1 \in 1..Len(u) /\ 2 \in 1..Len(u)
  BY <1>1
<1> QED BY <1>1, <1>2, <1>3 DEF u

LEMMA One ==
    ASSUME NEW s \in Seq(Texts), NEW a \in Texts
    PROVE  LET t == s \o <<a>>
           IN  /\ t \in Seq(Texts) /\ Len(t) = Len(s) + 1
               /\ \A k \in 1..Len(s) : t[k] = s[k]
               /\ t[Len(s) + 1] = a
<1> DEFINE u == <<a>>
<1>1. u \in Seq(Texts) /\ Len(u) = 1 /\ u[1] = a
  OBVIOUS
<1> HIDE DEF u
<1>2. /\ s \o u \in Seq(Texts) /\ Len(s \o u) = Len(s) + Len(u)
      /\ \A k \in 1..Len(s) : (s \o u)[k] = s[k]
      /\ \A k \in 1..Len(u) : (s \o u)[Len(s) + k] = u[k]
  BY <1>1, Joined
<1>3. 1 \in 1..Len(u)
  BY <1>1
<1> QED BY <1>1, <1>2, <1>3 DEF u

LEMMA TellsValue ==
    ASSUME NEW s, NEW knows, NEW told, NEW argv0, Telling(s, knows, told, argv0),
           NEW option \in Valued \cap knows, NEW value \in Texts \ Known,
           option = "--argv0" => value = argv0
    PROVE  /\ Telling(s \o <<option, value>>, knows, told \cup {option}, argv0)
           /\ Len(s \o <<option, value>>) = Len(s) + 2
<1> DEFINE t == s \o <<option, value>>
           n == Len(s)
<1>1. option \in Texts /\ option \in Known
  BY OptionsAreTexts DEF Known
<1>2. s \in Seq(Texts) /\ n \in Nat /\ n >= 1
  BY DEF Telling
<1>3. /\ t \in Seq(Texts) /\ Len(t) = n + 2
      /\ \A k \in 1..n : t[k] = s[k]
      /\ t[n + 1] = option /\ t[n + 2] = value
  BY <1>1, <1>2, Two
<1>4. \A k \in 2..n :
          /\ s[k] \in Known => s[k] \in knows \cap told
          /\ s[k] \in Valued => k < n /\ s[k + 1] \notin Known
          /\ s[k] \notin Known => k > 2 /\ s[k - 1] \in Valued
          /\ s[k] = "--argv0" => s[k + 1] = argv0
  BY DEF Telling
<1>5. \A o \in told : \E k \in 2..n : s[k] = o
  BY DEF Telling
<1> HIDE DEF t, n
<1>6. "--argv0" \in Valued /\ Valued \subseteq Known
  BY DEF Valued, Known
<1>7. ASSUME NEW k \in 2..(n + 2)
      PROVE  /\ t[k] \in Known => t[k] \in knows \cap (told \cup {option})
             /\ t[k] \in Valued => k < n + 2 /\ t[k + 1] \notin Known
             /\ t[k] \notin Known => k > 2 /\ t[k - 1] \in Valued
             /\ t[k] = "--argv0" => t[k + 1] = argv0
  <2>1. CASE k \in 2..n
    <3>1. t[k] = s[k] /\ t[k - 1] = s[k - 1]
      BY <1>2, <1>3, <2>1
    <3>2. k < n => t[k + 1] = s[k + 1]
      BY <1>2, <1>3, <2>1
    <3> QED BY <1>2, <1>4, <1>6, <2>1, <3>1, <3>2
  <2>2. CASE k = n + 1
    <3>1. k + 1 = n + 2 /\ k < n + 2
      BY <1>2, <2>2
    <3> QED BY <1>1, <1>3, <2>2, <3>1
  <2>3. CASE k = n + 2
    <3>1. k - 1 = n + 1 /\ k > 2
      BY <1>2, <2>3
    <3> QED BY <1>3, <1>6, <2>3, <3>1
  <2> QED BY <1>2, <2>1, <2>2, <2>3
<1>8. ASSUME NEW o \in told \cup {option} PROVE \E k \in 2..(n + 2) : t[k] = o
  <2>1. CASE o = option
    <3>1. n + 1 \in 2..(n + 2)
      BY <1>2
    <3> QED BY <1>3, <2>1, <3>1
  <2>2. CASE o # option
    <3>1. PICK k \in 2..n : s[k] = o
      BY <1>5, <2>2
    <3>2. k \in 2..(n + 2) /\ t[k] = o
      BY <1>2, <1>3, <3>1
    <3> QED BY <3>2
  <2> QED BY <2>1, <2>2
<1>9. Telling(t, knows, told \cup {option}, argv0)
  <2>1. Len(t) >= 1
    BY <1>2, <1>3
  <2>2. \A k \in 2..Len(t) :
          /\ t[k] \in Known => t[k] \in knows \cap (told \cup {option})
          /\ t[k] \in Valued => k < Len(t) /\ t[k + 1] \notin Known
          /\ t[k] \notin Known => k > 2 /\ t[k - 1] \in Valued
          /\ t[k] = "--argv0" => t[k + 1] = argv0
    BY <1>3, <1>7
  <2>3. \A o \in told \cup {option} : \E k \in 2..Len(t) : t[k] = o
    BY <1>3, <1>8
  <2> QED BY <1>3, <2>1, <2>2, <2>3 DEF Telling
<1> QED BY <1>3, <1>9 DEF t, n

LEMMA TellsOption ==
    ASSUME NEW s, NEW knows, NEW told, NEW argv0, Telling(s, knows, told, argv0),
           NEW option \in (Known \ Valued) \cap knows
    PROVE  /\ Telling(s \o <<option>>, knows, told \cup {option}, argv0)
           /\ Len(s \o <<option>>) = Len(s) + 1
<1> DEFINE t == s \o <<option>>
           n == Len(s)
<1>1. option \in Texts /\ option \in Known
  BY OptionsAreTexts
<1>2. s \in Seq(Texts) /\ n \in Nat /\ n >= 1
  BY DEF Telling
<1>3. /\ t \in Seq(Texts) /\ Len(t) = n + 1
      /\ \A k \in 1..n : t[k] = s[k]
      /\ t[n + 1] = option
  BY <1>1, <1>2, One
<1>4. \A k \in 2..n :
          /\ s[k] \in Known => s[k] \in knows \cap told
          /\ s[k] \in Valued => k < n /\ s[k + 1] \notin Known
          /\ s[k] \notin Known => k > 2 /\ s[k - 1] \in Valued
          /\ s[k] = "--argv0" => s[k + 1] = argv0
  BY DEF Telling
<1>5. \A o \in told : \E k \in 2..n : s[k] = o
  BY DEF Telling
<1> HIDE DEF t, n
<1>6. "--argv0" \in Valued /\ Valued \subseteq Known
  BY DEF Valued, Known
<1>7. ASSUME NEW k \in 2..(n + 1)
      PROVE  /\ t[k] \in Known => t[k] \in knows \cap (told \cup {option})
             /\ t[k] \in Valued => k < n + 1 /\ t[k + 1] \notin Known
             /\ t[k] \notin Known => k > 2 /\ t[k - 1] \in Valued
             /\ t[k] = "--argv0" => t[k + 1] = argv0
  <2>1. CASE k \in 2..n
    <3>1. t[k] = s[k] /\ t[k - 1] = s[k - 1]
      BY <1>2, <1>3, <2>1
    <3>2. k < n => t[k + 1] = s[k + 1]
      BY <1>2, <1>3, <2>1
    <3> QED BY <1>2, <1>4, <1>6, <2>1, <3>1, <3>2
  <2>2. CASE k = n + 1
    BY <1>1, <1>3, <1>6, <2>2
  <2> QED BY <1>2, <2>1, <2>2
<1>8. ASSUME NEW o \in told \cup {option} PROVE \E k \in 2..(n + 1) : t[k] = o
  <2>1. CASE o = option
    <3>1. n + 1 \in 2..(n + 1)
      BY <1>2
    <3> QED BY <1>3, <2>1, <3>1
  <2>2. CASE o # option
    <3>1. PICK k \in 2..n : s[k] = o
      BY <1>5, <2>2
    <3>2. k \in 2..(n + 1) /\ t[k] = o
      BY <1>2, <1>3, <3>1
    <3> QED BY <3>2
  <2> QED BY <2>1, <2>2
<1>9. Telling(t, knows, told \cup {option}, argv0)
  <2>1. Len(t) >= 1
    BY <1>2, <1>3
  <2>2. \A k \in 2..Len(t) :
          /\ t[k] \in Known => t[k] \in knows \cap (told \cup {option})
          /\ t[k] \in Valued => k < Len(t) /\ t[k + 1] \notin Known
          /\ t[k] \notin Known => k > 2 /\ t[k - 1] \in Valued
          /\ t[k] = "--argv0" => t[k + 1] = argv0
    BY <1>3, <1>7
  <2>3. \A o \in told \cup {option} : \E k \in 2..Len(t) : t[k] = o
    BY <1>3, <1>8
  <2> QED BY <1>3, <2>1, <2>2, <2>3 DEF Telling
<1> QED BY <1>3, <1>9 DEF t, n

\* The same when the loader may not have the option.
With(told, has, option) == IF has THEN told \cup {option} ELSE told
Tell(s, has, option, value) == s \o (IF has THEN <<option, value>> ELSE <<>>)
TellOption(s, has, option)  == s \o (IF has THEN <<option>> ELSE <<>>)

LEMMA TellsIf ==
    ASSUME NEW s, NEW knows, NEW told, NEW argv0, Telling(s, knows, told, argv0),
           NEW option \in Valued, NEW value \in Texts \ Known,
           option = "--argv0" => value = argv0,
           NEW has \in BOOLEAN, has => option \in knows
    PROVE  LET t == Tell(s, has, option, value)
           IN  /\ Telling(t, knows, With(told, has, option), argv0)
               /\ Len(t) = Len(s) + (IF has THEN 2 ELSE 0)
<1>1. s \in Seq(Texts)
  BY DEF Telling
<1>2. s \o <<>> = s /\ Len(s) \in Nat
  BY <1>1
<1>3. CASE has
  BY <1>3, TellsValue DEF With, Tell
<1>4. CASE ~has
  BY <1>2, <1>4 DEF With, Tell
<1> QED BY <1>3, <1>4

LEMMA TellsOptionIf ==
    ASSUME NEW s, NEW knows, NEW told, NEW argv0, Telling(s, knows, told, argv0),
           NEW option \in Known \ Valued,
           NEW has \in BOOLEAN, has => option \in knows
    PROVE  LET t == TellOption(s, has, option)
           IN  /\ Telling(t, knows, With(told, has, option), argv0)
               /\ Len(t) = Len(s) + (IF has THEN 1 ELSE 0)
<1>1. s \in Seq(Texts)
  BY DEF Telling
<1>2. s \o <<>> = s /\ Len(s) \in Nat
  BY <1>1
<1>3. CASE has
  BY <1>3, TellsOption DEF With, TellOption
<1>4. CASE ~has
  BY <1>2, <1>4 DEF With, TellOption
<1> QED BY <1>3, <1>4

(***************************************************************************)
(* What Options() puts before the program tells the loader exactly the     *)
(* options that the library believes it has, in as many places as shift()  *)
(* makes.                                                                  *)
(***************************************************************************)
Tells(s, program, loader, argv0) ==
    \E told :
        /\ Telling(s, loader.knows, told, argv0)
        /\ \A option \in {"--preload", "--library-path", "--argv0"} :
              option \in told <=> Has(program, loader, option)

LEMMA OptionsTell ==
    ASSUME NEW program, NEW loader, loader.knows \subseteq Known, Shift(program) = 1,
           \A option \in Known : Has(program, loader, option) => option \in loader.knows,
           NEW interp \in Texts, NEW argv0 \in Texts \ Known
    PROVE  LET s == Options(interp, program, loader, argv0)
           IN  /\ Tells(s, program, loader, argv0)
               /\ Len(s) = shift(program, loader) /\ Len(s) \in 1..10
               /\ s \in Seq(Texts) /\ s[1] = interp
<1> DEFINE H(option) == Has(program, loader, option)
           knows == loader.knows
           h1 == H("--preload")
           h2 == H("--library-path")
           h3 == H("--inhibit-rpath") /\ InhibitRpath # ""
           h4 == H("--inhibit-cache")
           h5 == H("--argv0")
           o1 == "--preload"
           o2 == "--library-path"
           o3 == "--inhibit-rpath"
           o4 == "--inhibit-cache"
           o5 == "--argv0"
           v1 == "ld_preload"
           v2 == "ld_library_path"
           v3 == InhibitRpath
           s0 == <<interp>>
           s1 == Tell(s0, h1, o1, v1)
           s2 == Tell(s1, h2, o2, v2)
           s3 == Tell(s2, h3, o3, v3)
           s4 == TellOption(s3, h4, o4)
           s5 == Tell(s4, h5, o5, argv0)
           t1 == With({}, h1, o1)
           t2 == With(t1, h2, o2)
           t3 == With(t2, h3, o3)
           t4 == With(t3, h4, o4)
           t5 == With(t4, h5, o5)
<1>1. Options(interp, program, loader, argv0) = s5
  BY DEF Options, Tell, TellOption
<1>2. h1 \in BOOLEAN /\ h2 \in BOOLEAN /\ h3 \in BOOLEAN /\ h4 \in BOOLEAN /\ h5 \in BOOLEAN
  BY DEF Has
<1>3. /\ h1 => o1 \in knows
      /\ h2 => o2 \in knows
      /\ h3 => o3 \in knows
      /\ h4 => o4 \in knows
      /\ h5 => o5 \in knows
  BY DEF Known, Valued
<1>4. /\ v1 \in Texts \ Known /\ v2 \in Texts \ Known
      /\ v3 \in Texts \ Known
  <2>1. InhibitRpath \in Texts \ Known /\ Literals \subseteq Texts
    BY ExecAssumption DEF Texts
  <2> QED BY <2>1 DEF Literals, Known, Valued
<1>5. /\ o1 \in Valued /\ o2 \in Valued /\ o3 \in Valued /\ o5 \in Valued
      /\ o4 \in Known \ Valued
  BY DEF Valued, Known
<1>6. shift(program, loader) = 1 + (IF h5 THEN 2 ELSE 0) + (IF h1 THEN 2 ELSE 0)
         + (IF h2 THEN 2 ELSE 0) + (IF h3 THEN 2 ELSE 0) + (IF h4 THEN 1 ELSE 0)
  BY DEF shift, shift_uncached
<1>7. o1 # "--argv0" /\ o2 # "--argv0" /\ o3 # "--argv0"
  OBVIOUS
<1>8. /\ h1 <=> H("--preload")
      /\ h2 <=> H("--library-path")
      /\ h5 <=> H("--argv0")
  OBVIOUS
<1> HIDE DEF h1, h2, h3, h4, h5, knows, H, o1, o2, o3, o4, o5, v1, v2, v3
<1>10. Telling(s0, knows, {}, argv0) /\ Len(s0) = 1
  BY TellsName
<1>9. \A s, told, option, value, has :
          /\ option \in Valued /\ value \in Texts \ Known /\ has \in BOOLEAN
          /\ Telling(s, knows, told, argv0) /\ (option # "--argv0" \/ value = argv0)
          /\ has => option \in knows
          => /\ Telling(Tell(s, has, option, value), knows, With(told, has, option), argv0)
             /\ Len(Tell(s, has, option, value)) = Len(s) + (IF has THEN 2 ELSE 0)
  BY TellsIf
<1> HIDE DEF s0
<1>11. Telling(s1, knows, t1, argv0) /\ Len(s1) = Len(s0) + (IF h1 THEN 2 ELSE 0)
  <2>1. o1 \in Valued /\ v1 \in Texts \ Known /\ h1 \in BOOLEAN
    BY <1>2, <1>4, <1>5
  <2>2. (o1 # "--argv0" \/ v1 = argv0) /\ (h1 => o1 \in knows)
    BY <1>3, <1>7
  <2>3. Telling(s0, knows, {}, argv0)
    BY <1>10
  <2>4. Telling(s1, knows, t1, argv0)
    BY <2>1, <2>2, <2>3, <1>9
  <2>5. Len(s1) = Len(s0) + (IF h1 THEN 2 ELSE 0)
    BY <2>1, <2>2, <2>3, <1>9
  <2> QED BY <2>4, <2>5
<1> HIDE DEF s1, t1
<1>12. Telling(s2, knows, t2, argv0) /\ Len(s2) = Len(s1) + (IF h2 THEN 2 ELSE 0)
  <2>1. o2 \in Valued /\ v2 \in Texts \ Known /\ h2 \in BOOLEAN
    BY <1>2, <1>4, <1>5
  <2>2. (o2 # "--argv0" \/ v2 = argv0) /\ (h2 => o2 \in knows)
    BY <1>3, <1>7
  <2>3. Telling(s1, knows, t1, argv0)
    BY <1>11
  <2>4. Telling(s2, knows, t2, argv0)
    BY <2>1, <2>2, <2>3, <1>9
  <2>5. Len(s2) = Len(s1) + (IF h2 THEN 2 ELSE 0)
    BY <2>1, <2>2, <2>3, <1>9
  <2> QED BY <2>4, <2>5
<1> HIDE DEF s2, t2
<1>13. Telling(s3, knows, t3, argv0) /\ Len(s3) = Len(s2) + (IF h3 THEN 2 ELSE 0)
  <2>1. o3 \in Valued /\ v3 \in Texts \ Known /\ h3 \in BOOLEAN
    BY <1>2, <1>4, <1>5
  <2>2. (o3 # "--argv0" \/ v3 = argv0) /\ (h3 => o3 \in knows)
    BY <1>3, <1>7
  <2>3. Telling(s2, knows, t2, argv0)
    BY <1>12
  <2>4. Telling(s3, knows, t3, argv0)
    BY <2>1, <2>2, <2>3, <1>9
  <2>5. Len(s3) = Len(s2) + (IF h3 THEN 2 ELSE 0)
    BY <2>1, <2>2, <2>3, <1>9
  <2> QED BY <2>4, <2>5
<1> HIDE DEF s3, t3
<1>14. Telling(s4, knows, t4, argv0) /\ Len(s4) = Len(s3) + (IF h4 THEN 1 ELSE 0)
  BY <1>2, <1>3, <1>5, <1>13, TellsOptionIf
<1> HIDE DEF s4, t4
<1>15. Telling(s5, knows, t5, argv0) /\ Len(s5) = Len(s4) + (IF h5 THEN 2 ELSE 0)
  <2>1. o5 \in Valued /\ argv0 \in Texts \ Known /\ h5 \in BOOLEAN
    BY <1>2, <1>4, <1>5
  <2>2. (o5 # "--argv0" \/ argv0 = argv0) /\ (h5 => o5 \in knows)
    BY <1>3, <1>7
  <2>3. Telling(s4, knows, t4, argv0)
    BY <1>14
  <2>4. Telling(s5, knows, t5, argv0)
    BY <2>1, <2>2, <2>3, <1>9
  <2>5. Len(s5) = Len(s4) + (IF h5 THEN 2 ELSE 0)
    BY <2>1, <2>2, <2>3, <1>9
  <2> QED BY <2>4, <2>5
<1> HIDE DEF s5
<1>16. \A option \in {"--preload", "--library-path", "--argv0"} : option \in t5 <=> H(option)
  BY <1>8 DEF t1, t2, t3, t4, t5, With, o1, o2, o3, o4, o5
<1> HIDE DEF t5
<1>17. Len(s5) = shift(program, loader) /\ Len(s5) \in 1..10
  BY <1>6, <1>10, <1>11, <1>12, <1>13, <1>14, <1>15
<1>18. s5 \in Seq(Texts)
  BY <1>15 DEF Telling
<1>19. s5[1] = interp
  <2>1. /\ s0 \in Seq(Texts) /\ s1 \in Seq(Texts) /\ s2 \in Seq(Texts)
        /\ s3 \in Seq(Texts) /\ s4 \in Seq(Texts)
    BY <1>10, <1>11, <1>12, <1>13, <1>14 DEF Telling
  <2>2. s0[1] = interp
    BY DEF s0
  <2>3. \A s \in Seq(Texts) : \A has, option, value :
           /\ Len(s) >= 1 /\ option \in Texts /\ value \in Texts =>
                 Tell(s, has, option, value)[1] = s[1]
           /\ Len(s) >= 1 /\ option \in Texts =>
                 TellOption(s, has, option)[1] = s[1]
    <3> SUFFICES ASSUME NEW s \in Seq(Texts), NEW has, NEW option \in Texts, NEW value,
                        Len(s) >= 1
                 PROVE  /\ value \in Texts => Tell(s, has, option, value)[1] = s[1]
                        /\ TellOption(s, has, option)[1] = s[1]
      OBVIOUS
    <3>1. s \o <<>> = s
      OBVIOUS
    <3>2. value \in Texts => (s \o <<option, value>>)[1] = s[1]
      BY Two
    <3>3. (s \o <<option>>)[1] = s[1]
      BY One
    <3> QED BY <3>1, <3>2, <3>3 DEF Tell, TellOption
  <2>4. o1 \in Texts /\ o2 \in Texts /\ o3 \in Texts /\ o4 \in Texts /\ o5 \in Texts
    BY <1>5, OptionsAreTexts DEF Known
  <2>5. /\ Len(s0) >= 1 /\ Len(s1) >= 1 /\ Len(s2) >= 1 /\ Len(s3) >= 1 /\ Len(s4) >= 1
    BY <1>10, <1>11, <1>12, <1>13, <1>14 DEF Telling
  <2>6. s1[1] = s0[1]
    BY <1>4, <2>1, <2>3, <2>4, <2>5 DEF s1
  <2>7. s2[1] = s1[1]
    BY <1>4, <2>1, <2>3, <2>4, <2>5 DEF s2
  <2>8. s3[1] = s2[1]
    BY <1>4, <2>1, <2>3, <2>4, <2>5 DEF s3
  <2>9. s4[1] = s3[1]
    <3>1. \A s \in Seq(Texts) : \A has, option :
             Len(s) >= 1 /\ option \in Texts /\ v3 \in Texts =>
                TellOption(s, has, option)[1] = s[1]
      BY <2>3
    <3>2. s3 \in Seq(Texts) /\ Len(s3) >= 1 /\ o4 \in Texts /\ v3 \in Texts
      BY <1>4, <2>1, <2>4, <2>5
    <3> QED BY <3>1, <3>2 DEF s4
  <2>10. s5[1] = s4[1]
    BY <1>4, <2>1, <2>3, <2>4, <2>5 DEF s5
  <2> QED BY <2>2, <2>6, <2>7, <2>8, <2>9, <2>10
<1>20. Tells(s5, program, loader, argv0)
  BY <1>15, <1>16 DEF Tells, knows, H
<1> QED BY <1>1, <1>17, <1>18, <1>19, <1>20

LEMMA SubSeqIs ==
    ASSUME NEW S, NEW s \in Seq(S), NEW a \in Int, NEW b \in Int
    PROVE  SubSeq(s, a, b) = [k \in 1..(b - a + 1) |-> s[k + a - 1]]
OBVIOUS

(***************************************************************************)
(* What is left of two sequences after the first.                          *)
(***************************************************************************)
LEMMA RestIs ==
    ASSUME NEW S, NEW s \in Seq(S), NEW t \in Seq(S)
    PROVE  SubSeq(s \o t, Len(s) + 1, Len(s \o t)) = t
<1> DEFINE u == s \o t
           n == Len(s)
           m == Len(t)
           r == SubSeq(u, n + 1, Len(u))
<1>1. /\ u \in Seq(S) /\ Len(u) = n + m /\ n \in Nat /\ m \in Nat
      /\ \A k \in 1..m : u[n + k] = t[k]
  BY Joined
<1>2. t = [k \in 1..m |-> t[k]]
  OBVIOUS
<1> HIDE DEF u, n, m
<1>3. SubSeq(u, n + 1, n + m) = [k \in 1..m |-> u[n + k]]
  <2>1. SubSeq(u, n + 1, n + m) = [k \in 1..((n + m) - (n + 1) + 1) |-> u[k + (n + 1) - 1]]
    <3>1. n + 1 \in Int /\ n + m \in Int /\ u \in Seq(S)
      BY <1>1
    <3> QED BY <3>1, SubSeqIs
  <2>2. (n + m) - (n + 1) + 1 = m /\ \A k \in 1..m : k + (n + 1) - 1 = n + k
    BY <1>1
  <2> QED BY <2>1, <2>2
<1>4. [k \in 1..m |-> u[n + k]] = [k \in 1..m |-> t[k]]
  BY <1>1
<1>5. SubSeq(u, n + 1, Len(u)) = t
  BY <1>1, <1>2, <1>3, <1>4
<1> QED BY <1>5 DEF u, n, m

(***************************************************************************)
(* The arguments in place are moved past the options and the program, when *)
(* as many places are made as there are options.                           *)
(***************************************************************************)
LEMMA ShiftedIs ==
    ASSUME NEW interparg \in Seq(Texts), interparg # <<>>, NEW options \in Seq(Texts),
           NEW path \in Texts
    PROVE  Shifted(interparg, options, Len(options), path)
           = Append(options, path) \o Tail(interparg)
<1> DEFINE S     == Texts \cup {NULL}
           n     == Len(options)
           tail  == Tail(interparg)
           nulls == [i \in 1..(n + 1) |-> NULL]
           moved == nulls \o tail
<1>1. n \in Nat /\ tail \in Seq(Texts)
  OBVIOUS
<1>2. tail \in Seq(S)
  BY <1>1
<1>3. nulls \in Seq(S) /\ Len(nulls) = n + 1
  BY <1>1
<1>4. Len(Append(options, path)) = n + 1
  OBVIOUS
<1>5. Shifted(interparg, options, n, path)
      = Append(options, path) \o SubSeq(moved, Len(Append(options, path)) + 1, Len(moved))
  BY DEF Shifted
<1> HIDE DEF S, n, tail, nulls
<1>6. SubSeq(moved, Len(nulls) + 1, Len(moved)) = tail
  BY <1>2, <1>3, RestIs
<1> HIDE DEF moved
<1>7. SubSeq(moved, Len(Append(options, path)) + 1, Len(moved)) = tail
  BY <1>3, <1>4, <1>6
<1>8. Shifted(interparg, options, n, path) = Append(options, path) \o tail
  BY <1>5, <1>7
<1> QED BY <1>8 DEF n, tail

(***************************************************************************)
(* The greatest of some numbers up to n is one of them.                    *)
(***************************************************************************)
LEMMA MaxOf ==
    ASSUME NEW n \in Nat, NEW T \in SUBSET (0..n), T # {}
    PROVE  Max(T) \in T
<1> DEFINE U == {n - i : i \in T}
<1>1. U \in SUBSET Nat /\ U # {}
  <2>1. \A i \in T : i \in 0..n /\ n - i \in Nat
    OBVIOUS
  <2>2. PICK i : i \in T
    OBVIOUS
  <2>3. n - i \in U
    BY <2>2
  <2> QED BY <2>1, <2>3
<1>2. PICK u \in U : \A v \in U : u <= v
  <2> HIDE DEF U
  <2> QED BY <1>1, Least
<1>3. PICK i \in T : u = n - i
  BY <1>2
<1>4. \A j \in T : n - i <= n - j
  BY <1>2, <1>3
<1>5. \A j \in T : i >= j
  <2> SUFFICES ASSUME NEW j \in T PROVE i >= j
    OBVIOUS
  <2>1. i \in 0..n /\ j \in 0..n /\ n - i <= n - j
    BY <1>4
  <2> QED BY <2>1
<1>6. \E x \in T : \A j \in T : x >= j
  BY <1>5
<1> QED BY <1>6 DEF Max

(***************************************************************************)
(* A loader that is told the options it knows, then a program and its      *)
(* arguments, finds the program there and gives it the arguments.          *)
(***************************************************************************)
PositionOf(loader, s, path, t, argv) ==
    /\ Positional(loader, argv) = Len(s) + 1
    /\ argv \in Seq(Texts) /\ argv[Len(s) + 1] = path
    /\ \A k \in 1..Len(s) : argv[k] = s[k]
    /\ SubSeq(argv, Len(s) + 2, Len(argv)) = t

LEMMA PositionalIs ==
    ASSUME NEW s, NEW loader, NEW told, NEW argv0, Telling(s, loader.knows, told, argv0),
           loader.knows \subseteq Known, NEW path \in Texts \ Known, NEW t \in Seq(Texts)
    PROVE  PositionOf(loader, s, path, t, Append(s, path) \o t)
<1> DEFINE u == Append(s, path)
           argv == u \o t
           n == Len(s)
           knows == loader.knows
           T == {p \in 2..Len(argv) :
                    argv[p] \notin knows /\ (p = 2 \/ argv[p - 1] \notin Valued \cap knows)}
<1>1. s \in Seq(Texts) /\ n \in Nat /\ n >= 1
  BY DEF Telling
<1>2. /\ u \in Seq(Texts) /\ Len(u) = n + 1 /\ u[n + 1] = path
      /\ \A k \in 1..n : u[k] = s[k]
  BY <1>1
<1>3. /\ \A k \in 2..n :
            /\ s[k] \in Known => s[k] \in knows
            /\ s[k] \in Valued => k < n
            /\ s[k] \notin Known => k > 2 /\ s[k - 1] \in Valued
  BY DEF Telling
<1>0. u \in Seq(Texts)
  BY <1>2
<1> HIDE DEF u
<1>4. /\ argv \in Seq(Texts) /\ Len(argv) = Len(u) + Len(t) /\ Len(t) \in Nat
      /\ \A k \in 1..Len(u) : argv[k] = u[k]
  BY <1>0, Joined
<1>5. SubSeq(argv, Len(u) + 1, Len(argv)) = t
  BY <1>0, RestIs
<1>6. Positional(loader, argv) = Min(T)
  BY DEF Positional
<1>7. Valued \subseteq Known /\ knows \subseteq Known /\ path \notin Known
  BY DEF Known
<1> HIDE DEF argv, n, knows
<1>8. \A k \in 1..n : argv[k] = s[k]
  BY <1>1, <1>2, <1>4
<1>9. argv[n + 1] = path /\ n + 1 \in 2..Len(argv)
  BY <1>1, <1>2, <1>4
<1>10. n + 1 \in T
  <2>1. n + 1 = 2 \/ argv[(n + 1) - 1] \notin Valued \cap knows
    <3> SUFFICES ASSUME n + 1 # 2 PROVE argv[(n + 1) - 1] \notin Valued \cap knows
      OBVIOUS
    <3>1. n \in 2..n /\ n \in 1..n /\ (n + 1) - 1 = n
      BY <1>1
    <3>2. s[n] \notin Valued
      BY <1>1, <1>3, <3>1
    <3> QED BY <1>8, <3>1, <3>2
  <2> QED BY <1>7, <1>9, <2>1
<1>11. \A p \in T : n + 1 <= p
  <2> SUFFICES ASSUME NEW p \in 2..n PROVE p \notin T
    BY <1>1
  <2>1. p \in 1..n /\ argv[p] = s[p]
    BY <1>8
  <2>2. CASE s[p] \in Known
    BY <1>3, <2>1, <2>2
  <2>3. CASE s[p] \notin Known
    <3>0. p > 2 /\ s[p - 1] \in Valued
      BY <1>3, <2>3
    <3>1. p - 1 \in 2..n /\ p - 1 \in 1..n
      BY <1>1, <3>0
    <3>2. s[p - 1] \in knows
      BY <1>3, <1>7, <3>0, <3>1
    <3>3. argv[p - 1] \in Valued \cap knows
      BY <1>8, <3>0, <3>1, <3>2
    <3> QED BY <3>0, <3>3
  <2> QED BY <2>2, <2>3
<1>12. T \subseteq Nat
  OBVIOUS
<1> HIDE DEF T
<1>13. Min(T) = n + 1
  BY <1>10, <1>11, <1>12, MinUnique
<1>14. Positional(loader, argv) = n + 1
  BY <1>6, <1>13
<1>15. SubSeq(argv, n + 2, Len(argv)) = t
  <2>1. Len(u) + 1 = n + 2
    BY <1>1, <1>2
  <2> QED BY <1>5, <2>1
<1>16. PositionOf(loader, s, path, t, argv)
  BY <1>4, <1>8, <1>9, <1>14, <1>15 DEF PositionOf, n
<1> QED BY <1>16 DEF argv, u

LoadedAs(image, e, lists, told, argv0, path, t) ==
    /\ image.program = path
    /\ image.argv = <<IF "--argv0" \in told THEN argv0 ELSE path>> \o t
    /\ image.preload = IF "--preload" \in told THEN lists.ld_preload ELSE e["LD_PRELOAD"]
    /\ image.libpath = IF "--library-path" \in told THEN lists.ld_library_path
                       ELSE e["LD_LIBRARY_PATH"]

LEMMA LoadedIs ==
    ASSUME NEW s, NEW loader, NEW told, NEW argv0, Telling(s, loader.knows, told, argv0),
           loader.knows \subseteq Known, NEW path \in Texts \ Known, NEW t \in Seq(Texts),
           NEW e, NEW lists
    PROVE  LoadedAs(Loaded(e, loader, Append(s, path) \o t, lists),
                    e, lists, told, argv0, path, t)
<1> DEFINE argv == Append(s, path) \o t
           image == Loaded(e, loader, argv, lists)
           n == Len(s)
           Given(option) == {k \in 2..((n + 1) - 1) : argv[k] = option}
           value == IF Given("--argv0") = {} THEN argv[n + 1]
                    ELSE argv[Max(Given("--argv0")) + 1]
<1>1. /\ Positional(loader, argv) = n + 1
      /\ argv \in Seq(Texts) /\ argv[n + 1] = path
      /\ \A k \in 1..n : argv[k] = s[k]
      /\ SubSeq(argv, n + 2, Len(argv)) = t
  <2> HIDE DEF image
  <2>1. PositionOf(loader, s, path, t, argv)
    BY PositionalIs
  <2> HIDE DEF argv
  <2> QED BY <2>1 DEF PositionOf
<1>2. s \in Seq(Texts) /\ n \in Nat /\ n >= 1
  BY DEF Telling
<1> HIDE DEF argv, n
<1>3. (n + 1) - 1 = n /\ (n + 1) + 1 = n + 2
  BY <1>2
<1>4. /\ image.program = argv[n + 1]
      /\ image.argv = <<value>> \o SubSeq(argv, (n + 1) + 1, Len(argv))
      /\ image.preload = IF Given("--preload") = {} THEN e["LD_PRELOAD"] ELSE lists.ld_preload
      /\ image.libpath = IF Given("--library-path") = {} THEN e["LD_LIBRARY_PATH"]
                         ELSE lists.ld_library_path
  BY <1>1 DEF Loaded
<1>5. /\ "--argv0" \in Known /\ "--preload" \in Known /\ "--library-path" \in Known
      /\ "--argv0" \in Valued
  BY DEF Known, Valued
<1>6. \A option \in Known : Given(option) = {} <=> option \notin told
  <2> SUFFICES ASSUME NEW option \in Known PROVE Given(option) = {} <=> option \notin told
    OBVIOUS
  <2>1. \A k \in 2..n : s[k] \in Known => s[k] \in told
    BY DEF Telling, n
  <2>2. option \in told => \E k \in 2..n : s[k] = option
    BY DEF Telling, n
  <2>3. \A k \in 2..n : argv[k] = s[k]
    BY <1>1, <1>2
  <2> QED BY <1>3, <2>1, <2>2, <2>3
<1>7. value = IF "--argv0" \in told THEN argv0 ELSE path
  <2>1. CASE "--argv0" \notin told
    BY <1>1, <1>5, <1>6, <2>1
  <2>2. CASE "--argv0" \in told
    <3> DEFINE G == Given("--argv0")
               k == Max(G)
    <3>1. G \in SUBSET (0..n) /\ G # {}
      BY <1>2, <1>3, <1>5, <1>6, <2>2
    <3>2. k \in G
      <4> HIDE DEF G
      <4> QED BY <1>2, <3>1, MaxOf
    <3> HIDE DEF k
    <3>3. k \in 2..n /\ argv[k] = "--argv0"
      BY <1>3, <3>2
    <3>4. s[k] = "--argv0"
      BY <1>1, <1>2, <3>3
    <3>5. k < n /\ s[k + 1] = argv0
      BY <1>5, <3>3, <3>4 DEF Telling, n
    <3>6. argv[k + 1] = s[k + 1]
      BY <1>1, <1>2, <3>3, <3>5
    <3>7. value = argv[k + 1]
      BY <3>1 DEF k
    <3> QED BY <2>2, <3>5, <3>6, <3>7
  <2> QED BY <2>1, <2>2
<1> HIDE DEF Given, value, image
<1>8. image.program = path
  BY <1>1, <1>4
<1>9. image.argv = <<IF "--argv0" \in told THEN argv0 ELSE path>> \o t
  BY <1>1, <1>3, <1>4, <1>7
<1>10. image.preload = IF "--preload" \in told THEN lists.ld_preload ELSE e["LD_PRELOAD"]
  BY <1>4, <1>5, <1>6
<1>11. image.libpath = IF "--library-path" \in told THEN lists.ld_library_path
                       ELSE e["LD_LIBRARY_PATH"]
  BY <1>4, <1>5, <1>6
<1>12. LoadedAs(image, e, lists, told, argv0, path, t)
  BY <1>8, <1>9, <1>10, <1>11 DEF LoadedAs
<1> QED BY <1>12 DEF image, argv

-----------------------------------------------------------------------------
(* The program of a call in the jail *)

(***************************************************************************)
(* What the assumptions say of the arguments and of the files.             *)
(***************************************************************************)
LEMMA ArgvsAre == \A argv \in Argvs : argv \in Seq(Texts) /\ argv # <<>> /\ argv[1] \in Texts \ Known
<1> TAKE argv \in Argvs
<1>1. argv \in Seq(Texts) \ {<<>>} /\ argv[1] \notin Known
  BY ExecAssumption DEF Words, Texts
<1>2. argv[1] \in Texts
  BY <1>1
<1> QED BY <1>1, <1>2

LEMMA PathsAre == Paths \subseteq Texts
BY ExecAssumption DEF Paths, Texts

LEMMA FilesAre == \A path : path \in There => path \in Texts \ Known
BY ExecAssumption DEF There, Texts

LEMMA ScriptsAre ==
    \A file : TypeOf(file) = "script" =>
        LET words == Files[file].words
        IN  words \in Seq(Texts) /\ words # <<>> /\ words[1] \in Texts \ Known
<1> SUFFICES ASSUME NEW file, TypeOf(file) = "script"
             PROVE  LET words == Files[file].words
                    IN  words \in Seq(Texts) /\ words # <<>> /\ words[1] \in Texts \ Known
  OBVIOUS
<1> DEFINE words == Files[file].words
<1>1. file \in DOMAIN Files /\ Files[file].type = "script"
  BY DEF TypeOf, There
<1>2. words \in Seq(Texts) \ {<<>>} /\ words[1] \notin Known
  BY <1>1, ExecAssumption DEF Words, Texts
<1> HIDE DEF words
<1>3. words[1] \in Texts
  BY <1>2
<1> QED BY <1>2, <1>3 DEF words

(***************************************************************************)
(* The words of a script before its path: the first two.                   *)
(***************************************************************************)
LEMMA FirstTwo ==
    ASSUME NEW words \in Seq(Texts), words # <<>>, NEW path \in Texts
    PROVE  LET first == SubSeq(words, 1, Min({2, Len(words)}))
               s     == Append(first, path)
           IN  /\ s \in Seq(Texts) /\ Len(s) \in 2..3 /\ s[1] = words[1]
               /\ Len(words) <= 2 => first = words
<1> DEFINE n == Len(words)
           m == Min({2, n})
           first == SubSeq(words, 1, m)
<1>1. n \in Nat /\ n >= 1
  OBVIOUS
<1>2. m \in {2, n} /\ m <= 2 /\ m <= n
  <2> HIDE DEF n
  <2>1. {2, n} \in SUBSET Nat /\ {2, n} # {}
    BY <1>1
  <2> QED BY <2>1, MinIs
<1>3. words = [i \in 1..n |-> words[i]] /\ \A i \in 1..n : words[i] \in Texts
  OBVIOUS
<1> HIDE DEF n, m
<1>4. m \in 1..2 /\ (n <= 2 => m = n) /\ m - 1 + 1 = m
  BY <1>1, <1>2
<1> HIDE DEF first
<1>5. /\ first \in Seq(Texts) /\ Len(first) = m
      /\ \A i \in 1..m : first[i] = words[i]
  <2>1. \A k \in 1..Len(words) : /\ SubSeq(words, 1, k) \in Seq(Texts)
                                 /\ Len(SubSeq(words, 1, k)) = k
                                 /\ \A i \in 1..k : SubSeq(words, 1, k)[i] = words[i]
    OBVIOUS
  <2>2. m \in 1..Len(words)
    BY <1>1, <1>2, <1>4 DEF n
  <2> QED BY <2>1, <2>2 DEF first
<1>7. first[1] = words[1]
  BY <1>4, <1>5
<1>8. n <= 2 => first = words
  <2>1. first = [i \in 1..m |-> first[i]]
    BY <1>5
  <2> QED BY <1>3, <1>4, <1>5, <2>1
<1>9. /\ Append(first, path) \in Seq(Texts) /\ Len(Append(first, path)) = m + 1
      /\ Append(first, path)[1] = first[1]
  BY <1>1, <1>4, <1>5
<1>10. m + 1 \in 2..3
  BY <1>4
<1> QED BY <1>7, <1>8, <1>9, <1>10 DEF first, m, n

LEMMA ShellIs ==
    "/bin/sh" \in Texts \ Known /\
    \A path \in Texts : /\ <<"/bin/sh", path>> \in Seq(Texts) /\ Len(<<"/bin/sh", path>>) = 2
                        /\ <<"/bin/sh", path>>[1] = "/bin/sh"
<1> DEFINE sh == "/bin/sh"
<1>1. sh \in Texts
  <2>1. Literals \subseteq Texts
    BY ExecAssumption DEF Texts
  <2> QED BY <2>1 DEF Literals
<1>2. sh \notin Known
  BY DEF Known, Valued
<1> HIDE DEF sh
<1>3. \A path \in Texts : /\ <<sh, path>> \in Seq(Texts) /\ Len(<<sh, path>>) = 2
                          /\ <<sh, path>>[1] = sh
  BY <1>1
<1> QED BY <1>1, <1>2, <1>3 DEF sh

(***************************************************************************)
(* What interparg has before the loader is prepended: at most three        *)
(* arguments, of which the first is no option.                             *)
(***************************************************************************)
LEMMA InterpargIs ==
    ASSUME NEW e, NEW path \in Paths, NEW argv \in Argvs
    PROVE  LET interparg == Program(e, path, argv).interparg
           IN  /\ interparg \in Seq(Texts) /\ Len(interparg) \in 1..3
               /\ interparg[1] \in Texts \ Known
<1> DEFINE file == path_resolution(e, path)
           interparg == Program(e, path, argv).interparg
<1>1. path \in Texts
  BY PathsAre
<1>2. CASE TypeOf(file) = "script"
  <2> DEFINE words == Files[file].words
             s     == Append(SubSeq(words, 1, Min({2, Len(words)})), path)
  <2>1. words \in Seq(Texts) /\ words # <<>> /\ words[1] \in Texts \ Known
    BY <1>2, ScriptsAre
  <2>2. Files[file].type = "script"
    BY <1>2 DEF TypeOf
  <2>3. interparg = s
    BY <1>2, <2>2 DEF Program, __interpreter_script
  <2> HIDE DEF words
  <2>4. s \in Seq(Texts) /\ Len(s) \in 2..3 /\ s[1] = words[1]
    BY <1>1, <2>1, FirstTwo
  <2> HIDE DEF s, interparg
  <2> QED BY <2>1, <2>3, <2>4 DEF interparg
<1>3. CASE TypeOf(file) = "empty"
  <2>1. Files[file].type = "empty"
    BY <1>3 DEF TypeOf
  <2>2. interparg = <<"/bin/sh", path>>
    BY <1>3, <2>1 DEF Program, __interpreter_script
  <2> HIDE DEF interparg
  <2>3. interparg \in Seq(Texts) /\ Len(interparg) = 2 /\ interparg[1] = "/bin/sh"
    BY <1>1, <2>2, ShellIs
  <2>4. interparg[1] \in Texts \ Known
    BY <2>3, ShellIs
  <2> QED BY <2>3, <2>4 DEF interparg
<1>4. CASE TypeOf(file) \notin {"script", "empty"}
  <2>1. interparg = <<argv[1]>>
    BY <1>4 DEF Program
  <2>2. argv[1] \in Texts \ Known
    BY ArgvsAre
  <2> HIDE DEF interparg
  <2>3. \A a \in Texts : <<a>> \in Seq(Texts) /\ Len(<<a>>) = 1 /\ <<a>>[1] = a
    OBVIOUS
  <2>4. interparg \in Seq(Texts) /\ Len(interparg) = 1 /\ interparg[1] = argv[1]
    BY <2>1, <2>2, <2>3
  <2> QED BY <2>2, <2>4 DEF interparg
<1> QED BY <1>2, <1>3, <1>4

(***************************************************************************)
(* The program and its arguments are those of the reference, but for the   *)
(* words of a script after the second.                                     *)
(***************************************************************************)
SameAsReference(program, reference, t) ==
    /\ reference.program = program.path
    /\ reference.argv[1] = program.interparg[1]
    /\ Tail(reference.argv) = t

LEMMA HeadAndTail ==
    ASSUME NEW S, NEW s \in Seq(S), s # <<>>, NEW t \in Seq(S)
    PROVE  (s \o t)[1] = s[1] /\ Tail(s \o t) = Tail(s) \o t
<1> DEFINE n == Len(s)
           m == Len(t)
           u == s \o t
           r == Tail(s)
<1>1. n \in Nat /\ n >= 1 /\ m \in Nat
  OBVIOUS
<1>2. /\ u \in Seq(S) /\ Len(u) = n + m
      /\ \A k \in 1..n : u[k] = s[k]
      /\ \A k \in 1..m : u[n + k] = t[k]
  BY Joined
<1>3. r \in Seq(S) /\ Len(r) = n - 1 /\ \A k \in 1..(n - 1) : r[k] = s[k + 1]
  BY <1>1
<1>4. /\ r \o t \in Seq(S) /\ Len(r \o t) = Len(r) + Len(t)
      /\ \A k \in 1..Len(r) : (r \o t)[k] = r[k]
      /\ \A k \in 1..Len(t) : (r \o t)[Len(r) + k] = t[k]
  <2>1. r \in Seq(S)
    BY <1>3
  <2> HIDE DEF r
  <2> QED BY <2>1, Joined
<1> HIDE DEF r, u
<1>5. Tail(u) \in Seq(S) /\ Len(Tail(u)) = (n + m) - 1
      /\ \A k \in 1..((n + m) - 1) : Tail(u)[k] = u[k + 1]
  <2>1. u # <<>>
    BY <1>1, <1>2
  <2> HIDE DEF n, m
  <2> QED BY <1>1, <1>2, <2>1
<1> DEFINE v == Tail(u)
           w == r \o t
<1>6. v \in Seq(S) /\ Len(v) = (n + m) - 1
  BY <1>5
<1>7. w \in Seq(S) /\ Len(w) = (n - 1) + m
  BY <1>3, <1>4
<1> HIDE DEF n, m, v, w
<1>8. (n + m) - 1 = (n - 1) + m
  BY <1>1
<1>9. ASSUME NEW k \in 1..((n + m) - 1) PROVE v[k] = w[k]
  <2>1. v[k] = u[k + 1]
    BY <1>5 DEF v
  <2>2. CASE k \in 1..(n - 1)
    <3>1. k + 1 \in 1..n
      BY <1>1, <2>2
    <3>2. w[k] = r[k] /\ r[k] = s[k + 1]
      BY <1>3, <1>4, <2>2 DEF w
    <3> QED BY <1>2, <2>1, <3>1, <3>2
  <2>3. CASE k \notin 1..(n - 1)
    <3> DEFINE j == (k + 1) - n
    <3>1. j \in 1..m /\ n + j = k + 1 /\ (n - 1) + j = k
      BY <1>1, <2>3
    <3> HIDE DEF j
    <3>2. u[n + j] = t[j]
      BY <1>2, <3>1
    <3>3. w[(n - 1) + j] = t[j]
      BY <1>3, <1>4, <3>1 DEF w, m
    <3> QED BY <2>1, <3>1, <3>2, <3>3
  <2> QED BY <2>2, <2>3
<1>10. v = w
  <2>1. \A q \in Seq(S) : q = [k \in 1..Len(q) |-> q[k]]
    OBVIOUS
  <2>2. v = [k \in 1..Len(v) |-> v[k]] /\ w = [k \in 1..Len(w) |-> w[k]]
    BY <1>6, <1>7, <2>1
  <2>3. Len(v) = Len(w) /\ \A k \in 1..Len(v) : v[k] = w[k]
    BY <1>6, <1>7, <1>8, <1>9
  <2> QED BY <2>2, <2>3
<1>11. u[1] = s[1]
  BY <1>1, <1>2
<1> QED BY <1>10, <1>11 DEF u, v, w, r

LEMMA PairIs == \A a, b \in Texts : Append(<<a>>, b) = <<a, b>>
<1> SUFFICES ASSUME NEW a \in Texts, NEW b \in Texts PROVE Append(<<a>>, b) = <<a, b>>
  OBVIOUS
<1> DEFINE q == <<a>>
           u == Append(q, b)
           v == <<a, b>>
<1>1. q \in Seq(Texts) /\ Len(q) = 1 /\ q[1] = a
  OBVIOUS
<1> HIDE DEF q
<1>2. u \in Seq(Texts) /\ Len(u) = 2 /\ u[1] = a /\ u[2] = b
  <2>1. \A s \in Seq(Texts) :
           /\ Append(s, b) \in Seq(Texts) /\ Len(Append(s, b)) = Len(s) + 1
           /\ \A k \in 1..Len(s) : Append(s, b)[k] = s[k]
           /\ Append(s, b)[Len(s) + 1] = b
    OBVIOUS
  <2>2. /\ u \in Seq(Texts) /\ Len(u) = Len(q) + 1
        /\ \A k \in 1..Len(q) : u[k] = q[k]
        /\ u[Len(q) + 1] = b
    BY <1>1, <2>1
  <2> HIDE DEF u
  <2> QED BY <1>1, <2>2
<1>3. v \in Seq(Texts) /\ Len(v) = 2 /\ v[1] = a /\ v[2] = b
  OBVIOUS
<1> HIDE DEF u, v
<1>4. \A s \in Seq(Texts) : s = [k \in 1..Len(s) |-> s[k]]
  OBVIOUS
<1>5. u = [k \in 1..2 |-> u[k]] /\ v = [k \in 1..2 |-> v[k]]
  BY <1>2, <1>3, <1>4
<1>6. \A k \in 1..2 : u[k] = v[k]
  BY <1>2, <1>3
<1>7. u = v
  BY <1>5, <1>6
<1> QED BY <1>7 DEF u, v, q

LEMMA SameProgram ==
    ASSUME NEW path \in Paths, NEW argv \in Argvs, OneWord(path_resolution(env, path))
    PROVE  LET program == Program(env, path, argv)
           IN  SameAsReference(program, Reference(path_resolution(env, path), path, argv),
                               Tail(program.interparg) \o Tail(argv))
<1> DEFINE file == path_resolution(env, path)
           program == Program(env, path, argv)
           rest == Tail(argv)
           reference == Reference(file, path, argv)
           s == program.interparg
<1>1. path \in Texts
  BY PathsAre
<1>2. argv \in Seq(Texts) /\ argv # <<>> /\ rest \in Seq(Texts)
  BY ArgvsAre
<1> HIDE DEF rest
<1>3. s \in Seq(Texts) /\ s # <<>>
  <2>1. s \in Seq(Texts) /\ Len(s) \in 1..3
    BY InterpargIs
  <2> HIDE DEF s
  <2> QED BY <2>1
<1>4. Tail(s \o rest) = Tail(s) \o rest /\ (s \o rest)[1] = s[1]
  <2> HIDE DEF s
  <2> QED BY <1>2, <1>3, HeadAndTail
<1>5. CASE TypeOf(file) = "script"
  <2> DEFINE words == Files[file].words
  <2>1. words \in Seq(Texts) /\ words # <<>>
    BY <1>5, ScriptsAre
  <2>2. Files[file].type = "script"
    BY <1>5 DEF TypeOf
  <2>3. Len(words) <= 2
    BY <1>5 DEF OneWord
  <2>4. SubSeq(words, 1, Min({2, Len(words)})) = words
    <3> HIDE DEF words
    <3> QED BY <1>1, <2>1, <2>3, FirstTwo
  <2>5. s = Append(words, path)
    BY <1>5, <2>2, <2>4 DEF Program, __interpreter_script
  <2>6. reference.program = path_resolution(env, words[1]) /\ reference.argv = s \o rest
    BY <1>5, <2>5 DEF Reference, rest
  <2>7. program.path = path_resolution(env, s[1])
    BY <1>5, <2>2 DEF Program
  <2>8. s[1] = words[1]
    <3> HIDE DEF words, s
    <3>1. \A q \in Seq(Texts) : q # <<>> => Append(q, path)[1] = q[1]
      BY <1>1
    <3> QED BY <2>1, <2>5, <3>1
  <2> HIDE DEF words, s, reference, program
  <2>9. SameAsReference(program, reference, Tail(s) \o rest)
    BY <1>4, <2>6, <2>7, <2>8 DEF SameAsReference, s
  <2> QED BY <2>9 DEF program, reference, rest, s
<1>6. CASE TypeOf(file) = "empty"
  <2>1. Files[file].type = "empty"
    BY <1>6 DEF TypeOf
  <2>2. s = <<"/bin/sh", path>>
    BY <1>6, <2>1 DEF Program, __interpreter_script
  <2>3. Append(<<"/bin/sh">>, path) = <<"/bin/sh", path>>
    BY <1>1, PairIs, ShellIs
  <2>4. reference.program = path_resolution(env, "/bin/sh") /\ reference.argv = s \o rest
    BY <1>6, <2>2, <2>3 DEF Reference, rest
  <2>5. program.path = path_resolution(env, s[1]) /\ s[1] = "/bin/sh"
    BY <1>6, <2>1, <2>2 DEF Program
  <2> HIDE DEF s, reference, program
  <2>6. SameAsReference(program, reference, Tail(s) \o rest)
    BY <1>4, <2>4, <2>5 DEF SameAsReference, s
  <2> QED BY <2>6 DEF program, reference, rest, s
<1>7. CASE TypeOf(file) \notin {"script", "empty"}
  <2>1. program.path = file /\ s = <<argv[1]>>
    BY <1>7 DEF Program
  <2>2. reference.program = file /\ reference.argv = argv
    BY <1>7 DEF Reference
  <2>3. Tail(s) \o rest = rest /\ s[1] = argv[1]
    <3> HIDE DEF s
    <3>1. \A a : Tail(<<a>>) = <<>> /\ <<a>>[1] = a
      OBVIOUS
    <3>2. <<>> \o rest = rest
      BY <1>2
    <3> QED BY <2>1, <3>1, <3>2
  <2> HIDE DEF s, reference, program
  <2>4. SameAsReference(program, reference, Tail(s) \o rest)
    BY <2>1, <2>2, <2>3 DEF SameAsReference, s, rest
  <2> QED BY <2>4 DEF program, reference, rest, s
<1> QED BY <1>5, <1>6, <1>7

(***************************************************************************)
(* A call of the jail that runs the program it names is made by __ldso().  *)
(***************************************************************************)
LEMMA JailCall ==
    ASSUME __inchroot(env), NEW path \in Paths \ LdsoNames, NEW argv \in Argvs,
           RunsProgram(ExecBy("execve", env, path, argv, FALSE), path)
    PROVE  LET program == Program(env, path, argv)
           IN  /\ TypeOf(program.path) = "elf" /\ Files[program.path].name # NULL
               /\ ExecBy("execve", env, path, argv, FALSE)
                  = __ldso(env, program.path, program.interparg, Tail(argv), FALSE)
<1> DEFINE call    == ExecBy("execve", env, path, argv, FALSE)
           file    == path_resolution(env, path)
           can     == __can_exec(file)
           program == Program(env, path, argv)
           shell   == __exec_sh(env, path, argv, FALSE)
           ldso    == __ldso(env, program.path, program.interparg, Tail(argv), FALSE)
<1>1. call.errno = "" /\ call.file # "exec.sh"
  BY DEF RunsProgram
<1>2. can \in {"yes", "no"}
  <2>1. can \in {"ENOENT", "ENOEXEC", "ENOTSUP", "no", "yes"}
    BY DEF __can_exec
  <2>2. can \notin {"yes", "no"} => call = Errno(env, can)
    BY DEF ExecBy
  <2> HIDE DEF can, call
  <2>3. can \notin {"yes", "no"} => call.errno = can
    BY <2>2, ErrnoIs
  <2> QED BY <1>1, <2>1, <2>3
<1>3. shell.file = "exec.sh"
  BY DEF __exec_sh, Call
<1>4. call # shell
  <2> HIDE DEF call, shell
  <2> QED BY <1>1, <1>3
<1>5. can = "yes" /\ TypeOf(program.path) \in {"elf", "missing"} /\ call = ldso
  <2>1. call = IF can = "no" THEN shell
               ELSE IF TypeOf(program.path) \notin {"elf", "missing"} THEN shell
               ELSE ldso
    BY <1>2 DEF ExecBy
  <2> HIDE DEF call, shell, ldso, can, program
  <2> QED BY <1>2, <1>4, <2>1
<1>6. TypeOf(program.path) # "missing"
  <2>1. TypeOf(program.path) = "missing" => ldso = Errno(env, "ENOENT")
    BY DEF __ldso
  <2> HIDE DEF call, ldso, program
  <2>2. TypeOf(program.path) = "missing" => ldso.errno = "ENOENT"
    BY <2>1, ErrnoIs
  <2> QED BY <1>1, <1>5, <2>2
<1>7. Files[program.path].name # NULL
  <2>1. Files[program.path].name = NULL => ldso = Errno(env, "ENOTSUP")
    BY <1>6 DEF __ldso
  <2> HIDE DEF call, ldso, program
  <2>2. Files[program.path].name = NULL => ldso.errno = "ENOTSUP"
    BY <2>1, ErrnoIs
  <2> QED BY <1>1, <1>5, <2>2
<1> QED BY <1>5, <1>6, <1>7

(***************************************************************************)
(* What is run and with what, when the loader is left to it.               *)
(***************************************************************************)
IsImage(image) ==
    image = [program |-> image.program, argv |-> image.argv,
             preload |-> image.preload, libpath |-> image.libpath]

LEMMA StartsWith ==
    ASSUME NEW e, NEW image, IsImage(image), NEW x \in Texts, NEW t \in Seq(Texts),
           image.argv = <<x>> \o t
    PROVE  LET new == __libc_start_main(e, image)
           IN  /\ new.program = image.program /\ new.preload = image.preload
               /\ new.libpath = image.libpath /\ Tail(new.argv) = t
               /\ new.argv[1] = IF Preloads(image) /\ e["argv0"] # NULL THEN e["argv0"] ELSE x
<1> DEFINE new == __libc_start_main(e, image)
           old == image.argv
<1>1. \A a \in Texts : <<a>> \in Seq(Texts) /\ <<a>> # <<>> /\ Tail(<<a>>) = <<>> /\ <<a>>[1] = a
  OBVIOUS
<1>2. <<>> \o t = t
  OBVIOUS
<1>3. Tail(old) = t /\ old[1] = x /\ old \in Seq(Texts) /\ old # <<>>
  <2> DEFINE q == <<x>>
  <2>1. q \in Seq(Texts) /\ q # <<>> /\ Tail(q) = <<>> /\ q[1] = x /\ old = q \o t
    BY <1>1
  <2> HIDE DEF q, old
  <2>2. Tail(old) = t /\ old[1] = x
    BY <1>2, <2>1, HeadAndTail
  <2>3. /\ q \o t \in Seq(Texts) /\ Len(q \o t) = Len(q) + Len(t)
        /\ Len(q) \in Nat /\ Len(t) \in Nat
    BY <2>1, Joined
  <2>4. Len(q) > 0
    BY <2>1
  <2> QED BY <2>1, <2>2, <2>3, <2>4
<1>4. CASE ~(Preloads(image) /\ e["argv0"] # NULL)
  <2>1. new = image
    BY <1>4 DEF __libc_start_main
  <2> HIDE DEF new
  <2> QED BY <1>3, <1>4, <2>1 DEF new
<1>5. CASE Preloads(image) /\ e["argv0"] # NULL
  <2> DEFINE v == e["argv0"]
             w == [old EXCEPT ![1] = v]
  <2>1. new = [image EXCEPT !.argv[1] = v]
    BY <1>5 DEF __libc_start_main
  <2> HIDE DEF v
  <2>2. DOMAIN image = {"program", "argv", "preload", "libpath"}
    BY DEF IsImage
  <2> HIDE DEF new
  <2>3. /\ new.program = image.program /\ new.preload = image.preload
        /\ new.libpath = image.libpath /\ new.argv = w
    BY <2>1, <2>2
  <2> HIDE DEF old
  <2>4. /\ DOMAIN old = 1..Len(old) /\ Len(old) \in Nat /\ Len(old) >= 1
    BY <1>3
  <2>5. /\ DOMAIN w = 1..Len(old) /\ w[1] = v
        /\ \A i \in 2..Len(old) : w[i] = old[i]
    BY <2>4
  <2>6. w = [i \in 1..Len(old) |-> w[i]]
    BY <2>4
  <2> DEFINE S == Texts \cup {v}
  <2>7. w \in Seq(S) /\ Len(w) = Len(old) /\ old \in Seq(S)
    <3>1. \A i \in 1..Len(old) : old[i] \in Texts
      BY <1>3
    <3>2. \A i \in 1..Len(old) : w[i] \in S
      BY <2>4, <2>5, <3>1
    <3>3. old \in Seq(S)
      BY <1>3
    <3> HIDE DEF w, S
    <3> QED BY <2>4, <2>6, <3>2, <3>3
  <2>8. Tail(w) = Tail(old)
    <3> HIDE DEF w, S
    <3>1. \A q \in Seq(S) : q # <<>> =>
             /\ Tail(q) \in Seq(S) /\ Len(Tail(q)) = Len(q) - 1
             /\ \A i \in 1..(Len(q) - 1) : Tail(q)[i] = q[i + 1]
      OBVIOUS
    <3>2. w # <<>>
      BY <2>4, <2>7
    <3>3. /\ Tail(w) \in Seq(S) /\ Len(Tail(w)) = Len(old) - 1
          /\ \A i \in 1..(Len(old) - 1) : Tail(w)[i] = w[i + 1]
      BY <2>7, <3>1, <3>2
    <3>4. /\ Tail(old) \in Seq(S) /\ Len(Tail(old)) = Len(old) - 1
          /\ \A i \in 1..(Len(old) - 1) : Tail(old)[i] = old[i + 1]
      BY <1>3, <2>7, <3>1
    <3>5. \A i \in 1..(Len(old) - 1) : Tail(w)[i] = Tail(old)[i]
      BY <2>4, <2>5, <3>3, <3>4
    <3> DEFINE a == Tail(w)
               b == Tail(old)
    <3>6. \A q \in Seq(S) : q = [k \in 1..Len(q) |-> q[k]]
      OBVIOUS
    <3>7. /\ a \in Seq(S) /\ b \in Seq(S) /\ Len(a) = Len(b)
          /\ \A k \in 1..Len(a) : a[k] = b[k]
      BY <3>3, <3>4, <3>5
    <3> HIDE DEF a, b
    <3>8. a = [k \in 1..Len(a) |-> a[k]] /\ b = [k \in 1..Len(b) |-> b[k]]
      BY <3>6, <3>7
    <3>9. a = b
      BY <3>7, <3>8
    <3> QED BY <3>9 DEF a, b
  <2> HIDE DEF w
  <2>9. new.argv[1] = v /\ Tail(new.argv) = t
    BY <1>3, <2>3, <2>5, <2>8
  <2> QED BY <1>5, <2>3, <2>9 DEF new, v
<1> QED BY <1>4, <1>5

Join(a, b) == a \o b

LEMMA Associative ==
    ASSUME NEW S, NEW a \in Seq(S), NEW b \in Seq(S), NEW c \in Seq(S)
    PROVE  Join(Join(a, b), c) = Join(a, Join(b, c))
<1> DEFINE u == (a \o b) \o c
           v == a \o (b \o c)
<1>1. /\ a \o b \in Seq(S) /\ Len(a \o b) = Len(a) + Len(b)
      /\ Len(a) \in Nat /\ Len(b) \in Nat
      /\ \A k \in 1..Len(a) : (a \o b)[k] = a[k]
      /\ \A k \in 1..Len(b) : (a \o b)[Len(a) + k] = b[k]
  BY Joined
<1>2. /\ b \o c \in Seq(S) /\ Len(b \o c) = Len(b) + Len(c) /\ Len(c) \in Nat
      /\ \A k \in 1..Len(b) : (b \o c)[k] = b[k]
      /\ \A k \in 1..Len(c) : (b \o c)[Len(b) + k] = c[k]
  BY Joined
<1>3. /\ u \in Seq(S) /\ Len(u) = Len(a \o b) + Len(c)
      /\ \A k \in 1..Len(a \o b) : u[k] = (a \o b)[k]
      /\ \A k \in 1..Len(c) : u[Len(a \o b) + k] = c[k]
  BY <1>1, Joined
<1>4. /\ v \in Seq(S) /\ Len(v) = Len(a) + Len(b \o c)
      /\ \A k \in 1..Len(a) : v[k] = a[k]
      /\ \A k \in 1..Len(b \o c) : v[Len(a) + k] = (b \o c)[k]
  BY <1>2, Joined
<1> HIDE DEF u, v
<1>5. Len(u) = Len(v) /\ Len(u) = Len(a) + Len(b) + Len(c)
  BY <1>1, <1>2, <1>3, <1>4
<1>6. ASSUME NEW k \in 1..Len(u) PROVE u[k] = v[k]
  <2>1. CASE k \in 1..Len(a)
    <3>1. k \in 1..Len(a \o b)
      BY <1>1, <2>1
    <3>2. u[k] = a[k]
      BY <1>1, <1>3, <2>1, <3>1
    <3> QED BY <1>4, <2>1, <3>2
  <2>2. CASE k > Len(a) /\ k <= Len(a) + Len(b)
    <3>1. k - Len(a) \in 1..Len(b) /\ Len(a) + (k - Len(a)) = k
      BY <1>1, <2>2
    <3> DEFINE j == k - Len(a)
    <3>2. j \in 1..Len(b) /\ Len(a) + j = k /\ k \in 1..Len(a \o b) /\ j \in 1..Len(b \o c)
      BY <1>1, <1>2, <2>2, <3>1
    <3> HIDE DEF j
    <3>3. u[k] = b[j]
      BY <1>1, <1>3, <3>2
    <3>4. v[k] = (b \o c)[j]
      BY <1>4, <3>2
    <3>5. (b \o c)[j] = b[j]
      BY <1>2, <3>2
    <3> QED BY <3>3, <3>4, <3>5
  <2>3. CASE k > Len(a) + Len(b)
    <3> DEFINE j == k - (Len(a) + Len(b))
    <3>1. j \in 1..Len(c) /\ (Len(a) + Len(b)) + j = k /\ Len(a) + (Len(b) + j) = k
          /\ Len(b) + j \in 1..(Len(b) + Len(c))
      BY <1>1, <1>2, <1>5, <2>3
    <3> HIDE DEF j
    <3>2. u[k] = c[j]
      BY <1>1, <1>3, <3>1
    <3>3. v[k] = c[j]
      BY <1>2, <1>4, <3>1
    <3> QED BY <3>2, <3>3
  <2> QED BY <1>1, <1>5, <2>1, <2>2, <2>3
<1>7. \A s \in Seq(S) : s = [k \in 1..Len(s) |-> s[k]]
  OBVIOUS
<1>8. u = [k \in 1..Len(u) |-> u[k]] /\ v = [k \in 1..Len(v) |-> v[k]]
  BY <1>3, <1>4, <1>7
<1>9. u = v
  BY <1>5, <1>6, <1>8
<1> QED BY <1>9 DEF u, v, Join

(***************************************************************************)
(* A loader that is no program has no options.                             *)
(***************************************************************************)
LEMMA Unoptioned ==
    ASSUME NEW program, NEW loader, Shift(program) = 0,
           ~(/\ __is_netbsd(program) \/ __is_openbsd(program)
             /\ __is_gnu_linux_ext(program) \/ __is_musl(program)),
           NEW interp, NEW argv0
    PROVE  /\ \A option : ~Has(program, loader, option)
           /\ Options(interp, program, loader, argv0) = <<>>
           /\ shift(program, loader) = 0
<1>1. ~__is_gnu_linux_ext(program) /\ ~__is_musl(program)
  <2>1. 1 # 0
    OBVIOUS
  <2> QED BY <2>1 DEF Shift
<1>2. \A option : ~Has(program, loader, option)
  BY <1>1 DEF Has
<1>7. /\ ~Has(program, loader, "--preload") /\ ~Has(program, loader, "--library-path")
      /\ ~Has(program, loader, "--inhibit-rpath")
      /\ ~Has(program, loader, "--inhibit-cache") /\ ~Has(program, loader, "--argv0")
  BY <1>2
<1>3. shift(program, loader) = 0
  BY <1>7 DEF shift, shift_uncached
<1>4. Options(interp, program, loader, argv0) = <<>> \o <<>> \o <<>> \o <<>> \o <<>> \o <<>>
  BY <1>7 DEF Options
<1>5. <<>> \o <<>> = <<>>
  OBVIOUS
<1>6. Options(interp, program, loader, argv0) = <<>>
  BY <1>4, <1>5
<1> QED BY <1>2, <1>3, <1>6

LEMMA ShiftIs == \A program : Shift(program) \in {0, 1}
BY DEF Shift

(***************************************************************************)
(* What becomes of the call of __ldso(): the program, with its arguments,  *)
(* the library before the ones every program needs, and the directories of *)
(* the jail.                                                               *)
(***************************************************************************)
Becomes(call, path, argv0, t, image) ==
    /\ image.program = path
    /\ image.preload = __ld_preload(Files[path])
    /\ image.libpath = __ld_library_path(env, Files[path])
    /\ Tail(image.argv) = t
    /\ Preloads(image) /\ call.env["argv0"] \in {NULL, argv0} => image.argv[1] = argv0
    /\ Len(call.argv) \in Nat /\ Len(call.argv) <= Len(t) + 11

\* The same of the image before the library runs, which has x for argv[0].
Starts(image, path, x, t) ==
    /\ IsImage(image) /\ image.program = path
    /\ image.preload = __ld_preload(Files[path])
    /\ image.libpath = __ld_library_path(env, Files[path])
    /\ image.argv = <<x>> \o t

LEMMA StartsBecomes ==
    ASSUME NEW call, NEW path, NEW argv0 \in Texts, NEW t \in Seq(Texts), NEW x \in Texts,
           Starts(Run(call), path, x, t),
           x = argv0 \/ call.env["argv0"] = argv0,
           Len(call.argv) \in Nat, Len(call.argv) <= Len(t) + 11
    PROVE  Becomes(call, path, argv0, t, Image(call))
<1> DEFINE old == Run(call)
           new == Image(call)
           e   == call.env
<1>1. new = __libc_start_main(e, old)
  BY DEF Image
<1>2. NULL \notin Texts
  BY ExecAssumption DEF Texts
<1> HIDE DEF old, new, e
<1>3. /\ IsImage(old) /\ old.argv = <<x>> \o t
      /\ old.program = path /\ old.preload = __ld_preload(Files[path])
      /\ old.libpath = __ld_library_path(env, Files[path])
  BY DEF Starts, old
<1>4. /\ new.program = old.program /\ new.preload = old.preload
      /\ new.libpath = old.libpath /\ Tail(new.argv) = t
      /\ new.argv[1] = IF Preloads(old) /\ e["argv0"] # NULL THEN e["argv0"] ELSE x
  BY <1>1, <1>3, StartsWith
<1>5. Preloads(new) <=> Preloads(old)
  BY <1>4 DEF Preloads
<1>6. ASSUME Preloads(new), e["argv0"] \in {NULL, argv0} PROVE new.argv[1] = argv0
  <2>1. x = argv0 \/ e["argv0"] = argv0
    BY DEF e
  <2> QED BY <1>2, <1>4, <1>5, <1>6, <2>1
<1> QED BY <1>3, <1>4, <1>6 DEF Becomes, e, new

(***************************************************************************)
(* The code's comparison of versions is that of the releases.              *)
(***************************************************************************)
LEMMA SupportedIs ==
    \A version \in (Nat \X Nat) \cup {NULL} : \A option \in DOMAIN Since :
        Supported(version, option) => option \in GlibcKnows(version)
<1> SUFFICES ASSUME NEW version \in (Nat \X Nat) \cup {NULL}, NEW option \in DOMAIN Since,
                    Supported(version, option)
             PROVE  option \in GlibcKnows(version)
  OBVIOUS
<1>1. /\ DOMAIN Since = {"--inhibit-cache", "--preload", "--argv0"}
      /\ Since["--inhibit-cache"] = <<2, 16>> /\ Since["--preload"] = <<2, 30>>
      /\ Since["--argv0"] = <<2, 33>>
  BY DEF Since
<1>2. \A v \in Nat \X Nat, w \in Nat \X Nat :
          v[1] > w[1] \/ (v[1] = w[1] /\ v[2] >= w[2]) => ~Older(v, w)
  BY DEF Older
<1>3. CASE version = NULL
  BY <1>1, <1>3 DEF GlibcKnows
<1>4. CASE version # NULL
  <2>1. version \in Nat \X Nat /\ Since[option] \in Nat \X Nat
    BY <1>1, <1>4
  <2>2. ~Older(version, Since[option])
    BY <1>2, <1>4, <2>1 DEF Supported
  <2> QED BY <1>1, <2>2 DEF GlibcKnows
<1> QED BY <1>3, <1>4

LEMMA LoaderIs ==
    ASSUME __inchroot(env), NEW path, TypeOf(path) = "elf", Files[path].name # NULL
    PROVE  LET program == Files[path]
               interp  == path_resolution(env, program.interp)
               loader  == Files[interp]
           IN  /\ path \in Texts \ Known /\ interp \in Texts /\ TypeOf(interp) = "loader"
               /\ loader.knows \subseteq Known
               /\ \A option \in Known : Has(program, loader, option) => option \in loader.knows
               /\ ~(/\ __is_netbsd(program) \/ __is_openbsd(program)
                    /\ __is_gnu_linux_ext(program) \/ __is_musl(program))
<1> DEFINE program == Files[path]
           interp  == path_resolution(env, program.interp)
           loader  == Files[interp]
<1>1. path \in There /\ program.type = "elf"
  BY DEF TypeOf
<1>2. ProgramAssumption(program)
  BY <1>1, ExecAssumption DEF There
<1> HIDE DEF program
<1>3. program.interp \in DOMAIN Resolved /\ Resolved[program.interp] \in DOMAIN Files
  BY <1>2 DEF ProgramAssumption
<1>4. interp = Resolved[program.interp] /\ interp \in There
  BY <1>3 DEF path_resolution, Paths, There
<1> HIDE DEF interp
<1>5. /\ loader.type = "loader" /\ loader.knows \subseteq Known
      /\ program.name # NULL => \A option \in Known :
            Has(program, loader, option) => option \in loader.knows
      /\ program.name # NULL =>
            ~(/\ __is_netbsd(program) \/ __is_openbsd(program)
              /\ __is_gnu_linux_ext(program) \/ __is_musl(program))
  <2>1. /\ program.name # NULL /\ __is_gnu_linux_ext(program) =>
              /\ loader.version \in (Nat \X Nat) \cup {NULL}
              /\ GlibcKnows(loader.version) \subseteq loader.knows
        /\ program.name # NULL /\ __is_musl(program) =>
              {"--preload", "--library-path", "--argv0"} \subseteq loader.knows
    BY <1>2, <1>4 DEF ProgramAssumption
  <2>2. ASSUME program.name # NULL, NEW option \in Known, Has(program, loader, option)
        PROVE  option \in loader.knows
    <3>1. CASE __is_musl(program) /\ option \in {"--preload", "--library-path", "--argv0"}
      BY <2>1, <2>2, <3>1
    <3>2. CASE /\ __is_gnu_linux_ext(program)
               /\ option \in {"--library-path", "--inhibit-rpath"}
                  \/ (option \in DOMAIN Since /\ Supported(loader.version, option))
      <4>1. option \in GlibcKnows(loader.version)
        BY <2>1, <2>2, <3>2, SupportedIs DEF GlibcKnows
      <4> QED BY <2>1, <2>2, <3>2, <4>1
    <3> QED BY <2>2, <3>1, <3>2 DEF Has
  <2> QED BY <1>2, <1>4, <2>2 DEF ProgramAssumption
<1>6. TypeOf(interp) = "loader"
  BY <1>4, <1>5 DEF TypeOf
<1>7. path \in Texts \ Known /\ interp \in Texts
  BY <1>1, <1>4, FilesAre
<1>8. program.name # NULL
  BY DEF program
<1> QED BY <1>5, <1>6, <1>7, <1>8 DEF program, interp

\* The loader has the options the library believes it has.
Knows(program, loader) ==
    /\ loader.knows \subseteq Known
    /\ \A option \in Known : Has(program, loader, option) => option \in loader.knows

\* As many words as shift() counts, the loader's path first if it is a program.
OptionsAre(s, interp, program, loader) ==
    /\ Len(s) = shift(program, loader) /\ Len(s) <= 10 /\ Len(s) >= 1
    /\ s \in Seq(Texts) /\ s[1] = interp

LEMMA OptionsTold ==
    \A program, loader, interp, argv0 :
        Knows(program, loader) /\ Shift(program) = 1 /\ interp \in Texts /\ argv0 \in Texts \ Known
        => OptionsAre(Options(interp, program, loader, argv0), interp, program, loader)
<1> SUFFICES ASSUME NEW program, NEW loader, NEW interp, NEW argv0,
                    Knows(program, loader), Shift(program) = 1,
                    interp \in Texts, argv0 \in Texts \ Known
             PROVE  OptionsAre(Options(interp, program, loader, argv0), interp, program, loader)
  OBVIOUS
<1>1. /\ loader.knows \subseteq Known
      /\ \A option \in Known : Has(program, loader, option) => option \in loader.knows
  BY DEF Knows
<1> DEFINE s == Options(interp, program, loader, argv0)
<1>2. /\ Len(s) = shift(program, loader) /\ Len(s) \in 1..10
      /\ s \in Seq(Texts) /\ s[1] = interp
  BY <1>1, OptionsTell
<1> HIDE DEF s
<1>3. Len(s) <= 10 /\ Len(s) >= 1
  BY <1>2
<1>4. OptionsAre(s, interp, program, loader)
  BY <1>2, <1>3 DEF OptionsAre
<1> QED BY <1>4 DEF s

(***************************************************************************)
(* A loader of the jail is started.                                        *)
(***************************************************************************)
LoadedBy(image, e, program, loader, argv0, path, t, lists) ==
    /\ IsImage(image) /\ image.program = path
    /\ image.argv = <<IF Has(program, loader, "--argv0") THEN argv0 ELSE path>> \o t
    /\ image.preload = IF Has(program, loader, "--preload") THEN lists.ld_preload
                       ELSE e["LD_PRELOAD"]
    /\ image.libpath = IF Has(program, loader, "--library-path") THEN lists.ld_library_path
                       ELSE e["LD_LIBRARY_PATH"]

LEMMA LoaderStarted ==
    \A e, program, loader, interp, argv0, path, t, lists :
        /\ Knows(program, loader) /\ Shift(program) = 1 /\ interp \in Texts
        /\ argv0 \in Texts \ Known /\ path \in Texts \ Known /\ t \in Seq(Texts)
        => LoadedBy(Loaded(e, loader,
                           Append(Options(interp, program, loader, argv0), path) \o t, lists),
                    e, program, loader, argv0, path, t, lists)
<1> SUFFICES ASSUME NEW e, NEW program, NEW loader, NEW interp, NEW argv0, NEW path, NEW t,
                    NEW lists, Knows(program, loader), Shift(program) = 1, interp \in Texts,
                    argv0 \in Texts \ Known, path \in Texts \ Known, t \in Seq(Texts)
             PROVE  LoadedBy(Loaded(e, loader,
                               Append(Options(interp, program, loader, argv0), path) \o t, lists),
                        e, program, loader, argv0, path, t, lists)
  OBVIOUS
<1> DEFINE s     == Options(interp, program, loader, argv0)
           image == Loaded(e, loader, Append(s, path) \o t, lists)
           H(option) == Has(program, loader, option)
<1>0. /\ loader.knows \subseteq Known
      /\ \A option \in Known : Has(program, loader, option) => option \in loader.knows
  BY DEF Knows
<1>1. Tells(s, program, loader, argv0)
  BY <1>0, OptionsTell
<1> HIDE DEF s
<1>2. PICK told : /\ Telling(s, loader.knows, told, argv0)
                  /\ \A option \in {"--preload", "--library-path", "--argv0"} :
                        option \in told <=> H(option)
  BY <1>1 DEF Tells
<1>3. /\ image.program = path
      /\ image.argv = <<IF "--argv0" \in told THEN argv0 ELSE path>> \o t
      /\ image.preload = IF "--preload" \in told THEN lists.ld_preload ELSE e["LD_PRELOAD"]
      /\ image.libpath = IF "--library-path" \in told THEN lists.ld_library_path
                         ELSE e["LD_LIBRARY_PATH"]
  <2>1. Telling(s, loader.knows, told, argv0)
    BY <1>2
  <2>2. LoadedAs(image, e, lists, told, argv0, path, t)
    <3>1. loader.knows \subseteq Known
      BY <1>0
    <3> QED BY <2>1, <3>1, LoadedIs
  <2> HIDE DEF image
  <2> QED BY <2>2 DEF LoadedAs
<1>4. IsImage(image)
  BY DEF IsImage, Loaded
<1>5. /\ "--argv0" \in told <=> H("--argv0")
      /\ "--preload" \in told <=> H("--preload")
      /\ "--library-path" \in told <=> H("--library-path")
  BY <1>2
<1> HIDE DEF image
<1>6. LoadedBy(image, e, program, loader, argv0, path, t, lists)
  BY <1>3, <1>4, <1>5 DEF LoadedBy
<1> QED BY <1>6 DEF image, s

(***************************************************************************)
(* The arguments of __ldso()'s call.                                       *)
(***************************************************************************)
\* A call with f for the environment, the options, the program, and t after them.
Made(call, f, program, options, path, tail, t) ==
    /\ call.env = f /\ t \in Seq(Texts)
    /\ call.lists.ld_preload = __ld_preload(program)
    /\ call.lists.ld_library_path = __ld_library_path(env, program)
    /\ call.argv = Append(options, path) \o t
    /\ call.file = (Append(options, path) \o tail)[1]
    /\ Len(call.argv) \in Nat /\ Len(call.argv) <= Len(t) + 11

LEMMA CallMade ==
    ASSUME __inchroot(env), NEW path, TypeOf(path) = "elf", Files[path].name # NULL,
           NEW interp, interp = path_resolution(env, Files[path].interp),
           NEW interparg \in Seq(Texts), Len(interparg) \in 1..3, NEW rest \in Seq(Texts),
           NEW options, options = Options(interp, Files[path], Files[interp], interparg[1]),
           options \in Seq(Texts), Len(options) = shift(Files[path], Files[interp]),
           Len(options) <= 10
    PROVE  Made(__ldso(env, path, interparg, rest, FALSE),
                LoaderEnv(env, Files[path], Files[interp], interparg[1]),
                Files[path], options, path, Tail(interparg), Tail(interparg) \o rest)
<1> DEFINE program == Files[path]
           loader  == Files[interp]
           f       == LoaderEnv(env, program, loader, interparg[1])
           tail    == Tail(interparg)
           t       == tail \o rest
           nargv   == Shifted(interparg, options, Len(options), path)
           written == Append(options, path)
           lists   == [ld_preload |-> __ld_preload(program),
                       ld_library_path |-> __ld_library_path(env, program)]
           call    == __ldso(env, path, interparg, rest, FALSE)
<1>1. path \in Texts
  BY LoaderIs
<1>2. call = Call(f, nargv[1], nargv \o rest, lists)
  <2>1. TypeOf(path) # "missing"
    OBVIOUS
  <2> QED BY <2>1 DEF __ldso
<1>3. nargv = written \o tail
  <2>1. interparg # <<>>
    OBVIOUS
  <2> QED BY <1>1, <2>1, ShiftedIs
<1>4. written \in Seq(Texts) /\ Len(written) = Len(options) + 1 /\ Len(options) \in Nat
  BY <1>1
<1>5. tail \in Seq(Texts)
  OBVIOUS
<1> HIDE DEF f, tail, nargv, written, call
<1>6. nargv \o rest = written \o t
  <2>1. written \in Seq(Texts) /\ tail \in Seq(Texts) /\ rest \in Seq(Texts)
    BY <1>4, <1>5
  <2>2. (written \o tail) \o rest = written \o (tail \o rest)
    <3>1. \A S : \A a, b, c \in Seq(S) : Join(Join(a, b), c) = Join(a, Join(b, c))
      BY Associative
    <3>2. Join(Join(written, tail), rest) = Join(written, Join(tail, rest))
      BY <2>1, <3>1
    <3> QED BY <3>2 DEF Join
  <2> QED BY <1>3, <2>2
<1>7. t \in Seq(Texts) /\ Len(t) \in Nat
  BY <1>5, Joined
<1> HIDE DEF t
<1>8. Len(written \o t) = Len(written) + Len(t)
  BY <1>4, <1>7, Joined
<1>9. /\ call.env = f /\ call.file = nargv[1] /\ call.argv = nargv \o rest
      /\ call.lists = lists
  BY <1>2 DEF Call
<1>10. Len(call.argv) \in Nat /\ Len(call.argv) = Len(options) + 1 + Len(t)
  BY <1>4, <1>6, <1>7, <1>8, <1>9
<1>11. /\ call.lists.ld_preload = __ld_preload(program)
       /\ call.lists.ld_library_path = __ld_library_path(env, program)
  BY <1>9
<1>12. call.env = f /\ call.argv = written \o t /\ call.file = (written \o tail)[1]
  BY <1>3, <1>6, <1>9
<1>13. Len(call.argv) <= Len(t) + 11
  BY <1>4, <1>7, <1>10
<1>14. Made(call, f, program, options, path, tail, t)
  BY <1>7, <1>10, <1>11, <1>12, <1>13 DEF Made, written
<1> QED BY <1>14 DEF f, tail, t, call

\* Whether the loader is run as a program or not.
LEMMA LdsoRuns ==
    ASSUME __inchroot(env), EnvOK(env), NEW path, TypeOf(path) = "elf", Files[path].name # NULL,
           NEW interparg \in Seq(Texts), Len(interparg) \in 1..3,
           interparg[1] \in Texts \ Known, NEW rest \in Seq(Texts)
    PROVE  LET call == __ldso(env, path, interparg, rest, FALSE)
           IN  Becomes(call, path, interparg[1], Tail(interparg) \o rest, Image(call))
<1> DEFINE program == Files[path]
           interp  == path_resolution(env, program.interp)
           loader  == Files[interp]
           argv0   == interparg[1]
           f       == LoaderEnv(env, program, loader, argv0)
           options == Options(interp, program, loader, argv0)
           tail    == Tail(interparg)
           t       == tail \o rest
           call    == __ldso(env, path, interparg, rest, FALSE)
           H(option) == Has(program, loader, option)
<1>1. /\ path \in Texts \ Known /\ interp \in Texts /\ TypeOf(interp) = "loader"
      /\ loader.knows \subseteq Known
      /\ \A option \in Known : Has(program, loader, option) => option \in loader.knows
      /\ ~(/\ __is_netbsd(program) \/ __is_openbsd(program)
           /\ __is_gnu_linux_ext(program) \/ __is_musl(program))
  BY LoaderIs
<1>2. argv0 \in Texts \ Known
  OBVIOUS
<1>3. tail \in Seq(Texts)
  OBVIOUS
<1>4. /\ ~H("--preload") => f["LD_PRELOAD"] = __ld_preload(program)
      /\ ~H("--library-path") => f["LD_LIBRARY_PATH"] = __ld_library_path(env, program)
      /\ f["argv0"] = IF H("--argv0") THEN env["argv0"] ELSE argv0
  BY LoaderEnvIs
\* What is the same for the loaders that are programs and for those that are not.
<1>5. ASSUME options \in Seq(Texts), Len(options) = shift(program, loader), Len(options) <= 10
      PROVE  Made(call, f, program, options, path, tail, t)
  <2>1. interp = path_resolution(env, Files[path].interp)
    OBVIOUS
  <2>2. options = Options(interp, Files[path], Files[interp], interparg[1])
    OBVIOUS
  <2>3. Len(options) = shift(Files[path], Files[interp])
    BY <1>5
  <2> HIDE DEF interp, options
  <2> QED BY <1>5, <2>1, <2>2, <2>3, CallMade
<1>6. CASE Shift(program) = 1
  <2>0. Knows(program, loader)
    BY <1>1 DEF Knows
  <2>1. OptionsAre(options, interp, program, loader)
    <3> HIDE DEF loader, program, interp, argv0
    <3> QED BY <1>1, <1>2, <1>6, <2>0, OptionsTold
  <2>2. /\ Len(options) = shift(program, loader) /\ Len(options) <= 10 /\ Len(options) >= 1
        /\ options \in Seq(Texts) /\ options[1] = interp
    BY <2>1 DEF OptionsAre
  <2>3. Made(call, f, program, options, path, tail, t)
    <3> HIDE DEF options, call, t, f, tail, program, loader
    <3> QED BY <1>5, <2>2
  <2> DEFINE image == Loaded(f, loader, Append(options, path) \o t, call.lists)
             x == IF H("--argv0") THEN argv0 ELSE path
  <2>4. call.file = interp
    <3> HIDE DEF options, tail, call, interp
    <3>1. Append(options, path) \in Seq(Texts) /\ Append(options, path) # <<>>
          /\ Append(options, path)[1] = options[1]
      BY <1>1, <2>2
    <3>2. (Append(options, path) \o tail)[1] = Append(options, path)[1]
      BY <1>3, <3>1, HeadAndTail
    <3> QED BY <2>2, <2>3, <3>1, <3>2 DEF Made
  <2>5. Run(call) = image
    <3> HIDE DEF options, call, interp, f, t
    <3> QED BY <1>1, <2>3, <2>4 DEF Run, Made
  <2>6. LoadedBy(image, f, program, loader, argv0, path, t, call.lists)
    <3> HIDE DEF program, loader, interp, argv0, t, f, call
    <3>1. t \in Seq(Texts)
      BY <2>3 DEF Made
    <3> QED BY <1>1, <1>2, <1>6, <2>0, <3>1, LoaderStarted
  <2>7. x \in Texts /\ (x = argv0 \/ f["argv0"] = argv0)
    <3> HIDE DEF argv0, f, H
    <3> QED BY <1>1, <1>2, <1>4
  <2>8. Starts(image, path, x, t)
    <3> HIDE DEF image, f, call, t, loader, argv0
    <3> QED BY <1>4, <2>3, <2>6 DEF Starts, Made, LoadedBy
  <2>9. Starts(Run(call), path, x, t) /\ (x = argv0 \/ call.env["argv0"] = argv0)
    <3> HIDE DEF image, x, f, call, t, argv0
    <3> QED BY <2>3, <2>5, <2>7, <2>8 DEF Made
  <2>11. t \in Seq(Texts) /\ Len(call.argv) \in Nat /\ Len(call.argv) <= Len(t) + 11
    <3> HIDE DEF t, call
    <3> QED BY <2>3 DEF Made
  <2> HIDE DEF x, t, call, argv0
  <2>10. Becomes(call, path, argv0, t, Image(call))
    BY <1>2, <2>7, <2>9, <2>11, StartsBecomes
  <2> QED BY <2>10 DEF call, t, argv0
<1>7. CASE Shift(program) = 0
  <2>1. options = <<>> /\ shift(program, loader) = 0 /\ \A option : ~H(option)
    <3> HIDE DEF loader, program, interp, argv0
    <3> QED BY <1>1, <1>7, Unoptioned
  <2>2. options \in Seq(Texts) /\ Len(options) = 0
    <3> HIDE DEF options
    <3> QED BY <2>1
  <2>3. Made(call, f, program, options, path, tail, t)
    <3>1. Len(options) = shift(program, loader) /\ Len(options) <= 10
      BY <2>1, <2>2
    <3> HIDE DEF options, call, t, f, tail, program, loader
    <3> QED BY <1>5, <2>2, <3>1
  <2>4. Append(options, path) = <<path>>
    <3> HIDE DEF options
    <3> QED BY <2>1
  <2>5. call.argv = <<path>> \o t /\ call.file = path
    <3> HIDE DEF options, call, t, tail
    <3> DEFINE q == <<path>>
    <3>1. q \in Seq(Texts) /\ q # <<>> /\ q[1] = path
      BY <1>1
    <3>2. Append(options, path) = q
      BY <2>4
    <3> HIDE DEF q
    <3>3. (q \o tail)[1] = q[1]
      BY <1>3, <3>1, HeadAndTail
    <3>4. call.file = path /\ call.argv = q \o t
      BY <2>3, <3>1, <3>2, <3>3 DEF Made
    <3> QED BY <3>4 DEF q
  <2> DEFINE image == [program |-> path, argv |-> <<path>> \o t,
                       preload |-> f["LD_PRELOAD"], libpath |-> f["LD_LIBRARY_PATH"]]
  <2>6. Run(call) = image
    <3> HIDE DEF options, call, f, t
    <3> QED BY <2>3, <2>5 DEF Run, Made
  <2>7. f["LD_PRELOAD"] = __ld_preload(program)
        /\ f["LD_LIBRARY_PATH"] = __ld_library_path(env, program) /\ f["argv0"] = argv0
    <3> HIDE DEF f, argv0, H
    <3> QED BY <1>4, <2>1
  <2>8. Starts(image, path, path, t)
    <3> HIDE DEF f, t
    <3> QED BY <2>7 DEF Starts, IsImage, program
  <2>9. Starts(Run(call), path, path, t) /\ call.env["argv0"] = argv0
    <3> HIDE DEF image, f, call, t, argv0
    <3> QED BY <2>3, <2>6, <2>7, <2>8 DEF Made
  <2>11. t \in Seq(Texts) /\ Len(call.argv) \in Nat /\ Len(call.argv) <= Len(t) + 11
    <3> HIDE DEF t, call
    <3> QED BY <2>3 DEF Made
  <2> HIDE DEF t, call, argv0
  <2>10. Becomes(call, path, argv0, t, Image(call))
    BY <1>1, <1>2, <2>9, <2>11, StartsBecomes
  <2> QED BY <2>10 DEF call, t, argv0
<1> QED BY <1>6, <1>7, ShiftIs

-----------------------------------------------------------------------------
(* What runs in the jail *)

\* The calls of the jail that run the program they name run it with its arguments.
LEMMA JailRuns ==
    ASSUME IInv, __inchroot(env), NEW path \in Paths \ LdsoNames, NEW argv \in Argvs,
           RunsProgram(ExecBy("execve", env, path, argv, FALSE), path)
    PROVE  LET program == Program(env, path, argv)
               call    == ExecBy("execve", env, path, argv, FALSE)
           IN  /\ TypeOf(program.path) = "elf" /\ Files[program.path].name # NULL
               /\ Becomes(call, program.path, program.interparg[1],
                          Tail(program.interparg) \o Tail(argv), Image(call))
<1> DEFINE program   == Program(env, path, argv)
           interparg == program.interparg
           file      == program.path
           rest      == Tail(argv)
           call      == ExecBy("execve", env, path, argv, FALSE)
           ldso      == __ldso(env, file, interparg, rest, FALSE)
<1>1. TypeOf(file) = "elf" /\ Files[file].name # NULL /\ call = ldso
  BY JailCall
<1>2. interparg \in Seq(Texts) /\ Len(interparg) \in 1..3 /\ interparg[1] \in Texts \ Known
  BY InterpargIs
<1>3. argv \in Seq(Texts) /\ argv # <<>>
  BY ArgvsAre
<1>4. rest \in Seq(Texts)
  BY <1>3
<1>5. EnvOK(env)
  BY DEF IInv
<1> HIDE DEF interparg, file, rest, program
<1>6. Becomes(ldso, file, interparg[1], Tail(interparg) \o rest, Image(ldso))
  BY <1>1, <1>2, <1>4, <1>5, LdsoRuns
<1> HIDE DEF call, ldso
<1>7. Becomes(call, file, interparg[1], Tail(interparg) \o rest, Image(call))
  BY <1>1, <1>6
<1> QED BY <1>1, <1>7 DEF call, program, interparg, file, rest

LEMMA FitsHolds == IInv => InterpargFits
<1> SUFFICES ASSUME IInv, __inchroot(env), NEW path \in Paths \ LdsoNames, NEW argv \in Argvs,
                    NEW call, call = ExecBy("execve", env, path, argv, FALSE),
                    RunsProgram(call, path)
             PROVE  Len(call.argv) - Len(Tail(argv)) <= 14
  BY DEF InterpargFits, ForRunning
<1> DEFINE program   == Program(env, path, argv)
           interparg == program.interparg
           tail      == Tail(interparg)
           rest      == Tail(argv)
           t         == tail \o rest
<1>1. Becomes(call, program.path, interparg[1], t, Image(call))
  BY JailRuns
<1>2. interparg \in Seq(Texts) /\ Len(interparg) \in 1..3
  BY InterpargIs
<1>3. rest \in Seq(Texts) /\ Len(rest) \in Nat
  BY ArgvsAre
<1> HIDE DEF rest, interparg
<1>4. tail \in Seq(Texts) /\ Len(tail) \in Nat /\ Len(tail) <= 2
  <2>1. \A s \in Seq(Texts) :
           s # <<>> => Tail(s) \in Seq(Texts) /\ Len(Tail(s)) = Len(s) - 1
    OBVIOUS
  <2>2. interparg # <<>>
    BY <1>2
  <2>3. tail \in Seq(Texts) /\ Len(tail) = Len(interparg) - 1
    BY <1>2, <2>1, <2>2
  <2> HIDE DEF tail
  <2> QED BY <1>2, <2>3
<1> HIDE DEF tail
<1>5. Len(t) = Len(tail) + Len(rest)
  BY <1>3, <1>4, Joined
<1> HIDE DEF t
<1>6. Len(call.argv) \in Nat /\ Len(call.argv) <= Len(t) + 11
  BY <1>1 DEF Becomes
<1>7. Len(call.argv) - Len(rest) <= 14
  <2>1. \A a, b, c, d : /\ a \in Nat /\ b \in Nat /\ c \in Nat /\ c <= 2
                       /\ d = c + b /\ a <= d + 11 => a - b <= 14
    OBVIOUS
  <2>2. Len(t) = Len(tail) + Len(rest)
    BY <1>5
  <2> QED BY <1>3, <1>4, <1>6, <2>1, <2>2
<1> QED BY <1>7 DEF rest

(***************************************************************************)
(* However the loader is told, what is put before the arguments of the     *)
(* program fits in the room that interparg has: the path of the loader,    *)
(* nine words of options and the program, and at most two words more that  *)
(* a script adds.                                                          *)
(***************************************************************************)
THEOREM ArgumentsFit == Spec => []InterpargFits
BY Invariance, FitsHolds, PTL

(***************************************************************************)
(* A build that there is for a program of the jail is the one it is given, *)
(* and the loader of the program takes it.                                 *)
(***************************************************************************)
LEMMA ProvidedLoads ==
    \A program : Provided(program) /\ program.name # NULL
                 => Loads(__getlibiamroot(program), program)
<1> SUFFICES ASSUME NEW program, Provided(program), program.name # NULL
             PROVE  Loads(__getlibiamroot(program), program)
  OBVIOUS
<1> DEFINE build == Build(program)
           lib   == __getlibiamroot(program)
           In(dir) == IF dir = NULL THEN NULL ELSE __libiamroot_access(program, dir)
<1>1. /\ \A dir \in DOMAIN Installed : \A b \in DOMAIN Installed[dir] :
            /\ Installed[dir][b] \in DOMAIN BuiltFor
            /\ b # Host => b.machine # NULL /\ BuiltFor[Installed[dir][b]] = b
      /\ \A b \in DOMAIN LibVariables :
            LibVariables[b] \in DOMAIN BuiltFor /\ BuiltFor[LibVariables[b]] = b
  BY ExecAssumption DEF InstalledAssumption
<1>2. build.machine = __machine(program) /\ build.name = program.name /\ build # Host
  BY DEF Build, Host
<1>3. NULL \notin DOMAIN BuiltFor
  BY ExecAssumption
<1>4. Prefix \in DOMAIN Installed /\ Origin \in DOMAIN Installed \cup {NULL}
  BY LoadersAssumption
<1>5. lib = IF build \in DOMAIN LibVariables THEN LibVariables[build]
            ELSE IF In(Origin) # NULL THEN In(Origin)
            ELSE IF In(Prefix) # NULL THEN In(Prefix)
            ELSE IF HardCoded(program) \in DOMAIN Installed[Prefix]
            THEN Installed[Prefix][HardCoded(program)]
            ELSE IF IAMROOT_LIB # NULL THEN IAMROOT_LIB
            ELSE "libiamroot.so"
  BY DEF __getlibiamroot
<1> HIDE DEF build, lib
<1>6. ASSUME NEW dir, dir \in DOMAIN Installed, dir # NULL, build \in DOMAIN Installed[dir]
      PROVE  In(dir) \in DOMAIN BuiltFor /\ BuiltFor[In(dir)] = build
  <2>1. build.machine # NULL /\ Installed[dir][build] \in DOMAIN BuiltFor
        /\ BuiltFor[Installed[dir][build]] = build
    BY <1>1, <1>2, <1>6
  <2>2. __libiamroot_access(program, dir) = Installed[dir][build]
    BY <1>2, <1>6, <2>1 DEF __libiamroot_access, build
  <2> QED BY <1>6, <2>1, <2>2
<1>7. ASSUME NEW dir, dir \in DOMAIN Installed, build \notin DOMAIN Installed[dir],
             Host \notin DOMAIN Installed[dir]
      PROVE  In(dir) = NULL
  BY <1>7 DEF __libiamroot_access, build
<1> HIDE DEF In
<1>8. CASE build \in DOMAIN LibVariables
  <2>1. lib \in DOMAIN BuiltFor /\ BuiltFor[lib] = build
    BY <1>1, <1>5, <1>8
  <2> QED BY <2>1 DEF Loads, build, lib
<1>9. CASE build \notin DOMAIN LibVariables
  <2>1. PICK dir \in {Origin, Prefix} \ {NULL} :
           /\ build \in DOMAIN Installed[dir]
           /\ dir = Origin \/ Origin = NULL \/ Host \notin DOMAIN Installed[Origin]
    BY <1>9 DEF Provided, build
  <2>2. dir \in DOMAIN Installed
    BY <1>4, <2>1
  <2>3. In(dir) \in DOMAIN BuiltFor /\ BuiltFor[In(dir)] = build /\ In(dir) # NULL
    BY <1>3, <1>6, <2>1, <2>2
  <2>4. CASE dir = Origin
    <3>1. lib = In(dir)
      BY <1>5, <1>9, <2>3, <2>4
    <3> QED BY <2>3, <3>1 DEF Loads, build, lib
  <2>5. CASE dir # Origin
    <3>1. dir = Prefix
      BY <2>1, <2>5
    <3>2. CASE In(Origin) = NULL
      <4>1. lib = In(dir)
        BY <1>5, <1>9, <2>3, <3>1, <3>2
      <4> QED BY <2>3, <4>1 DEF Loads, build, lib
    <3>3. CASE In(Origin) # NULL
      <4>1. Origin # NULL
        BY <3>3 DEF In
      <4>2. Origin \in DOMAIN Installed /\ Host \notin DOMAIN Installed[Origin]
        BY <1>4, <2>1, <2>5, <4>1
      <4>3. build \in DOMAIN Installed[Origin]
        BY <1>7, <3>3, <4>2
      <4>4. In(Origin) \in DOMAIN BuiltFor /\ BuiltFor[In(Origin)] = build
        BY <1>6, <4>1, <4>2, <4>3
      <4>5. lib = In(Origin)
        BY <1>5, <1>9, <3>3
      <4> QED BY <4>4, <4>5 DEF Loads, build, lib
    <3> QED BY <3>2, <3>3
  <2> QED BY <2>4, <2>5
<1> QED BY <1>8, <1>9

LEMMA LibrariesAre == Libraries \subseteq Texts
<1>1. DOMAIN BuiltFor \subseteq Texts /\ "libiamroot.so" \in Texts
  BY ExecAssumption DEF Texts, Literals
<1>2. ASSUME NEW list, list \in Seq(Texts) PROVE ToSet(list) \subseteq Texts
  BY <1>2 DEF ToSet
<1>3. Needed \in Seq(Texts) /\ Own["LD_PRELOAD"] \in Seq(Texts)
  BY ExecAssumption DEF Words, Texts
<1>4. ToSet(Needed) \subseteq Texts /\ ToSet(Own["LD_PRELOAD"]) \subseteq Texts
  BY <1>2, <1>3
<1> QED BY <1>1, <1>4 DEF Libraries

LEMMA PreloadedHolds == IInv => PreloadedInTheJail
<1> SUFFICES ASSUME IInv, __inchroot(env), NEW path \in Paths \ LdsoNames, NEW argv \in Argvs,
                    NEW call, call = ExecBy("execve", env, path, argv, FALSE),
                    RunsProgram(call, path), NEW image, image = Image(call)
             PROVE  /\ TypeOf(image.program) = "elf" /\ Provided(Files[image.program]) =>
                          Preloads(image)
                    /\ image.libpath # NULL
                    /\ \A i \in DOMAIN image.libpath : image.libpath[i].roots > 0
  BY DEF PreloadedInTheJail, ForRunning
<1> DEFINE program == Program(env, path, argv)
           file    == program.path
           so      == __getlibiamroot(Files[file])
           libpath == __ld_library_path(env, Files[file])
<1>1. /\ TypeOf(file) = "elf" /\ Files[file].name # NULL
      /\ Becomes(call, file, program.interparg[1],
                 Tail(program.interparg) \o Tail(argv), Image(call))
  BY JailRuns
<1>2. /\ image.program = file /\ image.preload = __ld_preload(Files[file])
      /\ image.libpath = libpath
  BY <1>1 DEF Becomes
<1>3. Rooted(libpath)
  BY LibraryPathIs DEF IInv
<1>4. so \in ToSet(image.preload) /\ image.preload \in Seq(Libraries)
  BY <1>2, PreloadIs
<1> HIDE DEF file, so, libpath
<1>5. image.libpath # NULL /\ \A i \in DOMAIN image.libpath : image.libpath[i].roots > 0
  <2>1. NULL \notin Seq(LooseEntries)
    BY ExecAssumption DEF LooseEntries
  <2> QED BY <1>2, <1>3, <2>1 DEF Rooted
<1>6. ASSUME Provided(Files[image.program]) PROVE Preloads(image)
  <2>1. Loads(so, Files[file])
    BY <1>1, <1>2, <1>6, ProvidedLoads DEF so
  <2>2. image.preload # NULL
    <3>1. Libraries \subseteq Texts
      BY LibrariesAre
    <3>2. image.preload \in Seq(Texts)
      <4>1. \A list : list \in Seq(Libraries) =>
               Len(list) \in Nat /\ list \in [1..Len(list) -> Libraries]
        OBVIOUS
      <4> DEFINE list == image.preload
      <4>2. Len(list) \in Nat /\ list \in [1..Len(list) -> Libraries]
        BY <1>4, <4>1
      <4> HIDE DEF list
      <4>3. list \in [1..Len(list) -> Texts]
        BY <3>1, <4>2
      <4>4. list \in Seq(Texts)
        BY <4>2, <4>3
      <4> QED BY <4>4 DEF list
    <3>3. NULL \notin Seq(Texts)
      BY ExecAssumption DEF Texts
    <3> QED BY <3>2, <3>3
  <2> QED BY <1>1, <1>2, <1>4, <2>1, <2>2 DEF Preloads
<1> QED BY <1>5, <1>6

(***************************************************************************)
(* A program of the jail that there is a build of the library for runs     *)
(* with it preloaded, and looks for its libraries under the root only,     *)
(* whatever loader it has, whichever of the loader's options there are,    *)
(* and whatever earlier calls, or the program, left in the environment.    *)
(***************************************************************************)
THEOREM PreloadedAlways == Spec => []PreloadedInTheJail
BY Invariance, PreloadedHolds, PTL

-----------------------------------------------------------------------------
(* The arguments *)

\* The image of a call is what the reference says.
SameRun(call, image, reference) ==
    /\ image.program = reference.program
    /\ Tail(image.argv) = Tail(reference.argv)
    /\ Preloads(image) /\ call.env["argv0"] \in {NULL, reference.argv[1]} =>
          image.argv[1] = reference.argv[1]

LEMMA SameInTheJail ==
    ASSUME IInv, __inchroot(env), NEW path \in Paths \ LdsoNames, NEW argv \in Argvs,
           RunsProgram(ExecBy("execve", env, path, argv, FALSE), path),
           OneWord(path_resolution(env, path))
    PROVE  LET call == ExecBy("execve", env, path, argv, FALSE)
           IN  SameRun(call, Image(call), Reference(path_resolution(env, path), path, argv))
<1> DEFINE program   == Program(env, path, argv)
           call      == ExecBy("execve", env, path, argv, FALSE)
           image     == Image(call)
           reference == Reference(path_resolution(env, path), path, argv)
           t         == Tail(program.interparg) \o Tail(argv)
<1>1. Becomes(call, program.path, program.interparg[1], t, image)
  BY JailRuns
<1>2. SameAsReference(program, reference, t)
  BY SameProgram
<1> HIDE DEF program, call, image, reference, t
<1>3. SameRun(call, image, reference)
  BY <1>1, <1>2 DEF Becomes, SameAsReference, SameRun
<1> QED BY <1>3 DEF call, image, reference

LEMMA Split == \A s : s \in Seq(Texts) /\ s # <<>> =>
                  /\ s = <<s[1]>> \o Tail(s) /\ s[1] \in Texts /\ Tail(s) \in Seq(Texts)
<1> SUFFICES ASSUME NEW s, s \in Seq(Texts), s # <<>>
             PROVE  s = <<s[1]>> \o Tail(s) /\ s[1] \in Texts /\ Tail(s) \in Seq(Texts)
  OBVIOUS
<1> DEFINE q == <<s[1]>>
           r == Tail(s)
           u == q \o r
<1>1. Len(s) \in Nat /\ Len(s) >= 1 /\ s[1] \in Texts
  OBVIOUS
<1>2. r \in Seq(Texts) /\ Len(r) = Len(s) - 1 /\ \A k \in 1..(Len(s) - 1) : r[k] = s[k + 1]
  OBVIOUS
<1>3. q \in Seq(Texts) /\ Len(q) = 1 /\ q[1] = s[1]
  BY <1>1
<1> HIDE DEF q, r
<1>4. /\ u \in Seq(Texts) /\ Len(u) = Len(q) + Len(r)
      /\ \A k \in 1..Len(q) : u[k] = q[k]
      /\ \A k \in 1..Len(r) : u[Len(q) + k] = r[k]
  <2>1. q \in Seq(Texts) /\ r \in Seq(Texts)
    BY <1>2, <1>3
  <2> QED BY <2>1, Joined
<1> HIDE DEF u
<1>5. Len(u) = Len(s)
  BY <1>1, <1>2, <1>3, <1>4
<1>6. ASSUME NEW k \in 1..Len(s) PROVE u[k] = s[k]
  <2>1. CASE k = 1
    BY <1>3, <1>4, <2>1
  <2>2. CASE k # 1
    <3> DEFINE j == k - 1
    <3>1. j \in 1..(Len(s) - 1) /\ j + 1 = k /\ 1 + j = k
      BY <1>1, <2>2
    <3> HIDE DEF j
    <3>2. u[1 + j] = r[j] /\ r[j] = s[j + 1]
      BY <1>2, <1>3, <1>4, <3>1
    <3> QED BY <3>1, <3>2
  <2> QED BY <2>1, <2>2
<1>7. \A a \in Seq(Texts) : a = [k \in 1..Len(a) |-> a[k]]
  OBVIOUS
<1>8. s = [k \in 1..Len(s) |-> s[k]] /\ u = [k \in 1..Len(u) |-> u[k]]
  BY <1>4, <1>7
<1>9. u = s
  BY <1>5, <1>6, <1>8
<1> QED BY <1>1, <1>2, <1>9 DEF u, q, r

(***************************************************************************)
(* Out of the jail the kernel is given the call as it is, with the library *)
(* to preload in the environment.                                          *)
(***************************************************************************)
LEMMA HostCall ==
    ASSUME ~__inchroot(env), NEW path, NEW argv,
           RunsProgram(ExecBy("execve", env, path, argv, FALSE), path)
    PROVE  /\ TypeOf(path) \in {"elf", "script"} /\ path_resolution(env, path) = path
           /\ ExecBy("execve", env, path, argv, FALSE)
              = Call(__preload_so(env), path, argv, <<>>)
<1> DEFINE call  == ExecBy("execve", env, path, argv, FALSE)
           can   == __can_exec(path)
           shell == __exec_sh(env, path, argv, FALSE)
           plain == Call(__preload_so(env), path, argv, <<>>)
<1>1. call.errno = "" /\ call.file # "exec.sh" /\ Runs(call.file)
  BY DEF RunsProgram
<1>2. path_resolution(env, path) = path
  BY DEF path_resolution
<1>3. can \in {"ENOENT", "ENOEXEC", "ENOTSUP", "no", "yes"}
  BY DEF __can_exec
<1>4. call = IF can \notin {"yes", "no"} THEN Errno(env, can)
             ELSE IF can = "no" THEN shell ELSE plain
  BY <1>2 DEF ExecBy
<1>5. shell.file = "exec.sh" /\ plain.file = path
  BY DEF __exec_sh, Call
<1> HIDE DEF call, shell, plain
<1>6. can = "yes" /\ call = plain
  <2>1. can \in {"yes", "no"}
    <3> HIDE DEF can
    <3> QED BY <1>1, <1>3, <1>4, ErrnoIs
  <2> HIDE DEF can
  <2> QED BY <1>1, <1>4, <1>5, <2>1
<1>7. path # "exec.sh" /\ TypeOf(path) \notin {"missing", "empty", "noexec"}
  BY <1>1, <1>5, <1>6 DEF Runs
<1>8. TypeOf(path) \notin {"other", "special", "loader"}
  BY <1>2, <1>6 DEF __can_exec, RunsProgram
<1>9. TypeOf(path) \in Types \cup {"missing"}
  BY ExecAssumption DEF TypeOf, There
<1> QED BY <1>2, <1>6, <1>7, <1>8, <1>9 DEF Types, call, plain

LEMMA SameOnTheHost ==
    ASSUME ~__inchroot(env), NEW path \in Paths, NEW argv \in Argvs,
           RunsProgram(ExecBy("execve", env, path, argv, FALSE), path)
    PROVE  LET call == ExecBy("execve", env, path, argv, FALSE)
           IN  SameRun(call, Image(call), Reference(path_resolution(env, path), path, argv))
<1> DEFINE call      == ExecBy("execve", env, path, argv, FALSE)
           e         == call.env
           old       == Run(call)
           new       == Image(call)
           reference == Reference(path_resolution(env, path), path, argv)
           words     == Files[path].words
<1>1. /\ TypeOf(path) \in {"elf", "script"} /\ path_resolution(env, path) = path
      /\ call = Call(__preload_so(env), path, argv, <<>>)
  BY HostCall
<1>2. call.file = path /\ call.argv = argv
  <2>1. \A f, p, a, l : Call(f, p, a, l).file = p /\ Call(f, p, a, l).argv = a
    BY DEF Call
  <2> HIDE DEF call
  <2> QED BY <1>1, <2>1
<1>3. argv \in Seq(Texts) /\ argv # <<>> /\ path \in Texts
  BY ArgvsAre, PathsAre
<1> HIDE DEF call
<1>4. IsImage(old) /\ old.program = reference.program /\ old.argv = reference.argv
      /\ reference.argv \in Seq(Texts) /\ reference.argv # <<>>
  <2>1. CASE TypeOf(path) = "elf"
    BY <1>1, <1>2, <1>3, <2>1 DEF Run, Reference, IsImage
  <2>2. CASE TypeOf(path) = "script"
    <3>1. reference = [program |-> path_resolution(env, words[1]),
                       argv |-> Append(words, path) \o Tail(argv)]
      BY <1>1, <2>2 DEF Reference
    <3>2. path_resolution(env, words[1]) = words[1]
      BY DEF path_resolution
    <3>3. words \in Seq(Texts) /\ words # <<>>
      BY <2>2, ScriptsAre
    <3>4. /\ old.program = words[1] /\ old.argv = Append(words, path) \o Tail(argv)
          /\ IsImage(old)
      BY <1>2, <2>2 DEF Run, IsImage
    <3> HIDE DEF words, old, reference
    <3>5. Tail(argv) \in Seq(Texts) /\ Append(words, path) \in Seq(Texts)
          /\ Len(Append(words, path)) = Len(words) + 1 /\ Len(words) \in Nat
      BY <1>3, <3>3, Split
    <3> DEFINE a == Append(words, path)
               t == Tail(argv)
    <3>6. a \o t \in Seq(Texts) /\ Len(a \o t) = Len(a) + Len(t) /\ Len(t) \in Nat /\ Len(a) > 0
      <4>1. a \in Seq(Texts) /\ t \in Seq(Texts) /\ Len(a) > 0
        BY <3>5
      <4> HIDE DEF a, t
      <4> QED BY <4>1, Joined
    <3>7. a \o t # <<>>
      <4> DEFINE u == a \o t
      <4>1. u \in Seq(Texts) /\ Len(u) > 0
        <5> HIDE DEF a, t
        <5>1. Len(a) \in Nat \/ Len(a) > 0
          BY <3>6
        <5> QED BY <3>6
      <4> HIDE DEF u
      <4>2. u # <<>>
        BY <4>1
      <4> QED BY <4>2 DEF u
    <3>8. reference.program = words[1] /\ reference.argv = a \o t
      BY <3>1, <3>2
    <3> HIDE DEF a, t
    <3>9. old.argv = a \o t
      BY <3>4 DEF a, t
    <3> QED BY <3>4, <3>6, <3>7, <3>8, <3>9
  <2> QED BY <1>1, <2>1, <2>2
<1>5. new = __libc_start_main(e, old)
  BY DEF Image
<1>6. NULL \notin Texts
  BY ExecAssumption DEF Texts
<1> HIDE DEF old, new, e, reference
<1> DEFINE x == reference.argv[1]
           t == Tail(reference.argv)
<1>7. old.argv = <<x>> \o t /\ x \in Texts /\ t \in Seq(Texts)
  BY <1>4, Split
<1> HIDE DEF x, t
<1>8. /\ new.program = old.program /\ new.preload = old.preload
      /\ new.libpath = old.libpath /\ Tail(new.argv) = t
      /\ new.argv[1] = IF Preloads(old) /\ e["argv0"] # NULL THEN e["argv0"] ELSE x
  BY <1>4, <1>5, <1>7, StartsWith
<1>9. SameRun(call, new, reference)
  BY <1>4, <1>6, <1>7, <1>8 DEF SameRun, x, t, e
<1> QED BY <1>9 DEF call, new, reference

LEMMA SameHolds == IInv => SameArguments
<1> SUFFICES ASSUME IInv, NEW path \in Paths \ LdsoNames, NEW argv \in Argvs,
                    NEW call, call = ExecBy("execve", env, path, argv, FALSE),
                    RunsProgram(call, path), NEW image, image = Image(call)
             PROVE  RunsTheSame(path, argv, call, image)
  BY DEF SameArguments, ForRunning
<1> DEFINE file == path_resolution(env, path)
<1>1. ASSUME OneWord(file) PROVE SameRun(call, image, Reference(file, path, argv))
  BY <1>1, SameInTheJail, SameOnTheHost
<1> QED BY <1>1 DEF RunsTheSame, SameRun

(***************************************************************************)
(* Whatever the loader of a program is and is told, and out of the jail as *)
(* well, the program that runs is the one that was asked for, with the     *)
(* arguments execve(2) gives it.                                           *)
(***************************************************************************)
THEOREM ArgumentsKept == Spec => []SameArguments
BY Invariance, SameHolds, PTL
=============================================================================
