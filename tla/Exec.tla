--------------------------------- MODULE Exec ---------------------------------
(***************************************************************************)
(* How a program is executed.  In the jail the kernel is not given the     *)
(* program but the dynamic loader of the jail, with options that preload   *)
(* the library and name the jail's directories of libraries; a script is   *)
(* replaced by its interpreter; what cannot be preloaded goes to exec.sh.  *)
(*                                                                         *)
(* One process is followed: through an execve() into the new image, and    *)
(* through a posix_spawn() into the child or on in the parent.  A failing  *)
(* call leaves the environment as it is by then.                           *)
(***************************************************************************)
EXTENDS Loaders, SequencesExt, FiniteSetsExt, TLC

CONSTANTS
    Resolved,       \* [path of the jail -> path of the host]
    Files,          \* [path of the host -> file], see the types below
    Argvs,          \* arguments of a program
    Searches,       \* the names a PATH search tries, in order
    Needed,         \* libraries every program needs
    BuiltFor,       \* [path of a library -> build of the programs that can load it]
    Running,        \* the program of the host that runs out of the jail
    InhibitRpath,   \* IAMROOT_INHIBIT_RPATH
    LdsoNames,      \* paths whose last name is that of a loader
    Own,            \* [LD_PRELOAD, LD_LIBRARY_PATH]: lists the program may set
    MaxRoots,       \* bound: roots before an entry of a library path
    MaxEntries      \* bound: entries of LD_LIBRARY_PATH and LD_PRELOAD

\* An ELF program has the loader (interp) of its PT_INTERP and what Loaders tells it by, a
\* loader the options it knows and its version, a script the words that follow "#!";
\* "special" is set-user-ID or static; "other" is of no known format.
Types == {"elf", "loader", "script", "empty", "special", "noexec", "other"}

Words   == Seq(STRING) \ {<<>>}
Valued  == {"--preload", "--library-path", "--inhibit-rpath", "--argv0"}
Known   == Valued \cup {"--inhibit-cache"}

\* What the loader of a version of glibc knows, by its release notes; one whose file has
\* no version in its name is recent.
Older(v, w) == v[1] < w[1] \/ (v[1] = w[1] /\ v[2] < w[2])
GlibcKnows(version) ==
    LET Has_since(v) == version = NULL \/ ~Older(version, v)
    IN  {"--library-path", "--inhibit-rpath"}
        \cup {option \in {"--inhibit-cache"} : Has_since(<<2, 16>>)}
        \cup {option \in {"--preload"} : Has_since(<<2, 30>>)}
        \cup {option \in {"--argv0"} : Has_since(<<2, 33>>)}

(***************************************************************************)
(* The loader of each program is there, and knows the options those of its *)
(* C library and version do; no program has a loader of two kinds.         *)
(* Paths, the argv[0] programs are given and IAMROOT_INHIBIT_RPATH do not  *)
(* read like options.                                                      *)
(***************************************************************************)
ProgramAssumption(program) ==
    LET loader == Files[Resolved[program.interp]]
    IN  /\ program.interp \in DOMAIN Resolved /\ Resolved[program.interp] \in DOMAIN Files
        /\ loader.type = "loader" /\ loader.knows \subseteq Known
        /\ program.name # NULL =>
              /\ __is_gnu_linux_ext(program) =>
                    /\ loader.version \in (Nat \X Nat) \cup {NULL}
                    /\ GlibcKnows(loader.version) \subseteq loader.knows
              /\ __is_musl(program) =>
                    {"--preload", "--library-path", "--argv0"} \subseteq loader.knows
              /\ ~(/\ __is_netbsd(program) \/ __is_openbsd(program)
                   /\ __is_gnu_linux_ext(program) \/ __is_musl(program))

\* What a library is built for is in the names of its directory and file.
InstalledAssumption ==
    /\ \A dir \in DOMAIN Installed : \A build \in DOMAIN Installed[dir] :
          /\ Installed[dir][build] \in DOMAIN BuiltFor
          /\ build # Host =>
                build.machine # NULL /\ BuiltFor[Installed[dir][build]] = build
    /\ \A build \in DOMAIN LibVariables :
          LibVariables[build] \in DOMAIN BuiltFor /\ BuiltFor[LibVariables[build]] = build
    /\ IAMROOT_LIB \in DOMAIN BuiltFor \cup {NULL}

\* What is written between quotes is a string, which the provers have to be told.
Literals == Known \cup {"libiamroot.so", "ld_preload", "ld_library_path", "/bin/sh",
                       "/lib", "/lib64", "/usr/lib", "/usr/lib64", "/usr/pkg/lib",
                       "/usr/local/lib"}

ASSUME ExecAssumption ==
    /\ NULL \notin STRING \cup Seq(STRING) \cup Seq([roots : Nat, dir : STRING])
    /\ Literals \subseteq STRING
    /\ DOMAIN BuiltFor \subseteq STRING /\ InstalledAssumption
    /\ Resolved \in [DOMAIN Resolved -> STRING] /\ DOMAIN Resolved \subseteq STRING
    /\ "exec.sh" \notin DOMAIN Files
    /\ \A path \in DOMAIN Files :
          /\ path \in STRING \ Known
          /\ Files[path].type \in Types
          /\ Files[path].type = "elf" => ProgramAssumption(Files[path])
          /\ Files[path].type = "script" =>
                Files[path].words \in Words /\ Files[path].words[1] \notin Known
    /\ Running \in DOMAIN Files /\ Files[Running].type = "elf"
    /\ Argvs \subseteq Words /\ \A argv \in Argvs : argv[1] \notin Known
    /\ Searches \subseteq Words /\ Needed \in Seq(STRING) /\ InhibitRpath \in STRING \ Known
    /\ DOMAIN Own = {"LD_PRELOAD", "LD_LIBRARY_PATH"} /\ Own["LD_PRELOAD"] \in Words
    /\ Own["LD_LIBRARY_PATH"] \in Seq([roots : {0}, dir : STRING]) \ {<<>>}
    /\ MaxRoots \in Nat

VARIABLES
    env,            \* the variables exec has to do with
    preloaded,      \* the library is loaded in the process
    search          \* what is left of a PATH search

vars == <<env, preloaded, search>>

Variables == {"IAMROOT_ROOT", "LD_PRELOAD", "LD_LIBRARY_PATH", "ld_library_path",
              "argv0"}

Paths == DOMAIN Resolved
There == DOMAIN Files

__inchroot(e) == e["IAMROOT_ROOT"] # NULL
path_resolution(e, path) ==
    IF __inchroot(e) /\ path \in Paths THEN Resolved[path] ELSE path

TypeOf(path) == IF path \in There THEN Files[path].type ELSE "missing"

\* iamroot's own variables stay when the program gives an environment (see Environ).
_resetenv(e, envp) ==
    IF envp = NULL THEN e ELSE [envp EXCEPT !["IAMROOT_ROOT"] = e["IAMROOT_ROOT"]]

Errno(e, errno) == [errno |-> errno, env |-> e]
Call(e, file, argv, lists) ==
    [errno |-> "", env |-> e, file |-> file, argv |-> argv, lists |-> lists]

-----------------------------------------------------------------------------
(* The library paths *)

\* An entry of a library path: the directory, and how often the root is before it.
Entry(dir) == [roots |-> 0, dir |-> dir]
RootPrefixed(path) == [i \in DOMAIN path |-> [path[i] EXCEPT !.roots = @ + 1]]

\* LD_LIBRARY_PATH without the part the library itself has put there.
__getld_library_path(e) ==
    LET curr == e["LD_LIBRARY_PATH"]
        prev == e["ld_library_path"]
    IN  IF curr = NULL \/ curr = prev THEN <<>>
        ELSE IF prev # NULL /\ IsPrefix(prev, curr)
        THEN SubSeq(curr, Len(prev) + 1, Len(curr))
        ELSE curr

DefLib(program) == LET dirs == __getdeflib(program) IN [i \in DOMAIN dirs |-> Entry(dirs[i])]

\* Faulty: the root is before the default directories only.
__ld_library_path_host(e, program) ==
    RootPrefixed(DefLib(program)) \o __getld_library_path(e)

\* Without DT_RUNPATH nor DT_RPATH, and not in secure-execution mode.
__ld_library_path(e, program) ==
    RootPrefixed(DefLib(program)) \o RootPrefixed(__getld_library_path(e))

__ld_preload(program) == <<__getlibiamroot(program)>> \o Needed

\* Out of the jail the loader of the program is given the library of the program that
\* runs, again and again unless it is the host's, of that very name.
__preload_so(e) ==
    LET so == __getlibiamroot(Files[Running])
    IN  IF e["LD_PRELOAD"] = NULL THEN [e EXCEPT !["LD_PRELOAD"] = <<so>>]
        ELSE IF "libiamroot.so" \in ToSet(e["LD_PRELOAD"]) THEN e
        ELSE [e EXCEPT !["LD_PRELOAD"] = <<so>> \o @]

-----------------------------------------------------------------------------
(* The loader's command line *)

\* Faulty: --inhibit-cache is not counted.
shift_uncached(program, loader) ==
    Shift(program)
    + (IF Has(program, loader, "--argv0") THEN 2 ELSE 0)
    + (IF Has(program, loader, "--preload") THEN 2 ELSE 0)
    + (IF Has(program, loader, "--library-path") THEN 2 ELSE 0)
    + (IF Has(program, loader, "--inhibit-rpath") /\ InhibitRpath # "" THEN 2 ELSE 0)

\* How many places are made in interparg, before what is there.
shift(program, loader) ==
    shift_uncached(program, loader)
    + (IF Has(program, loader, "--inhibit-cache") THEN 1 ELSE 0)

\* What is put there: the values are pointers into the buffer of the lists.
Options(interp, program, loader, argv0) ==
    LET Told(option, words) == IF Has(program, loader, option) THEN words ELSE <<>>
    IN  (IF Shift(program) = 1 THEN <<interp>> ELSE <<>>)
        \o Told("--preload", <<"--preload", "ld_preload">>)
        \o Told("--library-path", <<"--library-path", "ld_library_path">>)
        \o (IF InhibitRpath = "" THEN <<>>
            ELSE Told("--inhibit-rpath", <<"--inhibit-rpath", InhibitRpath>>))
        \o Told("--inhibit-cache", <<"--inhibit-cache">>)
        \o Told("--argv0", <<"--argv0", argv0>>)

\* The arguments in place move up by n, all but the first; then the options and the
\* program are written over what was there.
Shifted(interparg, options, n, path) ==
    LET moved   == [i \in 1..(n + 1) |-> NULL] \o Tail(interparg)
        written == Append(options, path)
    IN  written \o SubSeq(moved, Len(written) + 1, Len(moved))

\* Faulty: the variables are emptied, not unset.
LoaderEnv_emptied(e, program, loader, argv0) ==
    [e EXCEPT
        !["LD_PRELOAD"] =
            IF Has(program, loader, "--preload") THEN <<>> ELSE __ld_preload(program),
        !["LD_LIBRARY_PATH"] =
            IF Has(program, loader, "--library-path") THEN <<>>
            ELSE __ld_library_path(e, program)]

\* The variables of the loaders that have no options, and what no option carries on.
LoaderEnv(e, program, loader, argv0) ==
    [e EXCEPT
        !["LD_PRELOAD"] =
            IF Has(program, loader, "--preload") THEN NULL ELSE __ld_preload(program),
        !["LD_LIBRARY_PATH"] =
            IF Has(program, loader, "--library-path") THEN NULL
            ELSE __ld_library_path(e, program),
        !["argv0"] = IF Has(program, loader, "--argv0") THEN @ ELSE argv0]

\* The loader's lists are made before the variables are unset; one that cannot be set
\* afterwards ends the call without them.
__ldso(e, path, interparg, rest, nomem) ==
    LET program == Files[path]
        interp  == path_resolution(e, program.interp)
        loader  == Files[interp]
        nargv   == Shifted(interparg, Options(interp, program, loader, interparg[1]),
                           shift(program, loader), path)
        untold  == \E option \in {"--preload", "--library-path", "--argv0"} :
                      ~Has(program, loader, option)
    IN  IF TypeOf(path) = "missing" THEN Errno(e, "ENOENT")
        ELSE IF program.name = NULL THEN Errno(e, "ENOTSUP")
        ELSE IF nomem /\ untold
        THEN Errno([e EXCEPT !["LD_PRELOAD"] = NULL, !["LD_LIBRARY_PATH"] = NULL], "ENOMEM")
        ELSE Call(LoaderEnv(e, program, loader, interparg[1]), nargv[1],
                  nargv \o rest,
                  [ld_preload |-> __ld_preload(program),
                   ld_library_path |-> __ld_library_path(e, program)])

-----------------------------------------------------------------------------
(* execve() *)

__can_exec(path) ==
    CASE TypeOf(path) = "missing" -> "ENOENT"
      [] TypeOf(path) = "noexec"  -> "ENOEXEC"
      [] TypeOf(path) = "other"   -> "ENOTSUP"
      [] TypeOf(path) = "special" -> "no"
      [] OTHER                    -> "yes"

\* Faulty: each word of the line is an argument, as on the BSDs.
__interpreter_script_words(file, path) ==
    IF file.type = "empty" THEN <<"/bin/sh", path>> ELSE Append(file.words, path)

\* The interpreter, the first word after it, and the script; an empty file is the
\* shell's.
__interpreter_script(file, path) ==
    IF file.type = "empty" THEN <<"/bin/sh", path>>
    ELSE Append(SubSeq(file.words, 1, Min({2, Len(file.words)})), path)

\* exec.sh runs on the host, without the library.  What it is told in variables that
\* only its messages show is left out.
__exec_sh(e, path, argv, nomem) ==
    IF nomem THEN Errno(e, "ENOMEM")
    ELSE Call([e EXCEPT !["LD_PRELOAD"] = NULL, !["LD_LIBRARY_PATH"] = NULL],
              "exec.sh", <<"exec.sh", path>> \o Tail(argv), <<>>)

\* The program and its interparg, before the loader is prepended.
Program(e, path, argv) ==
    LET program == path_resolution(e, path)
    IN  IF TypeOf(program) \in {"script", "empty"}
        THEN LET interparg == __interpreter_script(Files[program], path)
             IN  [path |-> path_resolution(e, interparg[1]), interparg |-> interparg]
        ELSE [path |-> program, interparg |-> <<argv[1]>>]

\* What next_execve() is given, or the error.  A program named like a loader is given
\* to the kernel as it is; execveat() and posix_spawn() (by) refuse it.  What __ldso()
\* has no loader for (ENOEXEC) is left to exec.sh.
ExecBy(by, e, path, argv, nomem) ==
    LET file    == path_resolution(e, path)
        can     == __can_exec(file)
        program == Program(e, path, argv)
        exec_sh == __exec_sh(e, path, argv, nomem)
    IN  IF can \notin {"yes", "no"} THEN Errno(e, can)
        ELSE IF can = "no" THEN exec_sh
        ELSE IF ~__inchroot(e)
        THEN Call(IF nomem THEN e ELSE __preload_so(e), path, argv, <<>>)
        ELSE IF path \in LdsoNames
        THEN IF by = "execve" THEN Call(e, file, argv, <<>>) ELSE Errno(e, "ENOSYS")
        ELSE IF TypeOf(program.path) \notin {"elf", "missing"} THEN exec_sh
        ELSE __ldso(e, program.path, program.interparg, Tail(argv), nomem)

-----------------------------------------------------------------------------
(* The kernel and the loaders *)

\* The first argument that is not of an option the loader knows.
Positional(loader, argv) ==
    Min({p \in 2..Len(argv) :
            /\ argv[p] \notin loader.knows
            /\ p = 2 \/ argv[p - 1] \notin Valued \cap loader.knows})

Loaded(e, loader, argv, lists) ==
    LET p == Positional(loader, argv)
        Given(option) == {k \in 2..(p - 1) : argv[k] = option}
        Value(option, default) ==
            IF Given(option) = {} THEN default ELSE argv[Max(Given(option)) + 1]
    IN  [program |-> argv[p],
         argv    |-> <<Value("--argv0", argv[p])>> \o SubSeq(argv, p + 1, Len(argv)),
         preload |-> IF Given("--preload") = {} THEN e["LD_PRELOAD"] ELSE lists.ld_preload,
         libpath |-> IF Given("--library-path") = {} THEN e["LD_LIBRARY_PATH"]
                     ELSE lists.ld_library_path]

Run(call) ==
    LET e == call.env
        plain(program, argv) ==
            [program |-> program, argv |-> argv,
             preload |-> e["LD_PRELOAD"], libpath |-> e["LD_LIBRARY_PATH"]]
    IN  CASE TypeOf(call.file) = "loader" ->
                Loaded(e, Files[call.file], call.argv, call.lists)
          [] TypeOf(call.file) = "script" ->
                plain(Files[call.file].words[1],
                      Append(Files[call.file].words, call.file) \o Tail(call.argv))
          [] OTHER -> plain(call.file, call.argv)

\* A library of another machine or C library is left aside.
Loads(lib, program) == lib \in DOMAIN BuiltFor /\ BuiltFor[lib] = Build(program)

Preloads(image) ==
    /\ image.preload # NULL /\ TypeOf(image.program) = "elf"
    /\ \E lib \in ToSet(image.preload) : Loads(lib, Files[image.program])

\* The library in the new image: argv[0] is the variable, when there is one.
__libc_start_main(e, image) ==
    IF Preloads(image) /\ e["argv0"] # NULL THEN [image EXCEPT !.argv[1] = e["argv0"]]
    ELSE image

\* The program that runs, and what it was given.
Image(call) == __libc_start_main(call.env, Run(call))

-----------------------------------------------------------------------------
(* The calls *)

Idle == search = NULL /\ preloaded

\* The lists in the environment stay small.
Bounded(e) ==
    \A name \in {"LD_PRELOAD", "LD_LIBRARY_PATH"} : e[name] # NULL =>
        /\ Len(e[name]) <= MaxEntries
        /\ name = "LD_LIBRARY_PATH" => \A i \in DOMAIN e[name] : e[name][i].roots <= MaxRoots

\* The kernel has no format for an empty file; exec.sh is a script of the host.
Runs(file) == file = "exec.sh" \/ TypeOf(file) \notin {"missing", "empty", "noexec"}

\* The new image runs, or a child runs it.
Executed(call) ==
    /\ call.errno = "" /\ Runs(call.file) /\ Bounded(call.env)
    /\ env' = call.env /\ preloaded' = Preloads(Run(call))

\* The call fails, in the library or in the kernel, or posix_spawn() returns.
Returned(call) ==
    /\ Bounded(call.env)
    /\ env' = call.env /\ UNCHANGED preloaded

\* The path cannot be resolved (see PathResolution); the environment is the new one.
Unresolved(envp) == Returned(Errno(_resetenv(env, envp), "ELOOP"))

Exec(by, path, argv, envp) ==
    /\ Idle
    /\ \/ Unresolved(envp)
       \/ \E nomem \in BOOLEAN :
             \E call \in {ExecBy(by, _resetenv(env, envp), path, argv, nomem)} :
                 Executed(call) \/ Returned(call)
    /\ UNCHANGED search

execve(path, argv, envp)      == Exec("execve", path, argv, envp)
execveat(path, argv, envp)    == Exec("execveat", path, argv, envp)
posix_spawn(path, argv, envp) == Exec("posix_spawn", path, argv, envp)
execl(path, argv)             == execve(path, argv, NULL)
execle(path, argv, envp)      == execve(path, argv, envp)

\* The system call itself: the loader is the kernel's, with the environment as it is.
\* What an image of a loader alone does is left out.
fexecve(path, argv, e) ==
    /\ Idle
    /\ \E file \in {path_resolution(env, path)} :
          \/ TypeOf(file) # "loader" /\ Executed(Call(e, file, argv, <<>>))
          \/ UNCHANGED <<env, preloaded>>
    /\ UNCHANGED search

\* The name is looked up in the directories of PATH, in order.
Search(by, names, argv, envp) ==
    /\ Idle
    /\ search' = [by |-> by, left |-> names, argv |-> argv, envp |-> envp]
    /\ UNCHANGED <<env, preloaded>>

execvpe(names, argv, envp)      == Search("execve", names, argv, envp)
execvp(names, argv)             == Search("execve", names, argv, NULL)
execv(names, argv)              == execvpe(names, argv, NULL)
execlp(names, argv)             == execvpe(names, argv, NULL)
posix_spawnp(names, argv, envp) == Search("posix_spawn", names, argv, envp)

\* A directory of PATH may be the host's name of one of the jail.
__execve(e, path) ==
    IF __inchroot(e) /\ \E p \in DOMAIN Resolved : Resolved[p] = path
    THEN CHOOSE p \in DOMAIN Resolved : Resolved[p] = path
    ELSE path

\* The errors the search goes on after; the kernel's own may be any.
GoesOn == {"ENOENT", "EACCES", "ENOTDIR"}

\* Faulty: the end of PATH is not seen, and the search starts again.
Left_again(s) == Append(Tail(s.left), Head(s.left))
Left(s) == Tail(s.left)

SearchCall(nomem) ==
    LET e    == _resetenv(env, search.envp)
        name == Head(search.left)
        path == IF search.by = "execve" THEN __execve(e, name) ELSE name
    IN  ExecBy(search.by, e, path, search.argv, nomem)

SearchNext ==
    /\ search # NULL
    /\ \/ Unresolved(search.envp) /\ search' = NULL
       \/ \E nomem \in BOOLEAN, failure \in {"ENOENT", "ENOMEM"} :
          \E call \in {SearchCall(nomem)} :
             \/ Executed(call) /\ search' = NULL
             \/ /\ Returned(call)
                /\ LET error == IF call.errno = "" THEN failure ELSE call.errno
                   IN  search' = IF error \in GoesOn /\ Left(search) # <<>>
                                 THEN [search EXCEPT !.left = Left(search)] ELSE NULL

\* chroot(), and a chdir() out of the jail (see Jail).
Root(root) ==
    /\ Idle /\ env' = [env EXCEPT !["IAMROOT_ROOT"] = root]
    /\ UNCHANGED <<preloaded, search>>

\* The program sets its own, or unsets it.
setenv(name, value) ==
    /\ Idle /\ env' = [env EXCEPT ![name] = value]
    /\ UNCHANGED <<preloaded, search>>

NoVariables == [name \in Variables |-> NULL]

Init ==
    /\ env = [NoVariables EXCEPT !["LD_PRELOAD"] = <<"libiamroot.so">>]
    /\ preloaded = TRUE
    /\ search = NULL

Envps == {NULL, NoVariables}

Next ==
    \/ \E path \in Paths, argv \in Argvs, envp \in Envps :
          \/ execve(path, argv, envp) \/ execveat(path, argv, envp)
          \/ posix_spawn(path, argv, envp) \/ execle(path, argv, envp)
    \/ \E path \in Paths, argv \in Argvs : execl(path, argv)
    \/ \E path \in Paths, argv \in Argvs, e \in {env, NoVariables} : fexecve(path, argv, e)
    \/ \E names \in Searches, argv \in Argvs, envp \in Envps :
          execvpe(names, argv, envp) \/ posix_spawnp(names, argv, envp)
    \/ \E names \in Searches, argv \in Argvs :
          execvp(names, argv) \/ execv(names, argv) \/ execlp(names, argv)
    \/ SearchNext
    \/ \E root \in {NULL, "/rt"} : Root(root)
    \/ \E name \in DOMAIN Own : setenv(name, Own[name]) \/ setenv(name, NULL)

Spec == Init /\ [][Next]_vars /\ WF_vars(SearchNext)

-----------------------------------------------------------------------------
(* Properties *)

Libraries == DOMAIN BuiltFor \cup {"libiamroot.so"} \cup ToSet(Needed) \cup ToSet(Own["LD_PRELOAD"])
Entries   == [roots : 0..MaxRoots + 1, dir : STRING]

\* The variables of the lists are unset or have something, never an empty list: an empty
\* LD_LIBRARY_PATH is the working directory.
ExecTypeOK ==
    /\ DOMAIN env = Variables
    /\ env["LD_PRELOAD"] \in (Seq(Libraries) \ {<<>>}) \cup {NULL}
    /\ env["LD_LIBRARY_PATH"] \in (Seq(Entries) \ {<<>>}) \cup {NULL}
    /\ preloaded \in BOOLEAN
    /\ search = NULL \/ search.left # <<>>

\* What execve(2) makes of a call: a script is given to its interpreter.
Reference(file, path, argv) ==
    LET words == IF TypeOf(file) = "empty" THEN <<"/bin/sh">> ELSE Files[file].words
    IN  IF TypeOf(file) \in {"script", "empty"}
        THEN [program |-> path_resolution(env, words[1]),
              argv    |-> Append(words, path) \o Tail(argv)]
        ELSE [program |-> file, argv |-> argv]

\* The kernel gives the words after the interpreter as one; the library only the first.
OneWord(file) == TypeOf(file) = "script" => Len(Files[file].words) <= 2

\* The call runs the program it names, and not one that its arguments name as they do to
\* a loader.
RunsProgram(call, path) ==
    /\ call.errno = "" /\ Runs(call.file) /\ call.file # "exec.sh"
    /\ TypeOf(path_resolution(env, path)) # "loader"

\* Every such call the process may make now.
ForRunning(Holds(_, _, _, _)) ==
    Idle => \A path \in Paths \ LdsoNames, argv \in Argvs :
        \A call \in {ExecBy("execve", env, path, argv, FALSE)} :
            RunsProgram(call, path) => \A image \in {Image(call)} : Holds(path, argv, call, image)

\* The image has the program and the arguments that execve(2) gives it.
RunsTheSame(path, argv, call, image) ==
    LET file == path_resolution(env, path)
        reference == Reference(file, path, argv)
    IN  OneWord(file) =>
            /\ image.program = reference.program
            /\ Tail(image.argv) = Tail(reference.argv)
            /\ Preloads(image) /\ call.env["argv0"] \in {NULL, reference.argv[1]} =>
                  image.argv[1] = reference.argv[1]

(***************************************************************************)
(* Whatever the loader is told, and however the arguments were moved to    *)
(* make room for it, the program that runs is the one execve() was asked   *)
(* for, with its arguments: the loader knows every option it is given, and *)
(* takes none of them for the program.  With the library the program has   *)
(* its own argv[0], while no program run behind a loader without --argv0   *)
(* has left the variable argv0 behind.                                     *)
(***************************************************************************)
SameArguments == ForRunning(RunsTheSame)

\* There is a build of the library for the program, that the host's does not hide.
Provided(program) ==
    \/ Build(program) \in DOMAIN LibVariables
    \/ \E dir \in {Origin, Prefix} \ {NULL} :
          /\ Build(program) \in DOMAIN Installed[dir]
          /\ dir = Origin \/ Origin = NULL \/ Host \notin DOMAIN Installed[Origin]

(***************************************************************************)
(* A program of the jail runs with the library preloaded, in the build of  *)
(* its machine and C library when there is one, and finds its libraries    *)
(* under the root only, whichever way its loader is told, and whatever an  *)
(* earlier call that failed has left in the environment.                   *)
(***************************************************************************)
PreloadedInTheJail ==
    LET Kept(path, argv, call, image) ==
            /\ TypeOf(image.program) = "elf" /\ Provided(Files[image.program]) =>
                  Preloads(image)
            /\ image.libpath # NULL
            /\ \A i \in DOMAIN image.libpath : image.libpath[i].roots > 0
    IN  __inchroot(env) => ForRunning(Kept)

\* interparg has room for fourteen arguments and the end.
InterpargFits ==
    LET Fits(path, argv, call, image) == Len(call.argv) - Len(Tail(argv)) <= 14
    IN  __inchroot(env) => ForRunning(Fits)

\* A PATH search ends, in a program or in an error.
SearchEnds == search # NULL ~> search = NULL

=============================================================================
