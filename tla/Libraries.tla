------------------------------ MODULE Libraries ------------------------------
(***************************************************************************)
(* How the shared objects a program needs are found and loaded.  The       *)
(* dynamic loader of the jail would look for them on the host, so the      *)
(* library looks for them itself: before an exec it lists the objects to   *)
(* preload, dlopen() opens the objects needed by the one it is asked for   *)
(* before that one, and ldd lists them.  Each is a walk of the DT_NEEDED   *)
(* entries, by recursion; its frames are kept here as a stack, and the     *)
(* walks of several threads interleave.                                    *)
(***************************************************************************)
EXTENDS Naturals, Sequences, SequencesExt, FiniteSetsExt, Functions

CONSTANTS
    NULL,
    Threads,
    HOST,           \* stands for a directory that is not resolved in the jail
    Objects,        \* [path -> object] the ELF files, see ObjectType
    Links,          \* [path -> path of an object] links to them
    Programs,       \* the objects that are executed
    Listed,         \* those ldd is asked about
    Loader,         \* what the process has loaded besides what is needed
    Dlopens,        \* the names dlopen() is given
    DlopenPaths,    \* and the paths
    LibraryPath,    \* LD_LIBRARY_PATH without what the library put there; none in
                    \* secure-execution mode
    DefLib,         \* the default library path
    Cache,          \* [name -> path] /etc/ld.so.cache, maybe out of date
    Closed,         \* directories that cannot be searched
    NotLibs,        \* names that are not those of a library: ld.so, the vDSO
    Slashed         \* names that are paths

Path(dir, name) == [dir |-> dir, name |-> name]

Names == UNION {Range(Objects[path].needed) : path \in DOMAIN Objects}
Dirs  == {path.dir : path \in DOMAIN Objects \cup DOMAIN Links} \cup {HOST}
Paths == [dir : Dirs, name : STRING]

\* DT_RPATH, DT_RUNPATH and the others are resolved in the jail.
Jail    == STRING \ {HOST}
ObjectType ==
    [needed : Seq(STRING), soname : STRING, rpath : Seq(Jail), runpath : Seq(Jail),
     nodeflib : BOOLEAN]

Files == DOMAIN Objects \cup DOMAIN Links
Real(path) == IF path \in DOMAIN Links THEN Links[path] ELSE path

\* A path of the host is met by a name that is a path only.
Reachable(path) == path \in Files /\ (path.dir = HOST => path.name \in Slashed)

(***************************************************************************)
(* Files have the names they are needed by, in their path or their         *)
(* DT_SONAME, which is what the link editor writes into DT_NEEDED.  The    *)
(* path the cache has for a name ends with the name.                       *)
(***************************************************************************)
ASSUME LibrariesAssumption ==
    /\ Files \subseteq [dir : STRING, name : STRING] /\ NULL \notin Files \cup STRING
    /\ IsFiniteSet(Files)
    /\ Objects \in [DOMAIN Objects -> ObjectType]
    /\ Links \in [DOMAIN Links -> DOMAIN Objects] /\ DOMAIN Links \cap DOMAIN Objects = {}
    /\ \A path, other \in Files :
          path.name \in Names /\ Real(path) = Real(other)
          => path.name \in {other.name, Objects[Real(other)].soname}
    /\ \A name \in DOMAIN Cache : Cache[name].name = name /\ Cache[name].dir \in Jail
    /\ LibraryPath \in Seq(Jail) /\ DefLib \in Seq(Jail)
    /\ Listed \subseteq Programs /\ Programs \subseteq DOMAIN Objects
    /\ \A path \in Loader : Reachable(path)
    /\ \A path \in DlopenPaths : Reachable(Real(path))

VARIABLES
    exe,            \* the program that runs
    opened,         \* the link map: the paths the objects were opened by
    strays,         \* names the dynamic loader had to look for by itself
    walk            \* [thread -> the walk it is in, or NULL]

vars == <<exe, opened, strays, walk>>

-----------------------------------------------------------------------------
(* Search *)

Found(path)  == [errno |-> "", path |-> path]
Fails(errno) == [errno |-> errno, path |-> NULL]

\* The path of the first directory that has the name: its last link is kept.
__path_access(name, dirs) ==
    LET having == {i \in DOMAIN dirs :
                      dirs[i] \notin Closed /\ Path(dirs[i], name) \in Files}
    IN  IF having # {} THEN Found(Path(dirs[Min(having)], name))
        ELSE Fails(IF Range(dirs) \cap Closed # {} THEN "EACCES" ELSE "ENOENT")

\* The path the cache has is not looked at.
__ldso_cache(name) == IF name \in DOMAIN Cache THEN Found(Cache[name]) ELSE Fails("ENOENT")

\* A place is looked in when the one before has no such name; any other error is final.
Then(answer, next) == IF answer.errno = "ENOENT" THEN next ELSE answer

\* Where a name is looked for: c is what __felf_so_context() has read of an object.
__ldso_access(name, c) ==
    LET In(dirs) == __path_access(name, dirs)
        rpath(next) == IF c.runpath = <<>> THEN Then(In(c.rpath), Then(In(c.exec_rpath), next))
                       ELSE next
    IN  IF name \in Slashed THEN Found(Path(HOST, name))
        ELSE rpath(Then(In(c.libpath),
                   Then(In(c.runpath),
                   Then(__ldso_cache(name), In(c.deflib)))))

\* DT_RPATH counts without DT_RUNPATH only; DF_1_NODEFLIB leaves out the default path.
__felf_so_context(path) ==
    LET object == Objects[Real(path)]
    IN  [rpath      |-> IF object.runpath = <<>> THEN object.rpath ELSE <<>>,
         exec_rpath |-> <<>>,
         libpath    |-> LibraryPath,
         runpath    |-> object.runpath,
         deflib     |-> IF object.nodeflib THEN <<>> ELSE DefLib]

\* dlopen() of a name: the executable's DT_RPATH, never its DT_RUNPATH.
__dl_access(name) ==
    LET c == __felf_so_context(exe)
    IN  __ldso_access(name, [c EXCEPT !.rpath = <<>>, !.exec_rpath = c.rpath, !.runpath = <<>>])

\* The directories an exec looks in, each part appended to the one before.
__ld_lib_path(path) ==
    LET c == __felf_so_context(path)
    IN  c.deflib \o c.runpath \o c.libpath \o c.rpath

-----------------------------------------------------------------------------
(* Walks *)

\* A frame is an object whose needed objects are gone through: what is left of them, and
\* the context they are looked for in.  The list is of the objects of a whole walk.
Frame(path, needed, context) == [path |-> path, left |-> needed, context |-> context]
Walk(kind, path, needed, context) ==
    [kind |-> kind, stack |-> <<Frame(path, needed, context)>>, list |-> <<>>]

Top(w)    == Head(w.stack)
Wanted(w) == Head(Top(w).left)
Goes(t, kinds)   == walk[t] # NULL /\ walk[t].kind \in kinds /\ Top(walk[t]).left # <<>>
GoesBack(t, kinds) == walk[t] # NULL /\ walk[t].kind \in kinds /\ Top(walk[t]).left = <<>>
Ended(t, kind) == GoesBack(t, {kind}) /\ Len(walk[t].stack) = 1

Skip(w)  == [w EXCEPT !.stack[1].left = Tail(@)]
Enter(w, frame) == [Skip(w) EXCEPT !.stack = <<frame>> \o @]
Leave(w) == [w EXCEPT !.stack = Tail(@)]
List(w, path) == [w EXCEPT !.list = Append(@, path)]

Becomes(t, w) == walk' = [walk EXCEPT ![t] = w]
Walks(t, w)   == Becomes(t, w) /\ UNCHANGED <<exe, opened, strays>>
Abandon(t)    == Walks(t, NULL)

\* next_open() of what is found: the cache may be out of date.
Opens(path)  == Real(path) \in DOMAIN Objects
Needed(path) == Objects[Real(path)].needed

\* An object in the search context of the walk.
InContext(w, path) == Frame(path, Needed(path), Top(w).context)

\* Faulty: an object is listed after those it needs.
Preload_after(w, path) == Enter(w, InContext(w, path))

\* An object is listed before those it needs are gone through.
Preload(w, path) == List(Enter(w, InContext(w, path)), path)

\* Faulty: an object that is listed ends the iteration, as a callback's 1 would.
AlreadyListed_stops(w) == [w EXCEPT !.stack[1].left = <<>>]
\* Faulty: the iteration stays where it is.
AlreadyListed_again(w) == w
AlreadyListed(w) == Skip(w)

(***************************************************************************)
(* An exec in the jail: the list to preload.  A name that is not found, an *)
(* object that cannot be read and a list that is too long end the call.    *)
(***************************************************************************)
__ldso_preload_needed(t) ==
    /\ Goes(t, {"preload"})
    /\ \E w \in {walk[t]} : \E at \in {__path_access(Wanted(w), Top(w).context.deflib)} :
          IF Wanted(w) \in Slashed THEN Walks(t, Skip(w))
          ELSE IF at.errno # "" THEN Abandon(t)
          ELSE IF Wanted(w) \in NotLibs THEN Walks(t, Skip(w))
          ELSE IF at.path \in Range(w.list) THEN Walks(t, AlreadyListed(w))
          ELSE Walks(t, Preload(w, at.path)) \/ Abandon(t)

\* ldd: what is not found is said, and an object is listed after those it needs.
__ld_trace_loader_objects_needed(t) ==
    /\ Goes(t, {"ldd"})
    /\ \E w \in {walk[t]} : \E at \in {__ldso_access(Wanted(w), Top(w).context)} :
          IF at.errno # "" \/ Wanted(w) \in NotLibs THEN Walks(t, Skip(w))
          ELSE IF at.path \in Range(w.list) THEN Walks(t, AlreadyListed(w))
          ELSE IF Opens(at.path) THEN Walks(t, Enter(w, InContext(w, at.path)))
          ELSE Abandon(t)

\* Back from an object of a list; the program's own frame is the last.
Back(t) ==
    LET w == walk[t]
    IN  /\ GoesBack(t, {"preload", "ldd"}) /\ Len(w.stack) > 1
        /\ Walks(t, IF w.kind = "ldd" THEN List(Leave(w), Top(w).path) ELSE Leave(w))

\* The needed objects of one are gone through unless the file's own path is opened.
__fld_open_needed(path) ==
    Frame(path, IF Real(path) \in opened THEN <<>> ELSE Needed(path), __felf_so_context(path))

\* Faulty: the object that needs what is not found is opened all the same.
NotFound_skipped(t, w) == Walks(t, Skip(w))
NotFound(t, w) == Abandon(t)

\* What dlopen() opens first.
__ld_open_needed(t) ==
    /\ Goes(t, {"dlopen"})
    /\ \E w \in {walk[t]} : \E at \in {__ldso_access(Wanted(w), Top(w).context)} :
          IF at.errno # "" \/ ~Opens(at.path) THEN NotFound(t, w)
          ELSE Walks(t, Enter(w, __fld_open_needed(at.path)))

\* What libdl matches a name with: the names objects were opened by, and their own.
Answers(paths) ==
    NotLibs \cup {path.name : path \in paths} \cup {Objects[Real(path)].soname : path \in paths}
Unanswered(path, paths) == Range(Needed(path)) \ Answers(paths)

\* libdl loads the object, unless it has the file, and looks for what it does not have.
LoadObject(path) ==
    IF \E o \in opened : Real(o) = Real(path)
    THEN UNCHANGED <<opened, strays>>
    ELSE /\ opened' = opened \cup {path}
         /\ strays' = strays \cup Unanswered(path, opened')

\* Back from an object of dlopen(): it is opened, the one that was asked for last.
next_dlopen(t) ==
    LET w == walk[t]
    IN  /\ GoesBack(t, {"dlopen"})
        /\ \/ Abandon(t)
           \/ /\ LoadObject(Top(w).path)
              /\ Becomes(t, IF Len(w.stack) = 1 THEN NULL ELSE Leave(w))
              /\ UNCHANGED exe

-----------------------------------------------------------------------------
(* Calls *)

Begin(t, w) == walk[t] = NULL /\ Walks(t, w)

Dlopen(t, path) ==
    /\ Opens(path)
    /\ LET frame == __fld_open_needed(path)
       IN  Begin(t, Walk("dlopen", path, frame.left, frame.context))

\* A name is searched for; a path is resolved, its last link too.
dlopen(t) ==
    \/ \E name \in Dlopens :
          __dl_access(name).errno = "" /\ Dlopen(t, __dl_access(name).path)
    \/ \E path \in DlopenPaths : Dlopen(t, Real(path))

\* What is preloaded is what the program needs, as found from the program.
execve(t, program) ==
    LET c == [__felf_so_context(program) EXCEPT !.deflib = __ld_lib_path(program)]
    IN  Begin(t, Walk("preload", program, Needed(program), c))

\* LD_TRACE_LOADED_OBJECTS: the loader is asked for the list and not for the program.
ldd(t, program) ==
    LET c == __felf_so_context(program)
        context == [c EXCEPT !.rpath = <<>>, !.exec_rpath = c.rpath]
    IN  Begin(t, Walk("ldd", program, Needed(program), context))

\* The kernel runs the program: its loader opens the list and looks for what is missing.
Executed(t) ==
    /\ Ended(t, "preload")
    /\ \/ Abandon(t)
       \/ LET program == Top(walk[t]).path
              list    == Loader \cup Range(walk[t].list)
          IN  /\ exe' = program
              /\ opened' = list
              /\ strays' = UNION {Unanswered(path, list) : path \in list \cup {program}}
              /\ walk' = [u \in Threads |-> NULL]

\* The process exits; what follows is another process in the same state.
Printed(t) == Ended(t, "ldd") /\ Abandon(t)

\* What the loader and the kernel map is all there, and so is what it needs.
ASSUME LoaderAssumption == \A path \in Loader : Unanswered(path, Loader) \subseteq Slashed

\* A program that needs nothing runs at first.
Init ==
    /\ exe \in {program \in Programs : Needed(program) = <<>>}
    /\ opened = Loader
    /\ strays = {}
    /\ walk = [t \in Threads |-> NULL]

Walking(t) ==
    \/ __ldso_preload_needed(t) \/ __ld_trace_loader_objects_needed(t) \/ Back(t)
    \/ __ld_open_needed(t) \/ next_dlopen(t) \/ Executed(t) \/ Printed(t)

Next ==
    \E t \in Threads :
        \/ Walking(t)
        \/ dlopen(t)
        \/ \E program \in Programs : execve(t, program)
        \/ \E program \in Listed : ldd(t, program)

Spec == Init /\ [][Next]_vars /\ \A t \in Threads : WF_vars(Walking(t))

-----------------------------------------------------------------------------
(* Properties *)

Kinds == {"preload", "ldd", "dlopen"}

\* Well typed; and no file is twice on a stack, which is what keeps the recursion, with
\* its buffers of PATH_MAX in each frame, within the stack of the thread.
LibrariesTypeOK ==
    /\ exe \in Programs
    /\ opened \subseteq Paths /\ strays \subseteq Names
    /\ \A t \in Threads : walk[t] # NULL =>
          /\ walk[t].kind \in Kinds
          /\ Range(walk[t].list) \subseteq Paths
          /\ IsInjective([i \in DOMAIN walk[t].stack |-> Real(walk[t].stack[i].path)])

(***************************************************************************)
(* "in order to prevent from loading the shared objects from the host      *)
(* system": the dynamic loader never has a name to look for, whichever of  *)
(* several dlopen() failed half-way, raced with another or began before    *)
(* another object was opened; a name that is a path is out of the          *)
(* library's reach.                                                        *)
(***************************************************************************)
NothingFromTheHost ==
    /\ strays \subseteq Slashed
    /\ \A path \in opened : path.dir = HOST => path.name \in Slashed

\* [name -> the set of the file a list has for it, if it has one]
Finds(kind, context) ==
    [name \in Names |->
        LET at == IF kind = "ldd" THEN __ldso_access(name, context)
                  ELSE IF name \in Slashed THEN Fails("ENOENT")
                  ELSE __path_access(name, context.deflib)
        IN  IF at.errno = "" /\ name \notin NotLibs THEN {at.path} ELSE {}]

\* The files that are needed, directly or not, where finds has what a name leads to.
Closure(program, finds) ==
    LET Direct(paths) == UNION {finds[name] : name \in UNION {Range(Needed(p)) : p \in paths}}
        closure[n \in 0..Cardinality(Files)] ==
            IF n = 0 THEN Direct({program})
            ELSE LET nearer == closure[n - 1] IN nearer \cup Direct(nearer)
    IN  closure[Cardinality(Files)]

(***************************************************************************)
(* A list that is complete has each object the program needs, directly or  *)
(* by others, once, whatever cycles and shared needs there are among them. *)
(***************************************************************************)
ListsComplete ==
    \A t \in Threads, kind \in {"preload", "ldd"} : Ended(t, kind) =>
        LET program == Top(walk[t])
        IN  /\ Range(walk[t].list) = Closure(program.path, Finds(kind, program.context))
            /\ IsInjective(walk[t].list)

\* Every exec, ldd and dlopen() comes to an end: cycles included for an exec.
WalksEnd == \A t \in Threads : walk[t] # NULL ~> walk[t] = NULL

=============================================================================
