------------------------------- MODULE Environ -------------------------------
(***************************************************************************)
(* The environment functions of the library, env.c: environ(7) points to   *)
(* strings of the program, of the process' start, and of setenv(), which   *)
(* are allocated, remembered in env_alloced, and freed when they go out.   *)
(*                                                                         *)
(* A call may find no memory: for the string, for the array of environ or  *)
(* for env_alloced.  The array itself, which the library reallocates, is   *)
(* its content here; no other thread reads it meanwhile.                   *)
(***************************************************************************)
EXTENDS Lists, SequencesExt, FiniteSetsExt

CONSTANTS
    Names,          \* names of variables
    Iamroot,        \* those that begin with IAMROOT
    Values,         \* values
    NULL,           \* no string, no value
    Heap,           \* where malloc() finds room for a string
    Strings,        \* strings of programs: [name, value], NULL for one without "="
    InitEnviron,    \* the environment the process starts with
    MaxEnviron,     \* bound: strings of environ(7)
    MaxEnvp,        \* bound: strings of an environment given to execve()
    SharesStrings   \* that environment may have strings of environ itself

ASSUME EnvironAssumption ==
    /\ Iamroot \subseteq Names
    /\ "" \notin Names /\ NULL \notin Heap \cup Values
    /\ Heap \cap [name : Names, value : Values \cup {NULL}] = {}
    /\ Strings \subseteq [name : Names, value : Values \cup {NULL}]
    /\ MaxEnviron \in Nat /\ MaxEnvp \in Nat
    /\ InitEnviron \in Seq(Strings)
    /\ \A i \in DOMAIN InitEnviron : InitEnviron[i].value # NULL

VARIABLES
    environ,        \* environ(7): the strings, of the program or in the heap
    heap,           \* what malloc() gave: the text, and whether it is freed
    env_alloced,    \* the strings setenv() allocated
    reset           \* an execve() of an environment of the program failed

envvars == <<environ, heap, env_alloced, reset>>

Text(e, string) == IF string \in Heap THEN e.heap[string] ELSE string
Freed == [name |-> "", value |-> NULL, live |-> FALSE]

\* The state of the functions below, and the one they leave.
Env == [environ |-> environ, heap |-> heap, env_alloced |-> env_alloced]
Become(e) ==
    /\ Len(e.environ) <= MaxEnviron
    /\ environ' = e.environ /\ heap' = e.heap /\ env_alloced' = e.env_alloced

Matches(e, name) == {i \in DOMAIN e.environ : Text(e, e.environ[i]).name = name}
First(indices) == CHOOSE i \in indices : \A j \in indices : i <= j

getenv(e, name) ==
    IF Matches(e, name) = {} THEN NULL
    ELSE Text(e, e.environ[First(Matches(e, name))]).value

GetMap(e) == [name \in Names |-> getenv(e, name)]

-----------------------------------------------------------------------------
\* What freed strings read as afterwards is left to the allocator: those of wiped
\* lose their text.
free(e, strings, wiped) ==
    [e EXCEPT !.heap = [s \in Heap |->
        IF s \notin strings THEN e.heap[s]
        ELSE IF s \in wiped THEN Freed ELSE [e.heap[s] EXCEPT !.live = FALSE]]]

\* Where the call finds no memory, if it does not.
Failures == {"", "string", "environ", "env_alloced"}

\* Faulty: the old string is freed and not forgotten.
__env_rm_add_kept(e, old, new, failure, wiped) ==
    [free(e, {old} \cap e.env_alloced, wiped) EXCEPT
        !.env_alloced = @ \cup ({new} \ {NULL})]

\* Faulty: no room is a string too.
__env_rm_add_null(e, old, new, failure, wiped) ==
    [free(e, {old} \cap e.env_alloced, wiped) EXCEPT
        !.env_alloced = (@ \ {old}) \cup {new}]

\* The place of the old string is taken by the new one; without a place the array
\* grows, or the new one is not remembered.
__env_rm_add(e, old, new, failure, wiped) ==
    LET untold == failure = "env_alloced" /\ old \notin e.env_alloced
    IN  [free(e, {old} \cap e.env_alloced, wiped) EXCEPT
            !.env_alloced = (@ \ {old}) \cup (IF untold THEN {} ELSE {new} \ {NULL})]

\* The same for each of the strings, with no new one.
RemoveAll(e, strings, wiped) ==
    [free(e, strings \cap e.env_alloced, wiped) EXCEPT !.env_alloced = @ \ strings]

__putenv(e, s, r, failure) ==
    LET places == Matches(e, Text(e, s).name)
    IN  IF places # {}
        THEN __env_rm_add([e EXCEPT !.environ[First(places)] = s],
                          e.environ[First(places)], r, failure, Heap)
        ELSE IF failure = "environ"
        THEN free(e, {r}, Heap)
        ELSE __env_rm_add([e EXCEPT !.environ = Append(@, s)], NULL, r, failure, Heap)

_unsetenv(e, name) ==
    LET gone == {s \in ToSet(e.environ) : Text(e, s).name = name}
    IN  RemoveAll([e EXCEPT !.environ = Only(@, ToSet(@) \ gone)], gone, Heap)

\* A string without "=" names the variable to remove.
_putenv(e, string, failure) ==
    IF Text(e, string).value = NULL THEN _unsetenv(e, Text(e, string).name)
    ELSE __putenv(e, string, NULL, failure)

_clearenv(e) == RemoveAll([e EXCEPT !.environ = <<>>], ToSet(e.environ), Heap)

\* Faulty: the last string is forgotten.
PutAll_short(e, envp, lacking) ==
    LET after[i \in 0..Len(envp)] ==
            IF i = 0 \/ i = Len(envp) THEN e
            ELSE _putenv(after[i - 1], envp[i], IF i \in lacking THEN "environ" ELSE "")
    IN  after[Len(envp)]

\* Nobody looks whether _putenv() fails: for the strings of lacking it finds no
\* memory for the array.
PutAll(e, envp, lacking) ==
    LET after[i \in 0..Len(envp)] ==
            IF i = 0 THEN e
            ELSE _putenv(after[i - 1], envp[i], IF i \in lacking THEN "environ" ELSE "")
    IN  after[Len(envp)]

\* Faulty: the variables of iamroot are dropped with the others.
_resetenv_all(e, envp, wiped, lacking) ==
    PutAll(RemoveAll(e, ToSet(e.environ), wiped), envp, lacking)

\* The strings of all but iamroot's variables are freed, and stay in environ.
_resetenv(e, envp, wiped, lacking) ==
    LET others == {s \in ToSet(e.environ) : Text(e, s).name \notin Iamroot}
    IN  PutAll(RemoveAll(e, others, wiped), envp, lacking)

-----------------------------------------------------------------------------
(* The calls *)

_setenv(name, value, overwrite, failure) ==
    IF (~overwrite /\ getenv(Env, name) # NULL) \/ failure = "string"
       \/ \A s \in Heap : heap[s].live
    THEN Become(Env)
    ELSE \E s \in {s \in Heap : ~heap[s].live} :
            Become(__putenv([Env EXCEPT !.heap[s] =
                                [name |-> name, value |-> value, live |-> TRUE]],
                            s, s, failure))

setenv(name, value, overwrite) ==
    /\ ~reset
    /\ \E failure \in Failures : _setenv(name, value, overwrite, failure)
    /\ UNCHANGED reset

putenv(string) ==
    /\ ~reset
    /\ \E failure \in Failures :
          Become(_putenv(Env, string, failure))
    /\ UNCHANGED reset
unsetenv(name) == ~reset /\ Become(_unsetenv(Env, name)) /\ UNCHANGED reset
clearenv       == ~reset /\ Become(_clearenv(Env)) /\ UNCHANGED reset

\* The new image has copies of the strings, and nothing to free.
Image(e) ==
    LET texts == [i \in DOMAIN e.environ |-> [name  |-> Text(e, e.environ[i]).name,
                                              value |-> Text(e, e.environ[i]).value]]
    IN  [environ     |-> Only(texts, {t \in ToSet(texts) : t.value # NULL}),
         heap        |-> [s \in Heap |-> Freed],
         env_alloced |-> {}]

\* execve() with environ(7): the program goes on as it was when the call fails.
execve_environ == ~reset /\ Become(Image(Env)) /\ UNCHANGED reset

\* execve() with an environment of the program's own, tried again when it fails.
execve_envp(envp, wiped, lacking, fails) ==
    /\ Become(IF fails THEN _resetenv(Env, envp, wiped, lacking)
              ELSE Image(_resetenv(Env, envp, wiped, lacking)))
    /\ reset' = fails

Envp == SeqOf(Strings \cup (IF SharesStrings THEN ToSet(environ) ELSE {}), MaxEnvp)

EnvironInit ==
    /\ environ = InitEnviron
    /\ heap = [s \in Heap |-> Freed]
    /\ env_alloced = {}
    /\ reset = FALSE

EnvironNext ==
    \/ \E name \in Names \ Iamroot, value \in Values, overwrite \in BOOLEAN :
          setenv(name, value, overwrite)
    \/ \E string \in Strings : putenv(string)
    \/ \E name \in Names : unsetenv(name)
    \/ clearenv \/ execve_environ
    \/ \E envp \in Envp, wiped \in SUBSET env_alloced, fails \in BOOLEAN :
          \E lacking \in SUBSET DOMAIN envp : execve_envp(envp, wiped, lacking, fails)

-----------------------------------------------------------------------------
(* Properties *)

Texts == [name : Names, value : Values, live : BOOLEAN] \cup {Freed}

EnvironTypeOK ==
    /\ environ \in Seq(Heap \cup [name : Names, value : Values])
    /\ heap \in [Heap -> Texts]
    /\ env_alloced \subseteq Heap
    /\ reset \in BOOLEAN

(***************************************************************************)
(* Nothing is freed too soon: environ has no freed string, and env_alloced *)
(* none either, so no string is freed twice; each string remembered is in  *)
(* environ once, so none is remembered after it went out.                  *)
(***************************************************************************)
OwnedOnce ==
    ~reset =>
        /\ \A s \in Heap \cap (ToSet(environ) \cup env_alloced) : heap[s].live
        /\ \A s \in env_alloced : \E i \in DOMAIN environ :
              environ[i] = s /\ \A j \in DOMAIN environ : environ[j] = s => j = i

(***************************************************************************)
(* The environment functions are those of a map, whatever the strings and  *)
(* the failures.  EnvMap says what execve() may do to it: lose a variable  *)
(* of the environment it is given, but none of iamroot that was set.       *)
(***************************************************************************)
Map == INSTANCE EnvMap WITH env <- [name \in Names |-> getenv(Env, name)]
MapSpec == Map!Spec

(***************************************************************************)
(* "Fix the loss for environment if exec'ing from a shell using a local    *)
(* copy for envp": a variable of the environment given to execve() has its *)
(* value in the new image.                                                 *)
(***************************************************************************)
EnvpReachesTheProgram ==
    [][\A envp \in Envp :
          (\E wiped \in SUBSET env_alloced : execve_envp(envp, wiped, {}, FALSE)) /\ ~reset =>
              \A i \in DOMAIN envp :
                  LET given == Text(Env, envp[i])
                  IN  given.value # NULL
                      /\ (\A j \in DOMAIN envp : j # i => Text(Env, envp[j]).name # given.name)
                      => getenv(Env', given.name) = given.value]_envvars

=============================================================================
