-------------------------------- MODULE EnvMap --------------------------------
(***************************************************************************)
(* What the environment functions promise: a map of names to values.  The  *)
(* strings, their owners and the array of environ(7) are the matter of     *)
(* Environ, which implements it.                                           *)
(*                                                                         *)
(* After an execve() of an environment of the program's own that failed    *)
(* there is no promise but for the next try: the old strings are freed.    *)
(***************************************************************************)
EXTENDS Integers

CONSTANTS
    Names,      \* names of variables
    Iamroot,    \* those of iamroot, IAMROOT_*
    Values,     \* their values
    Strings,    \* strings of programs: [name, value], NULL for one without "="
    MaxEnvp,    \* bound: strings of an environment given to execve()
    NULL        \* no value: the variable is not set

VARIABLES
    env,        \* value of each variable, NULL when it is not set
    reset       \* such an execve() has failed

Init ==
    /\ env \in [Names -> Values \cup {NULL}]
    /\ reset = FALSE

Set(name, value) == ~reset /\ env' = [env EXCEPT ![name] = value] /\ UNCHANGED reset
Clear == ~reset /\ env' = [name \in Names |-> NULL] /\ UNCHANGED reset

\* The variables of envp are set, or unset by a string without "=".  Of the others
\* those of iamroot are kept; nothing is promised of the rest.  Where memory is
\* lacking a variable of envp may be lost, but one of iamroot has its room if it
\* was set, unless a string of envp takes it away.
Merged(old, new, envp, lacking) ==
    LET Places(name) == {i \in DOMAIN envp : envp[i].name = name}
        Last(name)   == CHOOSE i \in Places(name) : \A j \in Places(name) : j <= i
        Lost(name)   ==
            /\ lacking /\ new[name] = NULL
            /\ name \in Iamroot /\ old[name] # NULL =>
                  \E i \in Places(name) : envp[i].value = NULL
    IN  \A name \in Names :
            IF Places(name) # {} THEN new[name] = envp[Last(name)].value \/ Lost(name)
            ELSE name \in Iamroot => new[name] = old[name]

execve(envp) ==
    /\ env' \in [Names -> Values \cup {NULL}]
    /\ \E lacking \in BOOLEAN : Merged(env, env', envp, lacking)
    /\ reset' \in BOOLEAN

Next ==
    \/ \E name \in Names, value \in Values \cup {NULL} : Set(name, value)
    \/ Clear
    \/ \E n \in 0..MaxEnvp : \E envp \in [1..n -> Strings] : execve(envp)

Spec == Init /\ [][Next]_<<env, reset>>
=============================================================================
