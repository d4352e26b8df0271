------------------------------ MODULE Credentials ------------------------------
(***************************************************************************)
(* The ids of a process, which are variables of its environment: set*id()  *)
(* and setgroups() print them into IAMROOT_UID and the like, get*id() read *)
(* them back, and the environment carries them through fork() and exec.    *)
(* The kernel's own ids never change.                                      *)
(*                                                                         *)
(* A value is the text of numbers, as the sequence of them.  The calls of  *)
(* several ids set one after the other, and stop at the first that fails.  *)
(***************************************************************************)
EXTENDS Environ

CONSTANTS
    Ids,            \* users and groups
    MAXGROUPS,      \* groups that fit the buffer of setgroups()
    Masks           \* masks of umask()

IdNames == {"IAMROOT_UID", "IAMROOT_EUID", "IAMROOT_SUID", "IAMROOT_FSUID",
            "IAMROOT_GID", "IAMROOT_EGID", "IAMROOT_SGID", "IAMROOT_FSGID"}

ASSUME CredentialsAssumption ==
    /\ Ids \subseteq Nat /\ Masks \subseteq Nat /\ MAXGROUPS \in Nat
    /\ IdNames \cup {"IAMROOT_GROUPS", "IAMROOT_UMASK"} \subseteq Iamroot
    /\ SeqOf(Ids, MAXGROUPS) \subseteq Values \cup {<<>>}
    /\ \A id \in Ids : <<id>> \in Values
    /\ \A mask \in Masks : mask <= 511 => <<mask>> \in Values

VARIABLE todo       \* the variables the call in progress has still to set

vars == <<environ, heap, env_alloced, reset, todo>>

NoId == -1
Keeping(ids) == ids \cup {NoId}

Idle == todo = <<>>

\* The call sets the variables of the ids it is given, in this order.
Setting(list) ==
    /\ Idle /\ ~reset
    /\ todo' = Only(list, {set \in ToSet(list) : set.value # <<NoId>>})
    /\ UNCHANGED envvars

Variable(name, id) == [name |-> name, value |-> <<id>>]

Fails(name, failure) ==
    \/ failure = "string" \/ \A s \in Heap : heap[s].live
    \/ failure = "environ" /\ Matches(Env, name) = {}

\* The next variable; a failure ends the call.
SetNext ==
    /\ ~Idle
    /\ \E failure \in Failures :
          /\ _setenv(Head(todo).name, Head(todo).value, TRUE, failure)
          /\ todo' = IF Fails(Head(todo).name, failure) THEN <<>> ELSE Tail(todo)
    /\ UNCHANGED reset

-----------------------------------------------------------------------------
\* EINVAL for the id that stands for none.
setuid(uid)   == uid # NoId /\ Setting(<<Variable("IAMROOT_UID", uid)>>)
seteuid(uid)  == uid # NoId /\ Setting(<<Variable("IAMROOT_EUID", uid)>>)
setfsuid(uid) == uid # NoId /\ Setting(<<Variable("IAMROOT_FSUID", uid)>>)
setgid(gid)   == gid # NoId /\ Setting(<<Variable("IAMROOT_GID", gid)>>)
setegid(gid)  == gid # NoId /\ Setting(<<Variable("IAMROOT_EGID", gid)>>)
setfsgid(gid) == gid # NoId /\ Setting(<<Variable("IAMROOT_FSGID", gid)>>)

setreuid(ruid, euid) ==
    Setting(<<Variable("IAMROOT_EUID", euid), Variable("IAMROOT_UID", ruid)>>)
setresuid(ruid, euid, suid) ==
    Setting(<<Variable("IAMROOT_EUID", euid), Variable("IAMROOT_UID", ruid),
              Variable("IAMROOT_SUID", suid)>>)
setregid(rgid, egid) ==
    Setting(<<Variable("IAMROOT_EGID", egid), Variable("IAMROOT_GID", rgid)>>)
setresgid(rgid, egid, sgid) ==
    Setting(<<Variable("IAMROOT_EGID", egid), Variable("IAMROOT_GID", rgid),
              Variable("IAMROOT_SGID", sgid)>>)

\* No group is no variable, and reads as the group of root.
setgroups(list) ==
    IF list = <<>>
    THEN Idle /\ unsetenv("IAMROOT_GROUPS") /\ UNCHANGED todo
    ELSE Len(list) <= MAXGROUPS
         /\ Setting(<<[name |-> "IAMROOT_GROUPS", value |-> list]>>)

\* The groups of the user in group(5), and the one given.
initgroups(member, gid) == setgroups(<<gid>> \o member)

\* Three octal digits are room for the mask, or it is not recorded.
umask(mask) ==
    /\ mask <= 511
    /\ Setting(<<Variable("IAMROOT_UMASK", mask)>>)

-----------------------------------------------------------------------------
Id(name) == IF getenv(Env, name) = NULL THEN 0 ELSE getenv(Env, name)[1]

getuid  == Id("IAMROOT_UID")
geteuid == Id("IAMROOT_EUID")
getgid  == Id("IAMROOT_GID")
getegid == Id("IAMROOT_EGID")
getresuid == <<getuid, geteuid, Id("IAMROOT_SUID")>>
getresgid == <<getgid, getegid, Id("IAMROOT_SGID")>>
__getumask == IF getenv(Env, "IAMROOT_UMASK") = NULL THEN 18
              ELSE getenv(Env, "IAMROOT_UMASK")[1]

\* The groups, when the list of the program has room for them.
getgroups(listsize) ==
    LET groups == IF getenv(Env, "IAMROOT_GROUPS") = NULL THEN <<0>>
                  ELSE getenv(Env, "IAMROOT_GROUPS")
    IN  IF listsize # 0 /\ Len(groups) > listsize THEN NoId ELSE groups

-----------------------------------------------------------------------------
Init == EnvironInit /\ todo = <<>>

Program == Idle /\ EnvironNext /\ UNCHANGED todo

Next ==
    \/ Program
    \/ SetNext
    \/ \E id \in Keeping(Ids) :
          \/ setuid(id) \/ seteuid(id) \/ setfsuid(id)
          \/ setgid(id) \/ setegid(id) \/ setfsgid(id)
    \/ \E r, e, s \in Keeping(Ids) :
          \/ setreuid(r, e) \/ setresuid(r, e, s)
          \/ setregid(r, e) \/ setresgid(r, e, s)
    \/ \E list \in SeqOf(Ids, MAXGROUPS + 1) : setgroups(list)
    \/ \E list \in SeqOf(Ids, MAXGROUPS), gid \in Ids : initgroups(list, gid)
    \/ \E mask \in Masks : umask(mask)

Spec == Init /\ [][Next]_vars /\ WF_vars(SetNext)

-----------------------------------------------------------------------------
(* Properties, beside those of Environ *)

(***************************************************************************)
(* As long as there is memory for the array, _resetenv() loses nothing:    *)
(* each variable of the environment given has its last value, and those of *)
(* iamroot the environment leaves alone keep theirs, be it the first try   *)
(* or one after others that failed, in the program and in the new image.   *)
(***************************************************************************)
EnvpMerged ==
    Idle => \A envp \in Envp, wiped \in SUBSET env_alloced :
        \A e \in {_resetenv(Env, envp, wiped, {})} : \A d \in {e, Image(e)} :
            Map!Merged(GetMap(Env), GetMap(d), envp, FALSE)

=============================================================================
