--------------------------- MODULE PathResolution ---------------------------
(***************************************************************************)
(* The resolution of pathnames, path_resolution.c: what a wrapper gives    *)
(* the kernel in place of the path the program gave it.  Here it is a      *)
(* function of the file system, the working directory, the root directory  *)
(* of the environment (a string), and the path; Jail has them as state.    *)
(*                                                                         *)
(* The lengths of PATH_MAX are left out: no path of an instance is so long.*)
(***************************************************************************)
EXTENDS Kernel

CONSTANT MaxSteps   \* bound: parts and links __realpathat() looks at

ASSUME StepsAssumption == MaxSteps \in Nat

\* What readlink() and getxattr() of user.iamroot.path-resolution have for the
\* location a lookup found.
NoRedirect == <<>>

LinkAt(fs, l) ==
    IF ~Ended(l) THEN [err |-> l.err]
    ELSE IF ~Exists(fs, l.at) THEN [err |-> "ENOENT"]
    ELSE IF IsLink(fs, l.at) THEN [err |-> "", target |-> fs[l.at].target]
    ELSE [err |-> "EINVAL"]

RedirectAt(fs, l) ==
    IF Found(fs, l) /\ "redirect" \in DOMAIN fs[l.at] THEN fs[l.at].redirect ELSE NoRedirect

\* Neither the location nor a directory on the way to it has the attribute.
NotRedirected(fs, loc) ==
    \A dir \in DOMAIN fs : Below(loc, dir) => "redirect" \notin DOMAIN fs[dir]

-----------------------------------------------------------------------------
(***************************************************************************)
(* __realpathat() moves the parts of the path from stack to the output,    *)
(* and pushes the content of the links it meets.  The output is absolute   *)
(* or not, begins with two slashes or with one, has its parts, of which    *)
(* the first nup are ".."; check tells that the last part has to be a      *)
(* directory, cnt counts the links.                                        *)
(***************************************************************************)
RealpathStart(path) ==
    [stack |-> path, abs |-> FALSE, two |-> FALSE, out |-> <<>>, nup |-> 0,
     check |-> FALSE, cnt |-> 0, err |-> "", done |-> FALSE]

\* "Initial // is special": it is kept, where "///" is "/".
Doubled(path) ==
    /\ Len(path) > 2 /\ path[1] = "" /\ path[2] = ""
    /\ Len(path) = 3 \/ path[3] # ""

\* The slashes after a part are consumed with it.
SkipSlashes(stack) ==
    LET n == CHOOSE n \in 1..(Len(stack) + 1) :
                /\ n = Len(stack) + 1 \/ stack[n] # ""
                /\ \A m \in 1..(n - 1) : stack[m] = ""
    IN  SubSeq(stack, n, Len(stack))

Lead(r) == IF ~r.abs THEN <<>> ELSE IF r.two THEN Slash ELSE Empty

Output(r, part) ==
    Lead(r) \o r.out \o
        (IF part = "" /\ r.out = <<>> THEN (IF r.abs THEN Empty ELSE <<>>) ELSE <<part>>)

\* The content of a link before what is left of the stack, without the slashes
\* the stack begins with if the content ends in one.
Push(target, rest) ==
    LET left == SkipSlashes(rest)
    IN  IF target[Len(target)] # "" THEN target \o rest
        ELSE IF left = <<>> THEN target
        ELSE SubSeq(target, 1, Len(target) - 1) \o left

\* Faulty: a ".." does not take the part before it away.
SkipReadlinkKept(r, part, rest) ==
    IF part = DotDot
    THEN [r EXCEPT !.check = FALSE, !.stack = SkipSlashes(rest)]
    ELSE [r EXCEPT !.check = rest # <<>>, !.stack = SkipSlashes(rest),
                   !.out = IF part = "" THEN @ ELSE Append(@, part)]

\* The part is no link, or is not looked at: it joins the output.
SkipReadlink(r, part, rest) ==
    IF part = DotDot
    THEN [r EXCEPT !.check = FALSE, !.stack = SkipSlashes(rest),
                   !.out = IF @ = <<>> THEN @ ELSE SubSeq(@, 1, Len(@) - 1)]
    ELSE [r EXCEPT !.check = rest # <<>>, !.stack = SkipSlashes(rest),
                   !.out = IF part = "" THEN @ ELSE Append(@, part)]

\* Faulty: an absolute link leads to the root of the host.
FollowLinkOnHost(r, root, target, rest) ==
    IF r.cnt + 1 = SYMLOOP_MAX THEN [r EXCEPT !.err = "ELOOP"]
    ELSE [r EXCEPT !.cnt = @ + 1, !.stack = Push(target, rest)]

\* Faulty: the links are not counted.
FollowLinkUncounted(r, root, target, rest) ==
    IF r.cnt + 1 = SYMLOOP_MAX THEN [r EXCEPT !.err = "ELOOP"]
    ELSE [r EXCEPT !.stack = Push(IF IsAbsolute(target) /\ root # Slash
                                  THEN Prepend(root, target) ELSE target, rest)]

FollowLink(r, root, target, rest) ==
    IF r.cnt + 1 = SYMLOOP_MAX THEN [r EXCEPT !.err = "ELOOP"]
    ELSE [r EXCEPT !.cnt = @ + 1,
                   !.stack = Push(IF IsAbsolute(target) /\ root # Slash
                                  THEN Prepend(root, target) ELSE target, rest)]

\* The part is looked at: the attribute of what it leads to, then the link.
Follow(r, root, part, rest, redirect, link) ==
    IF redirect # NoRedirect THEN [r EXCEPT !.stack = redirect \o rest]
    ELSE IF link.err = "" THEN FollowLink(r, root, link.target, rest)
    ELSE IF link.err \in {"ENOENT", "EINVAL"} THEN SkipReadlink(r, part, rest)
    ELSE [r EXCEPT !.err = link.err]

\* getxattr() follows the link, readlink() does not.
LookAt(fs, cwd, r, root, part, rest, path) ==
    LET Links(l) == Follow(r, root, part, rest,
                           RedirectAt(fs, IF Found(fs, l) /\ IsLink(fs, l.at)
                                          THEN Lookup(fs, <<>>, cwd, path, TRUE) ELSE l),
                           LinkAt(fs, l))
    IN  Links(Lookup(fs, <<>>, cwd, path, FALSE))

RealpathPart(fs, cwd, root, follow, r, part, rest) ==
    IF part = Dot THEN [r EXCEPT !.stack = SkipSlashes(rest)]
    ELSE IF part = DotDot /\ ~r.abs /\ Len(r.out) = r.nup
    THEN [r EXCEPT !.stack = SkipSlashes(rest), !.out = Append(@, DotDot), !.nup = @ + 1]
    ELSE IF ~follow \/ (part = DotDot /\ ~r.check) THEN SkipReadlink(r, part, rest)
    ELSE LookAt(fs, cwd, r, root, part, rest, Output(r, part))

RealpathStep(fs, cwd, root, follow, r) ==
    LET end == r.stack \in {<<>>, Empty}
    IN  IF r.err # "" \/ r.done THEN r
        ELSE IF IsAbsolute(r.stack)
        THEN [r EXCEPT !.stack = SkipSlashes(@), !.abs = TRUE, !.two = Doubled(r.stack),
                       !.out = <<>>, !.nup = 0, !.check = FALSE]
        ELSE IF end /\ ~r.check THEN [r EXCEPT !.done = TRUE]
        ELSE RealpathPart(fs, cwd, root, follow, r,
                          IF end THEN "" ELSE Head(r.stack),
                          IF end THEN <<>> ELSE Tail(r.stack))

\* A relative output is taken from the working directory, less its "..".  If the
\* resolution fails, the callers keep the path.
RealpathResult(cwd, path, r) ==
    LET up == IF r.nup > Len(cwd) THEN Len(cwd) ELSE r.nup
    IN  IF ~r.done THEN path
        ELSE IF r.abs THEN IF r.two THEN Empty \o HostPath(r.out) ELSE HostPath(r.out)
        ELSE HostPath(SubSeq(cwd, 1, Len(cwd) - up) \o SubSeq(r.out, r.nup + 1, Len(r.out)))

RealpathRun(fs, cwd, root, path, follow) ==
    LET run[n \in 0..MaxSteps] ==
            IF n = 0 THEN RealpathStart(path)
            ELSE RealpathStep(fs, cwd, root, follow, run[n - 1])
    IN  run[MaxSteps]

__realpathat(fs, cwd, root, path, follow) ==
    IF path = Empty THEN path
    ELSE RealpathResult(cwd, path, RealpathRun(fs, cwd, root, path, follow))

-----------------------------------------------------------------------------
\* The root directory is a string: "/" when IAMROOT_ROOT is not set.

InJail(root) == root # Slash

\* Faulty: nothing is left of the root directory itself.
__striprootdir_all(root, path) ==
    IF root = Slash \/ ~__strleq(path, root) THEN path ELSE After(path, root)

\* The leading root directory is taken off; what is left of it alone is "/".
__striprootdir(root, path) ==
    IF root = Slash \/ ~__strleq(path, root) THEN path
    ELSE IF After(path, root) = Empty THEN Slash
    ELSE After(path, root)

\* The directory of a descriptor, AT_FDCWD is NoDir.
NoDir == Empty

\* Flags of the resolution.
NOMAGICLINKS == "NOMAGICLINKS"
NOIGNORE     == "NOIGNORE"
NOWALKALONG  == "NOWALKALONG"

MagicRoot == <<"", "proc", "1", "root">>
MagicFds  == <<"", "dev", "fd", "">>

\* The path before any link is followed: under the root, or under the directory
\* ("//aa" from a descriptor of "/").
JoinPath(root, dir, path) ==
    IF IsAbsolute(path)
    THEN IF root # Empty /\ __strleq(path, root) THEN path ELSE Prepend(root, path)
    ELSE IF dir # NoDir THEN dir \o path
    ELSE path

\* The path __realpathat() is given first.
Sanitized(rootdir, dir, path) ==
    __path_sanitize(JoinPath(IF InJail(rootdir) THEN rootdir ELSE Empty, dir, path))

\* A relative path and a descriptor of the root itself do not lead out of it.
KeepInRoot(root, dir, path, resolved) ==
    IF root # Empty /\ dir = root /\ ~IsAbsolute(path) /\ ~__strleq(resolved, root)
    THEN root ELSE resolved

\* What is left in the root may be for the host.
StripIgnored(rootdir, root, path, prflags) ==
    IF NOIGNORE \notin prflags /\ __strleq(path, root) /\ ignore(After(path, root))
    THEN __striprootdir(rootdir, path) ELSE path

path_resolution2(fs, cwd, rootdir, dir, path, follow, prflags) ==
    LET root == IF InJail(rootdir) THEN rootdir ELSE Empty
        Realpath(p, follows) == IF follows THEN __realpathat(fs, cwd, rootdir, p, follow) ELSE p
        clean == Sanitized(rootdir, dir, path)
        kept  == StripIgnored(rootdir, root,
                     KeepInRoot(root, dir, path, Realpath(clean, follow)), prflags)
    IN  IF NOMAGICLINKS \notin prflags /\ path = MagicRoot THEN Slash
        ELSE IF NOMAGICLINKS \notin prflags /\ __strleq(path, MagicFds) THEN path
        ELSE IF NOIGNORE \notin prflags /\ ignore(path) THEN path
        ELSE Realpath(kept, NOWALKALONG \notin prflags)

path_resolution(fs, cwd, rootdir, dir, path, follow) ==
    path_resolution2(fs, cwd, rootdir, dir, path, follow, {})

=============================================================================
