# iamroot, a TLA+ verification development

[iamroot](https://github.com/gportay/iamroot) lets an unprivileged user build
and enter root file systems: a library preloaded by the dynamic loader
intercepts the libc functions that take a pathname or need a privilege, and
emulates chroot(2), chmod(2), chown(2) and the identity of root.  The modules
here model the Linux (glibc) build; every definition follows the C code, whose
lines `PROJECT.json` gives under `map`.

## The system

One copy of the library runs in every process.  It has no daemon and no file of
its own: what it keeps is in the **environment** of the process (inherited over
fork and exec), in **extended attributes** of the files, which all the processes
share, and in a few static variables.

| component | state | operations | what makes it correct | modules |
|---|---|---|---|---|
| path resolution (`path_resolution.c`) | the regex of ignored paths, set by the constructor | `path_resolution()`, called by about 150 wrappers with the path, the descriptor and the flags; reads IAMROOT_ROOT and the file system | the path given to the kernel leads where the program's path leads in a real chroot(2) | `Paths`, `Kernel`, `PathResolution` |
| the jail (`chroot.c`, `chdir.c`, `fchdir.c`, `getcwd.c`, `iamroot.c`) | IAMROOT_ROOT; the kernel's working directory and descriptors | `chroot()` sets it, `chdir()` and `fchdir()` drop it, `getcwd()` takes it off the path | the root is left when, and only when, the working directory leaves it; what getcwd() returns leads back | `Jail` |
| path wrappers (`open.c` ... `utimensat.c`) | the tree | resolve one path or two, call the kernel; some return a path | each gives the kernel the path of the right file, and tells the program a path that leads back | `Calls`, `Wrappers` |
| modes and ownership (`chmod.c`, `chown.c`, the creating calls, `umask.c`, the stat family, macros of `iamroot.h`) | `user.iamroot.mode`, `.uid`, `.gid` of each file; IAMROOT_UMASK | each wrapper adjusts the mode, calls the kernel, records what was asked; stat shows the record | the user keeps his access to his files; stat shows what the program asked for and nothing else | `Metadata` |
| environment (`env.c`) | `environ` and the strings the library owns | setenv, putenv, unsetenv, clearenv (musl's), the reset of an exec | no string is freed while it is in `environ`; the array is a map | `Environ`, `EnvMap` |
| identity (`setuid.c` ... `initgroups.c`) | IAMROOT_UID, _EUID, _GID, _EGID, _SUID, _SGID, IAMROOT_GROUPS | set and get, no system call | a failed call changes nothing else; what was set is got | `Credentials` |
| exec (`execve.c`, `execveat.c`, `interpreter-script.c`, `posix_spawn.c`) | argv, envp, the loader of the jail | resolves the program, its interpreter and its dynamic loader | the same program runs with the same arguments, preloaded, and the root is kept | `Exec`, `Loaders` |
| dynamic loading (`dso.c`, `dlopen.c`, `ldso-cache.c`) | the objects opened | reads ELF headers and the cache, builds lists of libraries | the libraries of the jail are found, never those of the host | `Libraries`, `Loaders` |
| passwd, group, shadow | an open file and its iteration | getpwent() and friends on the jail's file | each entry once, rewinds start again, buffers hold | `Accounts` |
| extended attributes (`*xattr.c`) | the files' attributes | names are moved under `user.iamroot.` | the program does not see the library's own records | paths in `Calls` |

How they meet: each path wrapper calls `path_resolution()`, then the kernel with
the result (`next_X()`), then the macros that record; `path_resolution()` reads
the root and the working directory; `execve()` hands the environment to the next
process.  There is no lock anywhere: processes interleave between the system
calls of a wrapper, and threads share the environment and static buffers.

What is hard here: a resolution that reads links and the working directory
through the host's kernel, whose root is not the jail; a root that is a string
and is compared as one; a record that is written after the call it belongs to,
whether the call succeeded or not; modes adjusted from a test made before;
strings of two owners in one array; an exec that rewrites its own command line
for loaders of several kinds, out of an environment that earlier tries have
changed; walks that recurse over whatever the files say.  `PROJECT.json` lists
each hazard at its line, with the property that would catch it.

## Modules

    Paths   Kernel           EnvMap        Lists         Loaders
        \   /                  ^           /   \           |
      PathResolution        Environ ------     Accounts   Exec      Libraries
        /       \     (implements EnvMap)
     Jail      Calls           |
        \       /         Credentials                        Metadata
        Wrappers

A line is an EXTENDS, but for `Wrappers`, which extends `Jail` and has `Calls`
by `INSTANCE`, and `EnvMap`, which `Environ` has by `INSTANCE EnvMap WITH env <-
...`.  Each `MC` module extends the module of its name and gives its constants
values for TLC.  `Lists` has what is left of a sequence when some of its elements
are dropped, by a recursive function over its places.

The theorems are in modules of their own: `Metadata_proofs`, `PathResolution_proofs`,
`Accounts_proofs`, `Libraries_proofs` and `Exec_proofs` extend the modules they are
about, `Environ_proofs` extends `Credentials` and so `Environ`, `Jail_proofs` extends
`Wrappers` and so `Jail`, and `Lists_proofs` has the lemmas on sequences and induction
that all but the first rest on.

### Metadata

An object is a resolved path; its inode has a mode (the set of its one bits), an
owner, and the attributes.  `call[p]` is the wrapper process p is in.  A wrapper
takes three steps: its entry (`chmod`, `openat`, `mkdirat`, ...) adjusts the
mode or reads the recorded owner; one of the `Next...` actions is the kernel's
call, which may always fail; `RecordMode` or `RecordOwner` writes the attribute
whatever the call returned, and the wrapper returns.  Other processes run between
the steps.  The test of a path and the two attribute writes of an owner are not
cut into steps of their own.  `open` without O_CREAT has an old mode and a new one
that are the same: zero, or with O_TMPFILE the mode the kernel gives a file without
a name.  `unlinkat` may remove the name under a call; a
descriptor keeps the inode, whose attributes are then of no interest.  A
`user.*` attribute exists on regular files and directories only, and needs the
permission to write: so a record may silently fail, as in the code.

`umask()` changes the kernel's mask and records the program's in IAMROOT_UMASK,
which may fail (`recorded`): always for a mask of four octal digits, which is longer
than the buffer of `__setumask()`, and for any when there is no memory.  `emask` is
the variable, `kmask` the kernel's mask, and `given` the mask the program gave last,
which no code reads and the properties compare with.

The kernel's side follows from what the wrappers rely on: EPERM is turned into
success by the code, a new file has the mode less the kernel's mask, only an
owner changes a mode.

### Paths, Kernel, PathResolution, Jail

A path is a string cut at the slashes, so that "/", "a/" and "//" differ, and two
constants say which names begin other names: the code compares strings, "/rt2"
begins with "/rt", and a model over components would not see it.  Names have two
letters or more.

`Kernel!Lookup` is the kernel's lookup with the root as a parameter: the host's
root behind the wrappers, the jail's for the reference.  `__realpathat()` is the
loop of the code: a stack of parts, an output, the counter of links, one step
for each turn of the loop, and the `getxattr()` and `readlink()` of a step are
lookups of the host.  `path_resolution2()` follows its steps in the code's order:
magic paths, ignored paths, prefix by the root or the descriptor's directory,
sanitising, first `__realpathat()`, the clamp of a descriptor of the root, the
strip of ignored paths, second `__realpathat()`.  The two slashes a path may begin
with stay in the output, as in the code ("Initial // is special"), so that a root may
be stored as "//rt" (`Doubled`): `path_resolution()` puts it before each path, but no
path of the kernel begins with it.  The clamp is of relative paths only.

`Jail` has the state: the file system, the working directory, IAMROOT_ROOT,
descriptors of directories.  Calls that fail change nothing and are left out.
`Proper` are the roots that are an existing directory, by the path the kernel has for
it; the properties are about these, and the divergences say what becomes of others.

### Calls, Wrappers

`Calls` is a table of ninety wrappers.  Each is described by what the code
passes on: a descriptor or none, whether the last link is followed when the path
is resolved, the flags of the resolution, whether `next_X()` is given the
resolved path or, as in `inotify_add_watch()`, something else, and whether the
call itself follows the last link.  `Wrappers` extends the jail with the actions
that rename, link and remove, and with the functions that return a path
(`realpath()`, `readlink()`, `ttyname()`, `tempnam()`, `dl_iterate_phdr()`, ...).
`readlinkat()` of /proc/self/exe is answered by `__getexe()`, which takes off a root
without looking for it.  A call that is given something else than the resolved path
(`inotify_add_watch()` and `fanotify_mark()`) is not compared with the jail's.
A rename moves everything below the directory; a directory in use is not
removed, since a location is a name here and the inode would outlive it.

### EnvMap, Environ, Credentials

`Environ` has the array of environ(7) as a sequence of strings, each a string of
the program or a cell of the heap; `env_alloced` is the list of those the library
made.  `__env_rm_add()`, `_putenv()`, `_setenv()`, `_unsetenv()`, `_clearenv()`
and `_resetenv()` are operators on such a state that say, with their failure to
allocate as an argument, what comes next; the actions are the calls.
`_resetenv()` looks at no failure of the `_putenv()` it makes for each string of envp:
`lacking` is the set of the strings of envp that find no memory for the array, and
the call goes on without them.
`putenv()` may put the same string twice, and names may be repeated at the start.
A string that is freed is still in the hands of whoever kept it: what it reads as is
left to the allocator, so that `free()` takes the set `wiped` of those that lose
their text.

`EnvMap` is what they promise: a variable has a value or none, and a call sets
one, clears all, or is an execve() whose envp wins over what was there.  Where
memory lacks an execve() may lose a variable of envp (`Merged`), but it sets none to
another value, and one of iamroot that was set keeps its place in the array.
`MapSpec` is its specification over what `getenv()` finds, and every step of
`Environ` and of `Credentials` implements a step of it or none.

`Credentials` has the ids as variables of that environment: a setter of several
ids has the list `todo` of those left, one `setenv()` a step (`SetNext`), and the
first that fails ends the call.  Getters read the environment.

### Loaders, Exec

`Loaders` is about a program and its loader, without state: the C library it is
of (`__is_linux()`, `__is_musl()`, the BSDs), the options the loader has and
since which version (`Since`, `Supported`), the machine and the build of
libiamroot.so it needs, and where `__getlibiamroot()` finds that build.
`Exec` has the environment of one process, whether its image has the library
preloaded, and the search of an execvp() in progress.  `execve()` reads the
file: ELF, a script (again with the interpreter), a set-user-ID program or
something else (`exec.sh`, external).  For ELF, `__ldso()` fills interparg with
the loader and its options, shifts the arguments, sets `argv0`, `LD_PRELOAD` and
`LD_LIBRARY_PATH` for loaders without the options.  The kernel and the loader
then take the command line apart again (`Image`), which is the reference: it
stops at the first word that is no option it knows.  A call may fail at the
allocation or in the kernel, and leaves the environment as it is by then.

A word of a library path is a directory and the number of roots before it, so
that a root prefixed twice is seen.

The constants are the files, and the assumptions say what files these are: the
loader of a program is there and knows the options that loaders of its C library and
version do (`ProgramAssumption`, `GlibcKnows`: the release notes of glibc; the code
takes the version from the name of the loader's file and trusts it), no program reads as of two C libraries whose loaders are started in
different ways, the name a build is installed under says what it is for
(`InstalledAssumption`: the Makefile's), and no path, argv[0] or list of
IAMROOT_INHIBIT_RPATH reads like an option of a loader.  For the path that is a limit of the code, which
puts it where the loader could still take an option; for the values after an option
it is a limit of the model, whose loader (`Positional`) tells a value by the word
before it.  `Literals` are the strings the module writes between quotes.

### Libraries

A walk is the recursion of `__ldso_preload_needed()`, of
`__ld_trace_loader_objects_needed()` or of `__ld_open_needed()`, kept as a stack
of frames with what is left of DT_NEEDED, the RPATH and RUNPATH in force and the
list so far; each step enters, skips or leaves one library.  `__ldso_access()`
searches in the code's order: RPATH, LD_LIBRARY_PATH, RUNPATH, the cache, the
default directories, with a stop at the first error that is not ENOENT.
Objects opened by the process are global; threads interleave step by step.

`HOST` is the directory of what is not resolved in the jail; the instance has a libc
there.  `LibrariesAssumption` and `LoaderAssumption` say what kind of files there
are: a file has the name it is needed by, in its path or its DT_SONAME, which is
where the link editor takes DT_NEEDED from (a library installed under a name that is
neither makes the loader look for it by itself); the paths in RPATH, RUNPATH and
the cache are the jail's, since the code resolves them; what is there at the start
(the vDSO and the loader) needs nothing more.

### Accounts

The files are contents that never change but by appending, and a name of /etc
leads to one of them: a replacement is a new content, and a stream goes on in the
one it opened.  An enumeration is a position; a lookup opens its own stream.

`getpwnam_r()` and `getgrnam_r()` compare the size of the program's buffer not with
the line but with what getline() has allocated: `LineMin` bytes first, then for a
line that does not fit as much as it takes, or twice what there was.  Which of these
depends on the lines read before and on the C library, so the capacity is an
argument, any of `Capacities`.  For a group the code adds the pointers of its
members and `Slack` bytes, and aligns the array it writes (`Filled`).  The failures
of fopen() and of the allocations are an argument too.

`getspnam_r()` is by characters for the lengths only: its buffer cuts a line,
and the rest of it comes next.  Before it reads, it refuses names (`Refused`) and
buffers without the room it wants (`Spare`), and ends with the error of an open();
a user who has a file of his own under /etc/tcb (`Tcbs`) is read from there alone.

## Runs

| run | instance | what it shows |
|---|---|---|
| `metadata_alone` | 1 process, a file of its own, a file of root; 4 modes (0644, 04755, 0, a character device), the mask 022 and then 0222 or 01007, recorded or not, ids {-1, 1} | the user keeps his access; chmod() is seen by stat(); a new file is seen less the mask the program gave last, whatever IAMROOT_UMASK has |
| `metadata_shared` | 2 processes on 1 path, 2 modes (04700, 0400), 2 masks, recorded or not, symmetry | the user keeps his access under every interleaving, removals included |
| `jail` | /rt, /rt/aa, /rt2, /aa, /proc, room for one file more; 9 paths, one of them //rt, 1 descriptor | from a proper root, resolution is that of chroot(2), getcwd() leads back, and the root is dropped outside only |
| `jail_links` | /rt, /rt/aa, /aa, room for two links; 6 paths, 3 contents | resolution through links to links, relative, absolute and looping, and that it ends |
| `wrappers` | /rt, /rt/aa, room for one file more; 5 paths, 2 contents of links, 8 probes | each wrapper of the table but inotify_add_watch() and fanotify_mark() gives the kernel what a jail would have reached, after any renaming, linking and removal; each path returned leads back |
| `environ` | 10 variables of the library and one of the program, repeated at the start; 2 cells of the heap, 2 strings, masks 0 and 01000 | nothing is freed too soon or twice; the array is a map (refinement of `EnvMap`), partial failures of the ids and lost variables of an envp included; with memory an execve() loses none |
| `exec` | two dozen files, loaders of glibc (three versions), musl, FreeBSD, NetBSD, scripts of one to four words; 2 command lines, 3 searches, in and out of the jail | the program asked for runs with its arguments, preloaded with its build, and finds its libraries under the root; interparg holds; a search ends |
| `accounts` | the host and one jail, 2 users, 2 activities at once, 48 contents of shadow and users' own files, 5 sizes of a buffer, 2 alignments | enumerations and lookups agree and survive replacements; buffers hold; a program gets its groups |
| `libraries` | 2 threads, 14 objects with a cycle, shared needs, RPATH, RUNPATH, nodeflib, a cache, a closed directory, a missing library | no library is left for the loader to look for on the host; lists are complete and without repetition; walks end |

Runs that find a disagreement between the code and what the repository says of
it, each listed under `findings` with the line it contradicts:

| run | the code |
|---|---|
| `metadata_open` | opening a file forgets the recorded mode |
| `jail_sibling` | the jail /rt is not left by a chdir() to /rt2 |
| `environ_reset` | execve() with an envp that shares strings of environ frees them before it reads them, and loses the variables |

`exec` does not check for deadlock: a process that has become an image without
the library is out of the model.

The properties are stated beside what the code does not promise:

- `SameAsChroot` and `CallsSameAsChroot` leave out the paths that climb over the
  root, those that spell the root itself or lead to an ignored path, those that
  use as many links as the limit, and, where the last link is not followed, those
  with a link before it.  They say where a path leads in every other case, be it
  an existing file or a free name.
- `ResolutionEnds` is checked of an instance where no file has the attribute
  user.iamroot.path-resolution: what it says is resolved without being counted.
- They, and what follows of the jail, are stated of a root that is `Proper`: with one
  stored as "//rt" the first chdir() drops it, and getcwd() does not take it off.
- `GetcwdRoundTrip` and `ReturnedPathsLeadBack` leave out the files that are, or are
  below, a directory with the attribute user.iamroot.path-resolution
  (`NotRedirected`): a process that was started in such a directory, or that has one
  open, is told a path that leads where the attribute says.  They leave out the
  ignored paths and those that begin with the root a second time, which are the
  host's.
- `ChmodIsSeen` and `CreatedLessTheMask` are about a process that runs alone:
  with two, the inode may have the mode of one call and the attribute of the
  other.  The mask of `CreatedLessTheMask` is the one last given to umask(), recorded
  or not, less what the library keeps from the kernel: the four-digit bits, and the
  user's read and write permissions.  A mode without these permissions, or with a
  set-ID bit, is recorded as it was asked for, before any mask applies.
- `SameArguments` is stated while the variable argv0 is unset or the program's
  own, and for interpreters given in one word.
- `PreloadedInTheJail` is about programs whose build is installed and hidden by
  no other (`Provided`).
- `EnvpMerged` is about calls that find memory for the array, in any state; what is
  promised of the others is in `MapSpec`.
- `ReentrantHolds` says of ERANGE that a program which doubles its buffer gets its
  answer in the end: not that it comes only when the entry does not fit, which is
  false of the code.
- `OwnedOnce` and `MapSpec` are stated until an execve() with an environment of
  the program's own has failed (`reset`): that call has freed the strings.
- `ListsComplete` takes the search of one name from the model, and checks the
  walk.

### Bounds

- `MaxInodes` (jail): files of the tree.  One new entry reaches every rule about
  a single link; two reach chains and loops.
- `MaxRoot`: parts of IAMROOT_ROOT, 3 for a jail in a jail.
- `SYMLOOP_MAX`: 4 in place of 40, one above what two links need, and a loop
  meets it.
- `MaxSteps`: parts and links `__realpathat()` looks at; 20 is more than any path
  of the instances takes with that limit (a run with 24 has the same states), which
  `ResolutionEnds` checks.
- `Args`, `Targets`, `Probes`: the paths the program gives, writes into links,
  and those the properties compare.
- 4 modes: one that needs no adjustment, one with the set-user-ID bit, none at all,
  one with type bits.  3 masks: the usual one, one that masks the user's own
  permission, one of four digits.
- `MaxEnviron`, `Heap`: 2 strings in the array and 2 cells, so that one is
  replaced while the other stays; the call that would add a third is not taken.
- `MaxEnvp`: strings of an envp; `SharesStrings` gives it strings of environ, for
  `environ_reset`.
- `MAXGROUPS`: 1 in place of the size of the buffer; lists of one more are given.
- `MaxRoots`, `MaxEntries`: 2 roots before an entry and 2 entries in a list; a call
  that would add more is not taken.
- `MaxGoing`, `MaxInodes`, `MaxLines` (accounts): 2 activities at once (an
  enumeration with a lookup, a stream or a request), 5 contents over time (one
  more than there are at the start), 2 lines at most after an append.
- `LineMin`, `PointerSize`, `Slack`, `Align`, `Spare`: 3, 1, 1, 2 and 1 in place of
  120, 8, 32, 16 and 100, so that lines shorter and longer than the first allocation
  are met by a name of one letter and up to two members.
- `Buffers`: from one refused at once to one that holds whatever is allocated.

### Fairness

Calls are made by the program, and nothing says that it makes any: the actions
that begin one have no fairness.  A call that has begun goes on, as the code has
no wait in it:

- `WF(SetNext)` in `Credentials`: the ids of a call in progress are set.  The
  run that uses it has a safety property only;
- `WF(SearchNext)` in `Exec`: the loop of execvpe() tries its next name, for
  `SearchEnds`;
- `WF(Walking(t))` in `Libraries`, for each thread: the scheduler runs every
  thread, for `WalksEnd`;
- `WF(AskAgain(FALSE))` in `Accounts`: a program that was told a size asks again,
  and there is memory some time, for `GroupsAreGot`.

`Metadata`, `Jail` and `Wrappers` have none: their properties are about what a
step may do.

## Theorems

A theorem holds for every value of the constants its module's assumptions allow; a
run shows the same property on one instance, and was there first.

| theorem | property | inductive invariant |
|---|---|---|
| `TypeCorrect`, `UserAccess` (`Metadata_proofs`) | `TypeOK`, `UserKeepsAccess` | `IInv`: types, files, pending calls, masks |
| `ChmodSeenByStat`, `NewFilesLessTheMask` (`Metadata_proofs`) | `ChmodIsSeen`, `CreatedLessTheMask` | `IInv` and `AloneInv` |
| `JailTyping` (`Jail_proofs`) | `TypeOK` of `Jail` | itself |
| `RootLeftOutside` (`Jail_proofs`) | `RootLeftOnlyOutside` | `TypeOK` |
| `GetcwdBack` (`Jail_proofs`) | `GetcwdRoundTrip` | `TypeOK` |
| `JailIsChroot` (`Jail_proofs`) | `SameAsChroot`, of `Spec` and of `WrappersSpec` | `TypeOK`, and `NothingRedirected` |
| `WrappersTyping` (`Jail_proofs`) | `TypeOK`, of `WrappersSpec` | itself |
| `PathsLeadBack` (`Jail_proofs`) | `ReturnedPathsLeadBack` | `TypeOK` |
| `EnvironTyping`, `Ownership` (`Environ_proofs`) | `EnvironTypeOK`, `OwnedOnce` | `IInv`: both, and `TodoOK` |
| `EnvironImplementsMap`, `ResetenvLosesNothing` (`Environ_proofs`) | `MapSpec`, `EnvpMerged` | the same |
| `AccountsTyping`, `Enumeration` (`Accounts_proofs`) | `AccountsTypeOK`, `EnumeratedOnce` | `IInv`: `Typed`, `Placed`, `Begun`, `Returned` |
| `LookupsAndEnumerations`, `Reentrancy` (`Accounts_proofs`) | `LookupsAgree`, `ReentrantHolds` | the same |
| `ShadowAnswers` (`Accounts_proofs`) | `ShadowByLines` | `AccountsTypeOK` |
| `NothingOfTheHost` (`Libraries_proofs`) | `NothingFromTheHost` | `IInv`: `Loaded`, `Coming`, `Listing` |
| `CompleteLists` (`Libraries_proofs`) | `ListsComplete` | the same, and what is listed is needed |
| `ExecTyping` (`Exec_proofs`) | `ExecTypeOK` | `IInv`: `EnvOK`, `Low`, `SearchOK` |
| `ArgumentsKept`, `PreloadedAlways`, `ArgumentsFit` (`Exec_proofs`) | `SameArguments`, `PreloadedInTheJail`, `InterpargFits` | the same, and what a call returns |

**Metadata.**  `UserKeepsAccess` is not inductive: a step that creates a file takes
its mode from `call[p]` and the mask from `kmask[p]`.  `IInv` adds that the mode of
a pending call that creates or changes a file has the user's read and write bits and
no set-ID bit (`CallsOK`: the entry's adjustment), that the kernel's mask of each
process has neither bit (`MasksOK`: umask()), and that a file that is the user's has
them already (`FilesOK`).  There is a lemma for each kind of step (`EnteringMode`,
`KernelStep`, `RecordStep`, `UnlinkStep`, `UmaskStep`), and `NextIInv` puts them
together.  The assumptions are those `Metadata` declares: modes are sets of bits,
masks have permission bits only, the files found at the start are not the user's,
`NoMode` and `Absent` are no mode and no inode.

What stat() shows after a call of a process that is alone needs to know where the
call is: `AloneInv` says that the adjusted mode comes from the one asked for
(`Asked`), that after the kernel's step the inode has it (`Given`, `Made`, for a new
file less the kernel's mask), and that this mask is the one last given to umask(),
whether it was recorded or not, less the user's permissions (`MaskedOK`).  With `Recordable` (the user can write the file, so the
attribute is set) and `RecordedIsSeen`, the step that records shows the mode.

**PathResolution.**  `Lookup` of the kernel and `__realpathat()` are functions that
call themselves on the next state of a loop, and such a function is only known to be
one where the loop ends.  `Iteration` says that a function is defined by a step and a
set of final values if going back from these by steps leads everywhere
(`Terminates`); `LookupTerminates` shows it for the kernel by the links left, then by
the parts left, since a link that is followed adds parts; `RealpathRuns` for the code,
whose model counts the parts it looks at.  A lookup that ends is typed and of a place
whose directory exists (`LookupTyped`, `LookupPlaced`), which is all `JailTyping`
needs of it.  Of the resolution, `RealpathIs` and `SanitizeIs` say that it gives a
path, and `NameLeadsBack` what the path of a file resolves to: the name told of a
location is its path less the root (`StrippedIs`), which is neither sanitised further
nor one of the magic links (`MagicIgnored`); the root is put before it again;
`RealpathCanonical` runs the loop over it, which meets a directory at each part, no
link and no attribute, and leaves it as it is; and `CanonicalLookup` is the kernel's
walk of it.

That a jail resolves as chroot(2) does, through links of any content, takes the two
loops together: `__realpathat()` with the host's root and its working directory, and the
kernel's walk with the jail's root.  Both are in terms of `Reaches`: the lookup of
these parts, from this location, with so many links behind it, leads there.  `Rule` says
what a part changes (nothing is looked up for "." or for an empty part, ".." goes up, a
link puts its parts first), whichever root it is.  At each turn of the code's loop, what the
jail's kernel reaches from the place of the output, by what is left on the stack, is what
it reaches by the program's path (`Imitates`): a part is skipped
(`SkipImitates`), moves the output (`DotImitates`, `UpImitates`, `PartImitates`), or is
a link (`LinkImitates`, and `AbsoluteImitates` for a target with the root put
before it); `StepImitates` puts these together and `RunImitates` goes on by induction to
the end of the loop.  There the output is the path of a place whose directory exists
(`EndStands`), and the host's kernel finds that place in it (`HostPathReaches`).
Around the loop, sanitising drops slashes that lead nowhere (`SanitizeReaches`), a path
with the descriptor's directory or the working directory before it leads where the path
led (`JoinReaches`), and the strip of ignored paths leaves the result alone (`KeptIs`),
because an ignored path is absolute and what `Excepted` leaves is none (`NotIgnored`,
`OutsideIs`).  `ResolutionLeads` is all of it, and says that the path given to the
kernel is that of the place the jail's kernel reaches.

**Jail.**  `TypeOK` is inductive: a new entry is made where the lookup found its
directory, so the tree stays one (`CreateTypes`), what is in use is not removed
(`RemoveTypes`), and a rename moves all that is below a directory, one location to
one, never into itself, to a place that is free or empty (`RenameTypes`, with
`MovedIs`, `MovedParent` and `MovedApart`).  `GetcwdRoundTrip` and
`ReturnedPathsLeadBack` are then `NameLeadsBack` in every state: `ToldIs` says that
the dozen wrappers that return a path tell this one, and that realpath() tells it or
is apart.  `RootLeftOnlyOutside` rests on `BelowBegins`: the path of a directory
begins that of every one below it, which is why a comparison of strings never drops
the root too early.  The converse, that the root is dropped outside, is what
`jail_sibling` refutes.  All are about roots that are `Proper`: for these the prefix
of the code and the path of the kernel are one, which is the first step of each proof.
The assumptions: the files at the start are a tree
(`InitAssumption`), the probes are paths, and paths are not empty (an empty one is
another error of the kernel's), names have no slash and are not empty, ".", or "..",
and the ignored paths are absolute and have /proc/ and /dev/ among them
(`PathsAssumption`), as the code's default has.

`JailIsChroot` is `ResolutionLeads` in every state (`LeadsAs`), with two hypotheses of
its own.  `NothingRedirected(InitFs)`: the attribute user.iamroot.path-resolution is on
no file at the start; it is meant to lead elsewhere than chroot(2) does, and no action
sets it (`NextKeepsPlain`, `WrappersNextKeepsPlain`: a file is new, linked or renamed).
`ResolutionEnds`: `MaxSteps`, the bound the model puts on a loop that has none
in the code, is enough for the probes in this state; `jail_links` checks it.  That some
bound is enough for every tree is not proved: each link counts, and there are at most
`SYMLOOP_MAX` of them, but how many parts their targets push is up to the tree.

**Sequences.**  The theorems of the library on induction take an operator as a
parameter; `Lists_proofs` states them with a set in its place (`Induction`: a set
that has 0 and the successor of each of its numbers has all of them; `Least`;
`Recursion`: a function given by a first value and a step exists), from the
minimality of well-founded orders.  `OnlyIsRecursive`, `OnlyPicks` and `OnlyAppends`
say what `Only()` keeps, in which order.

**Environ.**  The three parts of `IInv` need one another: a call in progress (`todo`)
sets variables as setenv() does, which keeps ownership only while no failed
execve() has freed strings that are still in the array, and `TodoOK` says there is
none.  Each function of env.c has a lemma on types (`PutenvTyped`), on ownership
(`PutOwned`, `UnsetOwned`, `ClearOwned`, `ImageOwned`: a string that goes out of the
array is freed if the library made it, and forgotten) and on what getenv() finds
afterwards (`PutGives`, `UnsetGives`).  The refinement has a case for each action:
putenv() and setenv() are the abstract set of one variable, or a stutter when there
is no memory.  `StringPut` says what one string of envp does when the array may not
grow, `PutAllMerges` what they all do, by induction over envp; `ResetenvMerges` that
the environment of an execve() is envp over what was there, but for what memory
lacked for, and `ExecveMaps` that this is a step of the map.  With none lacking it
gives `ResetenvLosesNothing`.  `EnvironImplementsMap` is for an envp that
shares no string with environ (`~SharesStrings`), as `environ_reset` shows it must
be; `EnvironTyping` and `Ownership` are for any.

**Accounts.**  `EnumeratedOnce` speaks of streams that are open, and an open stream
may be one that was rewound: `Begun` says that what was not begun has returned
nothing, and `Returned` that what was returned is the entries up to the stream's
position, in the content it opened, which other steps replace or append to but never
change (`AppendedKeeps`, `GrownAt`).  `Entries` are the lines that have all their
fields; `PlacesStep` to `PlacesSame` count them by induction.  The two properties
about lookups are then about a state: `LookupsHold` compares the first line of a name
with the first entry returned under it, `ReentrantIs` takes the loops of
getpwnam_r() and getgrnam_r() to the line they stop at: `CapacityIs` bounds what
getline() may have allocated by the lines read until then, `AlignedFits` says that the
array, what is skipped to align it, and the line are in what the code has counted
(`BufferAssumption`: the slack covers the alignment), and `AnsweredBy` puts the answer
together, `FailureAnswers` where a file or memory is missing.

`getspnam_r()` reads what fgets() cuts, and `ShadowByLines` speaks of whole lines.
`PieceIs`: only the last piece of a line has its newline, and the first is the line
if the line is in the buffer.  `ReadLineIs`: the pieces of a line together do what
`WholeLine` says, from a state that skips nothing, which each line that has its
newline leaves.  `ReadsOn` and `ContentHolds` take this over a file.
`ShadowAssumption` says that lines are not empty, that only the last may have no
newline, that a name has none, and that the code wants some room besides it, so that
a buffer it reads with has place for a character and the end of the string
(`RoomLeft`).

**Libraries.**  `NothingFromTheHost` is about what is loaded, and a walk decides it
in many steps between which others load.  `Loaded`: what an opened object needs is
answered by an opened object, or is a path.  `Coming`, for the frames of a dlopen():
what an object needs is answered by what is opened, by the frame above it, which is
opened first, or is left to go through.  `Listing`, for an exec: each object of
the list has what it needs in the list, but for the frame that goes through it.  Both
hold whatever other threads open in between, for the link map only grows; only an
exec replaces it, and it ends every walk.

`ListsComplete` compares the end of a walk with a closure.  While it goes on, each
object that was listed or entered has what it needs among these and the names left
in a frame (`Gathers`), the objects on the stack are distinct and not yet in the list
of ldd, and whatever is listed is in the closure; `SkipGathers`, `EnterGathers` and
`LeaveGathers` are the three things a step does.  When no frame is left, the list is
closed, and the closure, which `Cardinality(Files)` rounds complete because a round
that adds nothing is the last, is the least such set: so the set of files is assumed
finite.

**Exec.**  `IInv` says of the environment that a list that is set has something, that
its words are those of libraries and entries, and of a search that its names and
arguments are the program's.  It is what the three properties start from; the rest is
what a call returns.  `SupportedIs`: an option the code believes a version of glibc
to have is one it has.  `OptionsTold`: `Options()` is as long as `shift()` says, ten
words at most, for every C library and version.  `LoaderStarted`: the loader that takes
this line apart finds the program, its arguments and the lists, for it knows each
option it is told and the program's path is none (`PositionalIs`, `LoadedIs`).
`CallMade` and `LdsoRuns`: what `__ldso()` writes and shifts is that line.
`InterpargIs`: a script leaves three words at most.  `ProvidedLoads`: the build that
is found is the one that can be loaded.  The cases out of the jail (`HostCall`,
`SameOnTheHost`) are the kernel's.

### Model-checked only

- `CallsSameAsChroot` of `Wrappers`: where the last link is followed it is what
  `JailIsChroot` says; the calls that do not follow it, or that give the kernel
  something else, each take the simulation again with a last part that is left
  alone, and are left to the run.
- `ResolutionEnds`: see `JailIsChroot`.
- `LibrariesTypeOK`: its types are in `IInv`; that no file is twice on a stack is not
  true of every instance (ldd of libraries that need one another, see the
  divergences), so it is about the instance of the run.
- `SearchEnds`, `GroupsAreGot`, `WalksEnd`: liveness under fairness is out of the
  provers' reach.

## Known divergences

Behaviours of the code the models have, about which the repository states
nothing or that a run would show of an instance left out.  The hazards refer to
this list.

Modes and ownership:

- a mkdir() that fails because the directory exists rewrites the mode recorded
  for it (`mkdirat.c:51`);
- mknod() records the type bits of its mode, and stat() adds them to those of the
  regular file (`mknodat.c:21`);
- a first chown() is never recorded, since the record is written from the
  comparison of the record with itself: stat() shows root (`chown.c:51`);
- umask() records no mask of four octal digits: the kernel's changes, IAMROOT_UMASK
  stays, and umask() returns the older one at the next call (`umask.c:23`);
- mkdir() tests for a directory before there is one, and the user's search
  permission is not added (`mkdirat.c:48`).

Paths and the jail:

- "/.." in a jail is the parent of the root directory, links before the last
  component are the host's with AT_SYMLINK_NOFOLLOW, and the 40th link is not
  followed (`path_resolution.c:189`, `:158`, `:198`);
- chroot() stores a relative path when the resolution fails (`chroot.c:21`);
- chroot("//rt") stores a root with its two slashes (`path_resolution.c:112`): paths are
  resolved under it, but getcwd() does not take it off and a chdir() within the jail
  drops it;
- /proc/self/exe is the path of the program less as many characters as the root has
  (`iamroot.c:859`), whatever they are: another text once the root has changed since
  the exec, or where IAMROOT_ROOT was set to "/" by hand, which is not in the model;
- realpath("/") in a jail returns the empty path.

Environment:

- an execve() that finds no memory for the array loses variables of envp without a
  word (`env.c:282`).

Exec:

- a library path set for a loader without --library-path is taken for the
  program's own at the next execve(), and the root is prefixed again (`dso.c:102`);
  after a loader with --library-path the user's LD_LIBRARY_PATH is lost
  (`dso.c:3299`); the library is added to LD_PRELOAD again at each exec out of the
  jail unless its name is libiamroot.so;
- a libiamroot.so in the first directory looked at, the host's build, hides the
  right build of a program of another C library (`dso.c:2158`, `:2405-2420`); the
  directory of FreeBSD's amd64 (CHANGELOG.md:691) is only tried when the prefix
  has no libiamroot.so, which `make install` always installs;
- fexecve() is the system call itself and bypasses the library (`fexecve.c:27`).

Dynamic loading:

- the directories of the preload list are searched in another order than ld.so(8)
  has (`dso.c:2719-2810`), and EACCES in one ends the search (`dso.c:506`);
- the objects dlmopen() needs go to the first namespace (`dlmopen.c:73`);
- dlopen() and ldd of libraries that need one another, and are not opened,
  recurse until the stack ends (`dso.c:768`).

Accounts:

- the last character of a line is cut whether it is the newline or not
  (`passwd.c:92`), and getspnam_r() answers ERANGE for ever on a last line without
  one (`shadow.c:183`).

## Plan

1. (done) `Metadata` and its proofs; `Paths`, `Kernel`, `PathResolution`, `Jail`.
2. (done) `EnvMap`, `Environ`, `Credentials`; `Calls`, `Wrappers`; `Loaders`,
   `Exec`; `Libraries`; `Accounts`.
3. (done) Theorems about `Metadata`, `Jail` and `Wrappers` with the recursion of
   `Lookup` and `__realpathat()`, `Environ` and its refinement of `EnvMap`, `Accounts`,
   `Libraries`, `Exec`.  Left: `CallsSameAsChroot`, and a bound in place of
   `ResolutionEnds`.
4. `AtomicMetadata`: one step for each chmod(); `Metadata` with one process
   implements it, with two it does not.
5. Threads between `next_chdir()` and `__chrootdir()`; the redirect attribute in
   an instance; the names of extended attributes.

## Not modelled

- Sockets: the path of an AF_UNIX address is resolved like any other, in a field
  of fixed size.
- ftw(), nftw() and fts: copies of other C libraries over the `lstat()` and
  `opendir()` of `Calls`.
- The names of the program's extended attributes, which get a prefix.
- ELF parsing and the format of ld.so.cache: a file is what they say; `ld.c`, the
  command line of ld-iamroot.so; the namespaces of dlmopen().
- The BSD builds and their names of descriptors: the model is the Linux build.
- PATH_MAX and the other lengths, but for those that are a hazard (interparg, the
  buffers of the accounts, the mask); IAMROOT_EXEC_IGNORE; logging; errno but
  where a caller branches on it.
- Threads that race in the jail or in the environment: what they do to the
  unlocked arrays is up to the C library.
- The writers of shadow, the stubs, which return success, the vendored regular
  expressions, and the scripts that start a program.

`PROJECT.json` lists every component with its status.
