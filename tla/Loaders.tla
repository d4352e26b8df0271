-------------------------------- MODULE Loaders --------------------------------
(***************************************************************************)
(* What the library tells from a program about its dynamic loader and its  *)
(* C library, dso.c: the world they are of, the options the loader knows,  *)
(* its directories, and the build of the library the program can be given. *)
(*                                                                         *)
(* A program has the machine of its ELF header, byte order and float ABI   *)
(* included, its class (bits), its OS ABI, and the name of its loader:     *)
(* "ld-linux-x86-64.so.2" is [ldso |-> <<"linux", "x86-64">>, abi |-> 2].  *)
(***************************************************************************)
EXTENDS Integers, Sequences

CONSTANTS
    NULL,
    Installed,      \* [directory -> [build -> path of the library there]]
    Origin,         \* IAMROOT_ORIGIN, a directory or NULL
    Prefix,         \* the directory the libraries are installed in
    LibVariables,   \* [build -> path], the variables IAMROOT_LIB_<build>
    IAMROOT_LIB,    \* that variable, a path or NULL
    Multiarch,      \* [machine -> directories] with IAMROOT_MULTIARCH, else empty
    DefLibVariables,\* [build -> directories], the variables IAMROOT_DEFLIB_<build>
    IAMROOT_DEFLIB  \* that variable, directories or NULL

NoAbi == -1

ASSUME LoadersAssumption ==
    /\ Prefix \in DOMAIN Installed /\ Origin \in DOMAIN Installed \cup {NULL}
    /\ \A machine \in DOMAIN Multiarch : Multiarch[machine] \in Seq(STRING) \ {<<>>}
    /\ \A build \in DOMAIN DefLibVariables :
          DefLibVariables[build] \in Seq(STRING) \ {<<>>}
    /\ IAMROOT_DEFLIB \in (Seq(STRING) \ {<<>>}) \cup {NULL}

-----------------------------------------------------------------------------
(* The worlds *)

Begins(program, part) == program.name.ldso # <<>> /\ Head(program.name.ldso) = part
Former(program, abi)  == program.name = [ldso |-> <<>>, abi |-> abi]

__is_gnu_linux(program) == Begins(program, "linux") \/ program.osabi = "GNU"

\* The machines whose loader has no name of its own, "ld.so.1" and "ld64.so.2".
__is_gnu_linux_ext(program) ==
    \/ __is_gnu_linux(program)
    \/ program.machine \in {"mipsle", "powerpc", "s390"} /\ Former(program, 1)
    \/ program.machine \in {"powerpc64", "powerpc64le"} /\ Former(program, 2)

__is_musl(program) == Begins(program, "musl")

Elf(program, abi) == program.name = [ldso |-> <<"elf">>, abi |-> abi]
__is_freebsd(program) == program.osabi = "FREEBSD" \/ Elf(program, 1)
__is_netbsd(program)  == program.osabi = "NETBSD" \/ Elf(program, NoAbi)
__is_openbsd(program) == program.osabi = "OPENBSD"

-----------------------------------------------------------------------------
(* The options *)

\* The first glibc that has the option.
Since == [option \in {"--inhibit-cache", "--preload", "--argv0"} |->
             CASE option = "--inhibit-cache" -> <<2, 16>>
               [] option = "--preload"       -> <<2, 30>>
               [] option = "--argv0"         -> <<2, 33>>]

\* Faulty: of the version only the first number is looked at.
Supported_major(version, option) == version = NULL \/ version[1] >= Since[option][1]

\* The version is in the name of the file the loader's links lead to; a glibc that has
\* none there is taken for a recent one.
Supported(version, option) ==
    \/ version = NULL
    \/ version[1] > Since[option][1]
    \/ version[1] = Since[option][1] /\ version[2] >= Since[option][2]

Has(program, loader, option) ==
    \/ /\ __is_gnu_linux_ext(program)
       /\ \/ option \in {"--library-path", "--inhibit-rpath"}
          \/ option \in DOMAIN Since /\ Supported(loader.version, option)
    \/ /\ __is_musl(program)
       /\ option \in {"--preload", "--library-path", "--argv0"}

\* The loaders of NetBSD and OpenBSD are not run as programs.
Shift(program) ==
    IF __is_netbsd(program) \/ __is_openbsd(program) THEN 0
    ELSE IF __is_gnu_linux_ext(program) \/ __is_musl(program) \/ __is_freebsd(program) THEN 1
    ELSE 0

-----------------------------------------------------------------------------
(* The library *)

\* What the header tells: the float ABI of an ARM is in its flags, and one e_machine is
\* two machines by the byte order.
Machines == {"x86", "x86_64", "arm", "armhf", "aarch64", "aarch64_be", "riscv", "mipsle",
             "powerpc", "powerpc64", "powerpc64le", "s390"}

\* The name of a machine in paths and variables; the ones unknown have none.
__machine(program) ==
    LET linux == __is_gnu_linux(program) \/ __is_musl(program)
        m     == program.machine
    IN  CASE m = "x86"    -> IF linux THEN "i686" ELSE "i386"
          [] m = "riscv"  -> IF linux THEN "riscv64" ELSE "riscv"
          [] m = "mipsle" -> IF program.bits = 32 THEN "mipsle" ELSE "mips64le"
          [] m = "s390"   -> "s390x"
          [] m \in Machines \ {"x86", "riscv", "mipsle", "s390"} -> m
          [] OTHER        -> NULL

\* <machine>/libiamroot-<ldso>.so.<abi>; the host's is libiamroot.so, of no machine.
Build(program) == [machine |-> __machine(program), name |-> program.name]
Host == [machine |-> NULL, name |-> NULL]

\* Faulty: the host's library comes first.
__libiamroot_access_host(program, dir) ==
    IF Host \in DOMAIN Installed[dir] THEN Installed[dir][Host]
    ELSE IF Build(program) \in DOMAIN Installed[dir] THEN Installed[dir][Build(program)]
    ELSE NULL

__libiamroot_access(program, dir) ==
    IF __machine(program) # NULL /\ Build(program) \in DOMAIN Installed[dir]
    THEN Installed[dir][Build(program)]
    ELSE IF Host \in DOMAIN Installed[dir] THEN Installed[dir][Host]
    ELSE NULL

\* The directories of the BSDs have other names; the other paths that are written in the
\* code are those that were tried before.
HardCoded(program) ==
    IF (__is_freebsd(program) \/ __is_netbsd(program)) /\ program.machine \in {"x86_64", "aarch64"}
    THEN [Build(program) EXCEPT !.machine = IF program.machine = "x86_64" THEN "amd64" ELSE "arm64"]
    ELSE Build(program)

\* The default when nothing is found is a path all the same.
__getlibiamroot(program) ==
    LET In(dir) == IF dir = NULL THEN NULL ELSE __libiamroot_access(program, dir)
    IN  IF Build(program) \in DOMAIN LibVariables THEN LibVariables[Build(program)]
        ELSE IF In(Origin) # NULL THEN In(Origin)
        ELSE IF In(Prefix) # NULL THEN In(Prefix)
        ELSE IF HardCoded(program) \in DOMAIN Installed[Prefix]
        THEN Installed[Prefix][HardCoded(program)]
        ELSE IF IAMROOT_LIB # NULL THEN IAMROOT_LIB
        ELSE "libiamroot.so"

-----------------------------------------------------------------------------
(* The directories *)

__getdeflib(program) ==
    IF __is_gnu_linux_ext(program) /\ program.machine \in DOMAIN Multiarch
    THEN Multiarch[program.machine]
    ELSE IF Build(program) \in DOMAIN DefLibVariables THEN DefLibVariables[Build(program)]
    ELSE IF IAMROOT_DEFLIB # NULL THEN IAMROOT_DEFLIB
    ELSE IF __is_gnu_linux(program)
    THEN IF program.bits = 64 THEN <<"/lib64", "/usr/lib64">> ELSE <<"/lib", "/usr/lib">>
    ELSE IF __is_netbsd(program) THEN <<"/lib", "/usr/pkg/lib", "/usr/lib">>
    ELSE <<"/lib", "/usr/local/lib", "/usr/lib">>

=============================================================================
