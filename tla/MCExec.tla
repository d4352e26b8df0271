------------------------------- MODULE MCExec -------------------------------
(* Instances of Exec for TLC: the root of the jail is "/rt". *)
EXTENDS Exec

MCResolved ==
    LET paths == {"/ld.so", "/ld-2.31.so", "/ld-2.19.so", "/ld-musl.so", "/ld-elf.so",
                  "/ld.elf_so", "/bin/sh", "/bin/new", "/bin/old", "/bin/musl", "/bin/elf",
                  "/bin/nb", "/bin/odd", "/s", "/s1", "/s3", "/ld64.so", "/loop", "/empty",
                  "/suid", "/noexec", "/data", "/none"}
        root  == "/rt"
    IN  [path \in paths |-> root \o path] @@ "/none" :> "/rt/none"

Name(ldso, abi) == [ldso |-> ldso, abi |-> abi]
Elf64(machine, interp, osabi, name) ==
    [type |-> "elf", interp |-> interp, machine |-> machine, bits |-> 64,
     osabi |-> osabi, name |-> name]
Script(words) == [type |-> "script", words |-> words]
Loader(version, knows) == [type |-> "loader", version |-> version, knows |-> knows]
Glibc == {"--library-path", "--inhibit-rpath", "--inhibit-cache"}

Gnu(interp) == Elf64("x86_64", interp, "SYSV", Name(<<"linux", "x86-64">>, 2))
Musl    == Elf64("aarch64", "/ld-musl.so", "SYSV", Name(<<"musl", "aarch64">>, 1))
FreeBSD == Elf64("x86_64", "/ld-elf.so", "FREEBSD", Name(<<"elf">>, 1))
NetBSD  == Elf64("aarch64", "/ld.elf_so", "NETBSD", Name(<<"elf">>, NoAbi))

\* glibc of today, 2.31 and 2.19, musl, FreeBSD and NetBSD, and a loader of no known name.
MCFiles ==
    "/rt/ld.so"      :> Loader(NULL, Glibc \cup {"--preload", "--argv0"})
 @@ "/rt/ld-2.31.so" :> Loader(<<2, 31>>, Glibc \cup {"--preload"})
 @@ "/rt/ld-2.19.so" :> Loader(<<2, 19>>, Glibc)
 @@ "/rt/ld-musl.so" :> Loader(NULL, {"--preload", "--library-path", "--argv0"})
 @@ "/rt/ld-elf.so"  :> Loader(NULL, {})
 @@ "/rt/ld.elf_so"  :> Loader(NULL, {})
 @@ "/bin/sh"     :> Gnu("/ld.so")
 @@ "/rt/bin/sh"  :> Gnu("/ld.so")
 @@ "/rt/bin/new" :> Gnu("/ld-2.31.so")
 @@ "/rt/bin/old" :> Gnu("/ld-2.19.so")
 @@ "/rt/bin/musl" :> Musl
 @@ "/rt/bin/elf" :> FreeBSD
 @@ "/rt/bin/nb"  :> NetBSD
 @@ "/rt/bin/odd" :> Elf64("x86_64", "/ld.so", "SYSV", NULL)
 @@ "/s"          :> Script(<<"/bin/sh">>)
 @@ "/rt/s"       :> Script(<<"/bin/sh">>)
 @@ "/rt/s1"      :> Script(<<"/bin/old", "-x">>)
 @@ "/rt/s3"      :> Script(<<"/bin/sh", "-e", "-u", "-x">>)
 @@ "/rt/ld64.so" :> Script(<<"/bin/sh">>)
 @@ "/rt/loop"    :> Script(<<"/s">>)
 @@ "/rt/empty"   :> [type |-> "empty"]
 @@ "/rt/suid"    :> [type |-> "special"]
 @@ "/rt/noexec"  :> [type |-> "noexec"]
 @@ "/rt/data"    :> [type |-> "other"]

MCArgvs == {<<"a">>, <<"b", "-v">>}
MCSearches == {<<"/none", "/rt/s">>, <<"/suid", "/bin/sh">>, <<"/noexec", "/bin/sh">>}
MCNeeded == <<"libc.so">>
MCLdsoNames == {"/ld64.so"}
MCOwn == "LD_PRELOAD" :> <<"own.so">> @@ "LD_LIBRARY_PATH" :> <<Entry("/opt")>>

\* The directory of IAMROOT_ORIGIN has the library of glibc, the prefix those of musl and
\* of the host, a variable names that of FreeBSD; NetBSD has none.
MCInstalled ==
    "/build" :> (Build(Gnu("")) :> "x86_64.so")
 @@ "/usr"   :> (Build(Musl) :> "musl.so" @@ Host :> "libiamroot.so")
MCLibVariables == Build(FreeBSD) :> "amd64.so"
MCBuiltFor ==
    "libiamroot.so" :> Build(Gnu("")) @@ "x86_64.so" :> Build(Gnu(""))
 @@ "musl.so" :> Build(Musl) @@ "amd64.so" :> Build(FreeBSD)
MCMultiarch == "x86_64" :> <<"/lib/x86_64">>
MCNone == <<>>
MCDefLib == <<"/lib">>
=============================================================================
