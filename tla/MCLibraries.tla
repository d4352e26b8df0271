----------------------------- MODULE MCLibraries -----------------------------
(* Instances of Libraries for TLC. *)
EXTENDS Libraries, TLC

CONSTANTS t1, t2

Object(needed, soname) ==
    [needed |-> needed, soname |-> soname, rpath |-> <<>>, runpath |-> <<>>, nodeflib |-> FALSE]

In(dir, names) == {Path(dir, name) : name \in names}

\* "cyc" needs two libraries that need each other; "app" shares libc with a library of
\* its DT_RUNPATH, which the loader's default path does not have; "plugin" has one of its
\* own, found by its own DT_RUNPATH; libz is in
\* /opt as well, and libq, which libm needs, nowhere; the host has a libc of its own.
MCObjects ==
    Path("bin", "sh")    :> Object(<<>>, "sh")
 @@ Path("bin", "cyc")   :> [Object(<<"libx", "libc", "vdso">>, "cyc") EXCEPT !.rpath = <<"opt">>]
 @@ Path("bin", "app")   :> [Object(<<"libz", "liba", "libc">>, "app") EXCEPT !.runpath = <<"app">>]
 @@ Path("lib", "vdso")  :> Object(<<>>, "vdso")
 @@ Path("lib", "libc.1") :> Object(<<"vdso">>, "libc")
 @@ Path("lib", "libx")  :> Object(<<"liby", "libc">>, "libx")
 @@ Path("lib", "liby")  :> Object(<<"libx", "libz">>, "liby")
 @@ Path("lib", "libz")  :> Object(<<"libc", "/abs">>, "libz")
 @@ Path("opt", "libz")  :> Object(<<"libc">>, "libz")
 @@ Path("app", "liba")  :> [Object(<<"libc", "libz">>, "liba") EXCEPT !.nodeflib = TRUE,
                                                                     !.runpath = <<"shut", "lib">>]
 @@ Path("app", "plugin") :> [Object(<<"liba", "libc", "libb">>, "plugin") EXCEPT !.runpath = <<"app">>]
 @@ Path("app", "libb")  :> [Object(<<"libz">>, "libb") EXCEPT !.rpath = <<"opt">>]
 @@ Path("lib", "libm")  :> Object(<<"libz", "libq">>, "libm")
 @@ Path("HOST", "/abs") :> Object(<<>>, "/abs")
 @@ Path("HOST", "libc") :> Object(<<"libold">>, "libc")

\* libc is a link to its version, as ldconfig makes it.
MCLinks == Path("lib", "libc") :> Path("lib", "libc.1")
MCPrograms == In("bin", {"sh", "cyc", "app"})
MCListed == In("bin", {"app"})
MCLoader == In("lib", {"vdso"})
MCDlopens == {"libz", "liba", "libm", "libold"}
MCDlopenPaths == In("app", {"plugin"})
MCLibraryPath == <<"opt">>
MCDefLib == <<"shut", "lib">>
MCCache == "libold" :> Path("lib", "libold") @@ "libb" :> Path("app", "libb")
=============================================================================
