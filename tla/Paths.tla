------------------------------- MODULE Paths -------------------------------
(***************************************************************************)
(* Pathnames as the C code sees them: strings, cut at every slash.  The    *)
(* string "" is <<"">>, "/" is <<"", "">>, "/a" is <<"", "a">>, "a/b" is   *)
(* <<"a", "b">> and a trailing slash is a last "".  A path is absolute if  *)
(* its first part is empty.                                                *)
(*                                                                         *)
(* The code compares and cuts strings, not components: "/r2" begins with   *)
(* "/r".  NamePrefixes holds the pairs of names <<s, t>> where t is s with *)
(* more letters, and these letters are NameRest[<<s, t>>].                 *)
(***************************************************************************)
EXTENDS Naturals, Sequences

CONSTANTS
    NamePrefixes,   \* pairs of names of which the first begins the second
    NameRest,       \* the letters the second has more
    Ignored         \* the beginnings of the paths the regex "ignore" matches

Empty   == <<"">>
Slash   == <<"", "">>
Dot     == "."
DotDot  == ".."

\* The names files have, and the parts of the paths that lead to them.
FileNames == STRING \ {"", Dot, DotDot}
Parts     == FileNames \cup {"", Dot, DotDot}
Pathnames == Seq(Parts) \ {<<>>, Empty}

IsAbsolute(path) == Len(path) > 1 /\ path[1] = ""

\* The default regex has these two among others, all of absolute paths.
ASSUME PathsAssumption ==
    /\ NamePrefixes \subseteq FileNames \X FileNames
    /\ NameRest \in [NamePrefixes -> Parts \ {""}]
    /\ {<<"", "proc", "">>, <<"", "dev", "">>} \subseteq Ignored
    /\ Ignored \subseteq {path \in Pathnames : IsAbsolute(path)}

\* __strleq(s, t): the string s begins with the string t.
__strleq(s, t) ==
    LET n == Len(t)
    IN  /\ n <= Len(s)
        /\ \A i \in 1..(n - 1) : s[i] = t[i]
        /\ t[n] = "" \/ t[n] = s[n] \/ <<t[n], s[n]>> \in NamePrefixes

\* &s[strlen(t)], of a string s that begins with t.
After(s, t) ==
    LET n == Len(t)
        rest == IF t[n] = "" THEN s[n] ELSE IF t[n] = s[n] THEN "" ELSE NameRest[<<t[n], s[n]>>]
    IN  <<rest>> \o SubSeq(s, n + 1, Len(s))

\* "%s%s" of a directory and an absolute path, or of "" and any path.
Prepend(dir, path) == IF dir = Empty THEN path ELSE dir \o Tail(path)

\* The path a canonical location of the host has, and the location of such a path.
HostPath(loc)  == IF loc = <<>> THEN Slash ELSE <<"">> \o loc
Location(path) == IF path = Slash THEN <<>> ELSE Tail(path)

-----------------------------------------------------------------------------
(***************************************************************************)
(* __path_sanitize() strips the leading "./", the trailing "/." and then   *)
(* the trailing slashes; it keeps "/", "/." and "./.".  Names are of two   *)
(* letters or more ("./a" is too short for the code to strip).             *)
(***************************************************************************)
StripLead(path) ==
    LET Kept(n) == \/ path[n] # Dot
                   \/ n = Len(path)
                   \/ path[n + 1] = ""
                   \/ path[n + 1] = Dot /\ n + 1 = Len(path)
        first == CHOOSE n \in 1..Len(path) : Kept(n) /\ \A m \in 1..(n - 1) : ~Kept(m)
    IN  SubSeq(path, first, Len(path))

StripTrail(path, part) ==
    LET floor == IF IsAbsolute(path) THEN 2 ELSE 1
        last == CHOOSE n \in floor..Len(path) :
                   /\ n = floor \/ path[n] # part
                   /\ \A m \in (n + 1)..Len(path) : path[m] = part
    IN  SubSeq(path, 1, last)

__path_sanitize(path) == StripTrail(StripTrail(StripLead(path), Dot), "")

\* The default regex has the beginnings /proc/, /sys/, /dev/, /var/run/, /run/.
ignore(path) == path # Empty /\ \E prefix \in Ignored : __strleq(path, prefix)

=============================================================================
