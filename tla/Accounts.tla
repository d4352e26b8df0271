------------------------------- MODULE Accounts -------------------------------
(***************************************************************************)
(* The accounts of the jail: passwd.c, group.c and shadow.c read the files *)
(* of /etc by themselves, through the wrapper of fopen(), in place of the  *)
(* C library of the host.                                                  *)
(*                                                                         *)
(* A line of passwd or group has a name, an id, its last field (the shell, *)
(* or the members), whether its fields can be told (ok), and whether it    *)
(* ends with a newline (nl).  One process is followed, while others append *)
(* to the files and replace them.                                          *)
(***************************************************************************)
EXTENDS Lists, SequencesExt, FiniteSetsExt, TLC

CONSTANTS
    NULL,
    Roots,          \* the host's root directory, and those of jails
    Initially,      \* [Roots -> [passwd, group -> lines]]
    Replacing,      \* [passwd, group -> lines a file may be replaced with]
    Put,            \* [passwd, group -> lines that may be appended]
    Cut,            \* [last fields -> the field without its last character]
    Users,
    Guesses,        \* rooms for groups a program begins with
    MaxGoing,       \* bound: enumerations, streams and requests at once
    MaxInodes,      \* bound: contents the files have over time
    MaxLines,       \* bound: lines of a file
    LineMin,        \* what getline() allocates first: 120
    PointerSize,    \* sizeof(char *)
    Slack, Align,   \* getgr_r() counts 32 bytes more, and aligns to 16
    Refused,        \* names getspnam_r() refuses: begun by ".", with "/", or empty
    Spare,          \* the room getspnam_r() wants besides the name: 100
    Shadows,        \* contents of /etc/shadow, see below
    Tcbs,           \* contents of /etc/tcb/<name>/shadow
    Buffers         \* sizes of the buffers of the program

Files == {"passwd", "group"}

\* Fields: a struct as it is returned.
EntryFields == [name : STRING, id : Nat, last : Seq(STRING)]

\* A line without a newline loses the last character of its last field.
Lines ==
    {line \in [name : STRING, id : Nat, last : Seq(STRING), ok : BOOLEAN, nl : BOOLEAN, len : Nat] :
        line.nl \/ line.last \in DOMAIN Cut}

\* putpwent() and putgrent() end the line they write.
Written == {line \in Lines : line.nl /\ line.last \in DOMAIN Cut}

\* /etc/shadow: a line is text, of characters that are names and fillers, and parses (ok)
\* or not.  Its newline is its last character, and only the last line may have none.
Ended(line) == Last(line.text) = "\n"
ShadowLines ==
    {line \in [text : Seq(STRING) \ {<<>>}, ok : BOOLEAN] :
        \A k \in 1..(Len(line.text) - 1) : line.text[k] # "\n"}

StreamFields == [inode : Nat, at : Nat, eof : BOOLEAN]
OwnFields    == [file : Files, s : StreamFields]
AskingFields == [user : Users, n : Nat]

ASSUME AccountsAssumption ==
    /\ NULL \notin Users \cup EntryFields \cup StreamFields \cup OwnFields \cup AskingFields
    /\ Initially.lines \in Seq(Seq(Lines))
    /\ Initially.etc \in [Roots -> [Files -> DOMAIN Initially.lines]]
    /\ Replacing \in [Files -> Seq(Lines)] /\ Put \in [Files -> Written]
    /\ Cut \in [DOMAIN Cut -> Seq(STRING)]
    /\ Guesses \subseteq Nat

\* What is skipped to align the members fits in what is counted for it.
ASSUME BufferAssumption ==
    /\ Buffers \subseteq Nat
    /\ LineMin \in Nat \ {0} /\ PointerSize \in Nat \ {0}
    /\ Align \in Nat \ {0} /\ Slack \in Nat /\ Align - 1 <= Slack

\* A name has no newline, and there is room for one besides it.
ASSUME ShadowAssumption ==
    /\ Shadows \subseteq Seq(ShadowLines) /\ Tcbs \subseteq Shadows
    /\ \A content \in Shadows : \A i \in 1..(Len(content) - 1) : Ended(content[i])
    /\ "\n" \notin Users /\ NULL \notin ShadowLines /\ NULL \notin Shadows
    /\ Spare \in Nat \ {0}

VARIABLES
    root,           \* the root directory of the process
    etc,            \* [Roots -> [Files -> inode]]
    lines,          \* content of the inodes
    readable,       \* /etc/group can be opened
    stream,         \* [Files -> the static f, NULL or a stream], see Open
    own,            \* a stream of the program, with its file, or NULL
    seen,           \* [Files -> what the stream has returned since it is open]
    asking,         \* a program that asks for groups until it has room for them
    shadow          \* content of /etc/shadow

vars == <<root, etc, lines, readable, stream, own, seen, asking, shadow>>

-----------------------------------------------------------------------------
(* Reading *)

\* Bound: what goes on at once.
Going == Cardinality({file \in Files : stream[file] # NULL})
         + (IF own = NULL THEN 0 ELSE 1) + (IF asking = NULL THEN 0 ELSE 1)

Open(file) == [inode |-> etc[root][file], at |-> 0, eof |-> FALSE]

\* The last character of the line is overwritten, the newline or another.
Entry(line) ==
    [name |-> line.name, id |-> line.id,
     last |-> IF line.nl THEN line.last ELSE Cut[line.last]]

\* The places of the first n lines that have all their fields, and the entries there.
Places(content, n) == Only([i \in 1..n |-> i], {i \in DOMAIN content : content[i].ok})
Entries(content, n) ==
    LET places == Places(content, n) IN [i \in DOMAIN places |-> Entry(content[places[i]])]

AllEntries(content) == Entries(content, Len(content))

\* Faulty: past the end of the file at its end.
NextLine_past(s) ==
    LET content == lines[s.inode]
        good == {i \in DOMAIN content : i > s.at /\ content[i].ok}
    IN  IF good = {}
        THEN [line |-> FALSE, res |-> NULL,
              s |-> [s EXCEPT !.at = Len(content) + 1, !.eof = TRUE]]
        ELSE [line |-> TRUE, res |-> Entry(content[Min(good)]), s |-> [s EXCEPT !.at = Min(good)]]

\* The next line that has all its fields; the end of a file is met once and for all.
NextLine(s) ==
    LET content == lines[s.inode]
        good == {i \in DOMAIN content : i > s.at /\ content[i].ok}
    IN  IF s.eof \/ good = {}
        THEN [line |-> FALSE, res |-> NULL,
              s |-> [s EXCEPT !.at = IF s.eof THEN @ ELSE Len(content), !.eof = TRUE]]
        ELSE [line |-> TRUE, res |-> Entry(content[Min(good)]),
              s |-> [s EXCEPT !.at = Min(good), !.eof = ~content[Min(good)].nl]]

\* Faulty: a line that is not of seven fields ends the file.
__getpwent_a_stops(s) ==
    LET next == NextLine(s)
    IN  IF next.s.at > s.at + 1
        THEN [line |-> FALSE, res |-> NULL, s |-> [next.s EXCEPT !.eof = TRUE]]
        ELSE next

__getpwent_a(s) == NextLine(s)

\* Without memory for the members the line is lost.
__getgrent_a(s, nomem) ==
    LET next == NextLine(s)
    IN  IF nomem THEN [next EXCEPT !.res = NULL] ELSE next

\* The first entry of those at some places.
First(entries, places) == IF places = {} THEN NULL ELSE entries[Min(places)]

\* The places of an account: by its id when there is no name.
Matches(entries, name, id) ==
    {i \in DOMAIN entries : IF name # NULL THEN entries[i].name = name ELSE entries[i].id = id}

\* Faulty: the lookup is of the stream of the enumeration, from where it is.
__getpw_a_shared(name, uid) ==
    LET f == IF stream["passwd"] = NULL THEN Open("passwd") ELSE stream["passwd"]
        content == lines[f.inode]
        entries == AllEntries(SubSeq(content, f.at + 1, Len(content)))
    IN  First(entries, Matches(entries, name, uid))

\* A name is looked up in the file as it is now, from its beginning.
__getpw_a(name, uid) ==
    LET entries == AllEntries(lines[etc[root]["passwd"]])
    IN  First(entries, Matches(entries, name, uid))

__getgr_a(name, gid) ==
    LET entries == AllEntries(lines[etc[root]["group"]])
    IN  IF readable THEN First(entries, Matches(entries, name, gid)) ELSE NULL

\* The groups a user is a member of, after his own.
GroupsOf(user, gid) ==
    LET group == lines[etc[root]["group"]]
        of    == Only(group, {l \in ToSet(group) : l.ok /\ user \in ToSet(Entry(l).last)})
    IN  <<gid>> \o [i \in DOMAIN of |-> of[i].id]

\* Faulty: the groups that have no room are not counted.
getgrouplist_stored(user, gid, ngroups, nomem) ==
    LET all == GroupsOf(user, gid)
    IN  IF nomem \/ ~readable THEN [ok |-> FALSE, n |-> ngroups, groups |-> <<>>]
        ELSE [ok |-> Len(all) <= ngroups, n |-> Min({ngroups, Len(all)}),
              groups |-> SubSeq(all, 1, Min({ngroups, Len(all)}))]

\* The groups of the user and how many they are; ngroups stays as it is when the file
\* cannot be read.
getgrouplist(user, gid, ngroups, nomem) ==
    LET all == GroupsOf(user, gid)
    IN  IF nomem \/ ~readable THEN [ok |-> FALSE, n |-> ngroups, groups |-> <<>>]
        ELSE [ok |-> Len(all) <= ngroups, n |-> Len(all),
              groups |-> SubSeq(all, 1, Min({ngroups, Len(all)}))]

-----------------------------------------------------------------------------
(* The enumeration: setpwent(), endpwent(), getpwent(), and those of groups *)

Rewind(file) ==
    /\ stream' = [stream EXCEPT ![file] = NULL]
    /\ seen' = [seen EXCEPT ![file] = <<>>]
    /\ UNCHANGED <<root, etc, lines, readable, own, asking, shadow>>

setpwent == Rewind("passwd")
endpwent == setpwent
setgrent == Rewind("group")
endgrent == setgrent

Enumerated(file, next) ==
    /\ stream[file] # NULL \/ Going < MaxGoing
    /\ stream' = [stream EXCEPT ![file] = next.s]
    /\ seen' = [seen EXCEPT ![file] = IF next.line THEN Append(@, next.res) ELSE @]
    /\ UNCHANGED <<root, etc, lines, readable, own, asking, shadow>>

Stream(file) == IF stream[file] = NULL THEN Open(file) ELSE stream[file]

getpwent == Enumerated("passwd", __getpwent_a(Stream("passwd")))
getgrent == /\ stream["group"] # NULL \/ readable
            /\ \E nomem \in BOOLEAN : Enumerated("group", __getgrent_a(Stream("group"), nomem))

-----------------------------------------------------------------------------
(* Lookups: they use the static line and struct of the enumeration, not its stream, and *)
(* change nothing else.                                                                 *)

getpwnam(name) == __getpw_a(name, 0)
getpwuid(uid)  == __getpw_a(NULL, uid)
getgrnam(name) == __getgr_a(name, 0)
getgrgid(gid)  == __getgr_a(NULL, gid)

\* The lines read until the entry, or all of them when there is none.
ReadUntil(content, entry) ==
    {i \in DOMAIN content :
        \A j \in 1..(i - 1) : ~(content[j].ok /\ Entry(content[j]) = entry)}

\* The sizes getline() may leave to the line: it allocates LineMin, and for a line and its
\* NUL that do not fit as much as they take, or twice what it had.
Capacities(content, entry) ==
    LET longest == Max({0} \cup {content[i].len : i \in ReadUntil(content, entry)})
    IN  Max({LineMin, longest + 1})..Max({LineMin, 2 * longest})

\* An answer with the bytes of the buffer it takes.
NoAnswer(rv) == [res |-> NULL, rv |-> rv, end |-> 0]

\* With a buffer of the program, too small or not for all that getline() has allocated
\* (len); the file cannot be opened, or there is no memory for a line or its members
\* (failure).
getpw_r(name, uid, size, len, failure) ==
    LET entry == __getpw_a(name, uid)
    IN  IF failure # "" THEN NoAnswer(failure)
        ELSE IF entry = NULL THEN NoAnswer("")
        ELSE IF size < len THEN NoAnswer("ERANGE")
        ELSE [res |-> entry, rv |-> "", end |-> len]

\* The array of the members of a group and the NULL that ends it.
Pointers(entry) == (Len(entry.last) + 1) * PointerSize

\* The members' array, aligned, is written before the line.
Filled(entry, at, len) ==
    [res |-> entry, rv |-> "", end |-> ((Align - at) % Align) + Pointers(entry) + len]

\* Faulty: the array takes no room.
getgr_r_line(name, gid, at, size, len, failure) ==
    LET entry == __getgr_a(name, gid)
    IN  IF ~readable \/ failure # "" THEN NoAnswer(IF readable THEN failure ELSE "EACCES")
        ELSE IF entry = NULL THEN NoAnswer("")
        ELSE IF size < len + Slack THEN NoAnswer("ERANGE")
        ELSE Filled(entry, at, len)

\* The buffer begins at so many bytes (at) past an aligned address.
getgr_r(name, gid, at, size, len, failure) ==
    LET entry == __getgr_a(name, gid)
    IN  IF ~readable \/ failure # "" THEN NoAnswer(IF readable THEN failure ELSE "EACCES")
        ELSE IF entry = NULL THEN NoAnswer("")
        ELSE IF size < len + Pointers(entry) + Slack THEN NoAnswer("ERANGE")
        ELSE Filled(entry, at, len)

getpwnam_r(name, size, len, failure)     == getpw_r(name, 0, size, len, failure)
getpwuid_r(uid, size, len, failure)      == getpw_r(NULL, uid, size, len, failure)
getgrnam_r(name, at, size, len, failure) == getgr_r(name, 0, at, size, len, failure)
getgrgid_r(gid, at, size, len, failure)  == getgr_r(NULL, gid, at, size, len, failure)

-----------------------------------------------------------------------------
(* The streams of the program *)

fopen(file) ==
    /\ own # NULL \/ Going < MaxGoing
    /\ own' = [file |-> file, s |-> Open(file)]
    /\ file = "group" => readable
    /\ UNCHANGED <<root, etc, lines, readable, stream, seen, asking, shadow>>

\* They have a line and a struct of their own.
Fgetent(file, next) ==
    /\ own' = [own EXCEPT !.s = next.s]
    /\ UNCHANGED <<root, etc, lines, readable, stream, seen, asking, shadow>>

fclose ==
    /\ own # NULL /\ own' = NULL
    /\ UNCHANGED <<root, etc, lines, readable, stream, seen, asking, shadow>>

fgetpwent == own # NULL /\ own.file = "passwd" /\ Fgetent("passwd", __getpwent_a(own.s))
fgetgrent == /\ own # NULL /\ own.file = "group"
             /\ \E nomem \in BOOLEAN : Fgetent("group", __getgrent_a(own.s, nomem))

\* What is appended to a line without a newline makes one line with it.
Appended(content, line) ==
    IF content # <<>> /\ ~content[Len(content)].nl
    THEN [content EXCEPT ![Len(content)] = [@ EXCEPT !.nl = TRUE, !.last = Cut[line.last]]]
    ELSE Append(content, line)

Putent(file, line) ==
    /\ Len(lines[etc[root][file]]) < MaxLines
    /\ lines' = [lines EXCEPT ![etc[root][file]] = Appended(@, line)]
    /\ UNCHANGED <<root, etc, readable, stream, own, seen, asking, shadow>>

putpwent(line) == Putent("passwd", line)
putgrent(line) == Putent("group", line)

-----------------------------------------------------------------------------
(* /etc/shadow, read by a buffer: fgets() cuts a line that does not fit *)

Pieces(line, n) ==
    [k \in 1..((Len(line.text) + n - 1) \div n) |->
        [text |-> SubSeq(line.text, (k - 1) * n + 1, Min({k * n, Len(line.text)})),
         ok |-> line.ok]]

\* Faulty: what follows the beginning of a long line is taken for a line.
Read_unskipped(name, r, piece) ==
    IF r.done THEN r
    ELSE IF Head(piece.text) # name THEN [r EXCEPT !.skip = FALSE]
    ELSE IF ~Ended(piece) THEN [r EXCEPT !.rv = "ERANGE", !.done = TRUE]
    ELSE IF ~piece.ok THEN r
    ELSE [r EXCEPT !.res = piece.text, !.done = TRUE]

\* One fgets(): a line of another name is skipped to its end, one of the name has to be
\* in the buffer.
Read(name, r, piece) ==
    IF r.done THEN r
    ELSE IF r.skip \/ Head(piece.text) # name THEN [r EXCEPT !.skip = ~Ended(piece)]
    ELSE IF ~Ended(piece) THEN [r EXCEPT !.rv = "ERANGE", !.done = TRUE]
    ELSE IF ~piece.ok THEN r
    ELSE [r EXCEPT !.res = piece.text, !.done = TRUE]

\* No piece has more than one line: fgets() stops after a newline.
ReadLine(name, n, r, line) ==
    LET pieces == Pieces(line, n)
        read[k \in 0..Len(pieces)] == IF k = 0 THEN r ELSE Read(name, read[k - 1], pieces[k])
    IN  read[Len(pieces)]

Unread == [skip |-> FALSE, done |-> FALSE, rv |-> "", res |-> NULL]

ReadFile(name, size, content) ==
    LET read[i \in 0..Len(content)] ==
            IF i = 0 THEN Unread ELSE ReadLine(name, size - 1, read[i - 1], content[i])
    IN  read[Len(content)]

\* /etc/shadow is read when the user has no file of his own (tcb).  The call ends with the
\* error (failure) of a path too long, of a file that is not regular (EINVAL), and of an
\* open() that fails otherwise than for want of the file; no /etc/shadow is an empty one.
getspnam_r(name, size, tcb, failure) ==
    IF name \in Refused THEN [Unread EXCEPT !.rv = "EINVAL"]
    ELSE IF size < 1 + Spare THEN [Unread EXCEPT !.rv = "ERANGE"]
    ELSE IF failure # "" THEN [Unread EXCEPT !.rv = failure]
    ELSE ReadFile(name, size, IF tcb = NULL THEN shadow ELSE tcb)

-----------------------------------------------------------------------------
(* What others do, and chroot() *)

NewInode(file) ==
    /\ Len(lines) < MaxInodes
    /\ etc' = [etc EXCEPT ![root][file] = Len(lines) + 1]
    /\ lines' = Append(lines, Replacing[file])
    /\ UNCHANGED <<root, readable, stream, own, seen, asking, shadow>>

Chmod ==
    /\ readable' = ~readable
    /\ UNCHANGED <<root, etc, lines, stream, own, seen, asking, shadow>>

chroot(path) ==
    /\ root' = path
    /\ UNCHANGED <<etc, lines, readable, stream, own, seen, asking, shadow>>

NewShadow(content) ==
    /\ Going = 0 /\ shadow' = content
    /\ UNCHANGED <<root, etc, lines, readable, stream, own, seen, asking>>

\* "*ngroups can be used to resize the buffer passed to a further call".
Ask(user, n) ==
    /\ asking = NULL /\ Going < MaxGoing
    /\ asking' = [user |-> user, n |-> n]
    /\ UNCHANGED <<root, etc, lines, readable, stream, own, seen, shadow>>

AskAgain(nomem) ==
    /\ asking # NULL
    /\ \E call \in {getgrouplist(asking.user, 0, asking.n, nomem)} :
            asking' = IF call.ok THEN NULL ELSE [asking EXCEPT !.n = call.n]
    /\ UNCHANGED <<root, etc, lines, readable, stream, own, seen, shadow>>

Init ==
    /\ root \in Roots
    /\ etc = Initially.etc /\ lines = Initially.lines
    /\ readable = TRUE
    /\ stream = [file \in Files |-> NULL] /\ own = NULL
    /\ seen = [file \in Files |-> <<>>]
    /\ asking = NULL
    /\ shadow = <<>>

Others ==
    \/ setpwent \/ endpwent \/ getpwent \/ setgrent \/ endgrent \/ getgrent
    \/ \E file \in Files : fopen(file) \/ NewInode(file)
    \/ fclose \/ fgetpwent \/ fgetgrent
    \/ putpwent(Put["passwd"]) \/ putgrent(Put["group"])
    \/ Chmod
    \/ \E path \in Roots : chroot(path)
    \/ \E user \in Users, n \in Guesses : Ask(user, n)
    \/ \E nomem \in BOOLEAN : AskAgain(nomem)

\* Bound: /etc/shadow changes while nothing else goes on, which does not look at it.
Next ==
    \/ shadow = <<>> /\ Others
    \/ \E content \in Shadows \cup {<<>>} : NewShadow(content)

\* A program that has not got its groups asks again, and there is memory some time.
Spec == Init /\ [][Next]_vars /\ WF_vars(shadow = <<>> /\ AskAgain(FALSE))

-----------------------------------------------------------------------------
(* Properties *)

Streams == {stream[file] : file \in {f \in Files : stream[f] # NULL}}
           \cup (IF own = NULL THEN {} ELSE {own.s})

AccountsTypeOK ==
    /\ root \in Roots /\ readable \in BOOLEAN
    /\ lines \in Seq(Seq(Lines))
    /\ etc \in [Roots -> [Files -> DOMAIN lines]]
    /\ stream \in [Files -> StreamFields \cup {NULL}] /\ own \in OwnFields \cup {NULL}
    /\ seen \in [Files -> Seq(EntryFields \cup {NULL})]
    /\ asking \in AskingFields \cup {NULL}
    /\ shadow \in Shadows \cup {<<>>}
    /\ \A s \in Streams : s.inode \in DOMAIN lines /\ s.at \in 0..Len(lines[s.inode])

(***************************************************************************)
(* The enumeration returns every entry of the file it has opened, once and *)
(* in the order of the file, whatever is looked up, read from other        *)
(* streams, replaced, appended or left with chroot() meanwhile; an entry   *)
(* it had no memory for is told as an error in its place.                  *)
(***************************************************************************)
EnumeratedOnce ==
    \A file \in Files : stream[file] # NULL =>
        \E read \in {Entries(lines[stream[file].inode], stream[file].at)} :
            /\ Len(seen[file]) = Len(read)
            /\ \A i \in DOMAIN read : seen[file][i] # NULL =>
                  seen[file][i].name = read[i].name /\ seen[file][i].id = read[i].id

(***************************************************************************)
(* The two ways to an account agree: what an enumeration of the current    *)
(* file has returned so far is what a lookup of the name finds.            *)
(***************************************************************************)
LookupsAgree ==
    LET passwd == stream["passwd"]
    IN  passwd # NULL /\ passwd.inode = etc[root]["passwd"] =>
            \A name \in Users :
                LET told  == First(seen["passwd"], Matches(seen["passwd"], name, 0))
                    found == getpwnam(name)
                IN  told # NULL => found # NULL /\ found.id = told.id

Failures == {"", "EACCES", "ENOMEM"}

\* What an entry takes besides its line.
Nothing(e) == 0
Array(e)   == Pointers(e) + Slack

(***************************************************************************)
(* The answer to a program with a buffer of so many bytes: nothing is      *)
(* written past them, the struct has the name, no account is told missing  *)
(* that is in the file, and ERANGE is not answered to a program that has   *)
(* doubled its buffer up to what getline() may have allocated for some     *)
(* line of the file and what an entry takes besides.                       *)
(***************************************************************************)
Answered(answer, name, size, content, Besides(_)) ==
    /\ answer.res # NULL => answer.res.name = name /\ answer.end <= size
    /\ answer.rv = "ERANGE" =>
          \E line \in ToSet(content), e \in ToSet(AllEntries(content)) :
              size < LineMin + Besides(e) \/ size < 2 * line.len + Besides(e)
    /\ answer.res = NULL /\ answer.rv = "" =>
          \A line \in ToSet(content) : line.ok => line.name # name

\* So it is for both files, whatever getline() allocates, wherever the buffer begins, and
\* when a file cannot be opened or memory lacks.
ReentrantHolds ==
    \A name \in Users, size \in Buffers, failure \in Failures :
        LET passwd == lines[etc[root]["passwd"]]
            group  == lines[etc[root]["group"]]
        IN  /\ \A len \in Capacities(passwd, __getpw_a(name, 0)) :
                  Answered(getpwnam_r(name, size, len, failure), name, size, passwd, Nothing)
            /\ \A at \in 0..(Align - 1), len \in Capacities(group, __getgr_a(name, 0)) :
                  Answered(getgrnam_r(name, at, size, len, failure), name, size, group, Array)

(***************************************************************************)
(* Whatever the size of the buffer and however the lines are cut by it,    *)
(* getspnam_r() answers as if it had read whole lines: the first line of   *)
(* the name that parses, or ERANGE for one that is not in the buffer; and  *)
(* where no file is read it does not answer that there is no such line.    *)
(***************************************************************************)
ShadowByLines ==
    \A name \in Users \cup Refused, size \in Buffers, tcb \in Tcbs \cup {NULL},
       failure \in {"", "EACCES", "EINVAL"} :
        LET content == IF tcb = NULL THEN shadow ELSE tcb
            Fits(line) == Len(line.text) < size /\ Ended(line)
            Told(line) == Head(line.text) = name /\ (line.ok \/ ~Fits(line))
            line == First(content, {i \in DOMAIN content : Told(content[i])})
        IN  \A r \in {getspnam_r(name, size, tcb, failure)} :
                IF name \in Refused \/ size < 1 + Spare \/ failure # ""
                THEN r.res = NULL /\ r.rv # ""
                ELSE IF line = NULL THEN r.res = NULL /\ r.rv = ""
                ELSE IF Fits(line) THEN r.res = line.text
                ELSE r.res = NULL /\ r.rv = "ERANGE"

\* A program that asks for its groups, with the room it is told, gets them.
GroupsAreGot == asking # NULL ~> asking = NULL \/ ~readable

=============================================================================
