--------------------------- MODULE Libraries_proofs ---------------------------
(***************************************************************************)
(* The theorems about Libraries: the dynamic loader of the jail looks for  *)
(* no object by itself, and none of the host's is loaded; the lists of an  *)
(* exec and of ldd are complete.                                           *)
(***************************************************************************)
EXTENDS Libraries, Lists_proofs, FiniteSetTheorems

ContextType == [rpath : Seq(Jail), exec_rpath : Seq(Jail), libpath : Seq(Jail),
                runpath : Seq(Jail), deflib : Seq(Jail)]
FrameType == [path : Files, left : Seq(Names), context : ContextType]
WalkType  == [kind : Kinds, stack : Seq(FrameType), list : Seq(Files)]

-----------------------------------------------------------------------------
(* Files and their search *)

LEMMA RealIs ==
    /\ \A path \in Files : Real(path) \in DOMAIN Objects
    /\ \A path : Opens(path) => path \in Files
    /\ \A path \in DOMAIN Objects : Real(path) = path /\ path \in Files
    /\ \A path \in Files : Real(path) \in Files /\ Real(Real(path)) = Real(path)
BY LibrariesAssumption DEF Real, Files, Opens

LEMMA NeededIs ==
    ASSUME NEW path \in Files
    PROVE  /\ Needed(path) \in Seq(Names) /\ Range(Needed(path)) \subseteq Names
           /\ Needed(Real(path)) = Needed(path)
<1> DEFINE needed == Objects[Real(path)].needed
<1>1. Real(path) \in DOMAIN Objects /\ Real(Real(path)) = Real(path)
  BY RealIs
<1>2. Objects[Real(path)] \in ObjectType
  BY <1>1, LibrariesAssumption
<1>3. needed \in Seq(STRING)
  BY <1>2 DEF ObjectType
<1>4. Range(needed) \subseteq Names
  BY <1>1 DEF Names
<1> HIDE DEF needed
<1>5. needed \in Seq(Names)
  BY <1>3, <1>4 DEF Range
<1> QED BY <1>1, <1>4, <1>5 DEF Needed, needed

(***************************************************************************)
(* An answer of a search: a path that ends with the name, and that is one  *)
(* of the host only if the name is a path.                                 *)
(***************************************************************************)
Fine(answer, name) ==
    answer.errno = "" => /\ answer.path.name = name
                         /\ answer.path.dir = HOST => name \in Slashed

LEMMA PathIs == \A dir, name : Path(dir, name).dir = dir /\ Path(dir, name).name = name
BY DEF Path

LEMMA FailsIs == \A errno : Fails(errno).errno = errno
BY DEF Fails

LEMMA FoundIs == \A path : Found(path).errno = "" /\ Found(path).path = path
BY DEF Found

LEMMA PathAccessIs ==
    ASSUME NEW name, NEW dirs \in Seq(Jail)
    PROVE  LET answer == __path_access(name, dirs)
           IN  answer.errno = "" => /\ answer.path \in Files /\ answer.path.name = name
                                    /\ answer.path.dir # HOST
<1> DEFINE answer == __path_access(name, dirs)
           having == {i \in DOMAIN dirs : dirs[i] \notin Closed /\ Path(dirs[i], name) \in Files}
<1>1. CASE having # {}
  <2> DEFINE m == Min(having)
  <2>1. answer = Found(Path(dirs[m], name))
    BY <1>1 DEF __path_access
  <2>2. having \in SUBSET Nat
    OBVIOUS
  <2>3. m \in having
    <3> HIDE DEF having
    <3> QED BY <1>1, <2>2, MinIs
  <2> HIDE DEF m, answer
  <2>4. dirs[m] \in Jail /\ Path(dirs[m], name) \in Files
    BY <2>3
  <2>5. dirs[m] # HOST
    BY <2>4 DEF Jail
  <2>6. Path(dirs[m], name).name = name /\ Path(dirs[m], name).dir = dirs[m]
    BY DEF Path
  <2>7. answer.path = Path(dirs[m], name)
    BY <2>1 DEF Found
  <2> QED BY <2>4, <2>5, <2>6, <2>7 DEF answer
<1>2. CASE having = {}
  <2>1. answer = Fails("EACCES") \/ answer = Fails("ENOENT")
    BY <1>2 DEF __path_access
  <2>2. answer.errno # ""
    <3>1. "EACCES" # "" /\ "ENOENT" # ""
      OBVIOUS
    <3>2. Fails("EACCES").errno = "EACCES" /\ Fails("ENOENT").errno = "ENOENT"
      BY FailsIs
    <3> HIDE DEF answer
    <3> QED BY <2>1, <3>1, <3>2
  <2> QED BY <2>2
<1> QED BY <1>1, <1>2

LEMMA PathAccessFine ==
    ASSUME NEW name, NEW dirs \in Seq(Jail)
    PROVE  Fine(__path_access(name, dirs), name)
BY PathAccessIs DEF Fine

LEMMA CacheFine == \A name : Fine(__ldso_cache(name), name)
<1> TAKE name
<1>1. CASE name \in DOMAIN Cache
  <2>1. Cache[name].name = name /\ Cache[name].dir # HOST
    BY <1>1, LibrariesAssumption DEF Jail
  <2>2. __ldso_cache(name) = Found(Cache[name])
    BY <1>1 DEF __ldso_cache
  <2>3. __ldso_cache(name).path = Cache[name]
    BY <2>2, FoundIs
  <2> QED BY <2>1, <2>3 DEF Fine
<1>2. CASE name \notin DOMAIN Cache
  <2>1. __ldso_cache(name).errno # ""
    BY <1>2 DEF __ldso_cache, Fails
  <2> QED BY <2>1 DEF Fine
<1> QED BY <1>1, <1>2

LEMMA ThenFine ==
    ASSUME NEW name, NEW answer, NEW next, Fine(answer, name), Fine(next, name)
    PROVE  Fine(Then(answer, next), name)
BY DEF Then

LEMMA AccessFine ==
    ASSUME NEW name, NEW c \in ContextType
    PROVE  Fine(__ldso_access(name, c), name)
<1> DEFINE In(dirs) == __path_access(name, dirs)
           one   == Then(__ldso_cache(name), In(c.deflib))
           two   == Then(In(c.runpath), one)
           three == Then(In(c.libpath), two)
           four  == Then(In(c.exec_rpath), three)
           five  == Then(In(c.rpath), four)
<1>1. \A dirs \in Seq(Jail) : Fine(In(dirs), name)
  BY PathAccessFine
<1>2. /\ c.rpath \in Seq(Jail) /\ c.exec_rpath \in Seq(Jail) /\ c.libpath \in Seq(Jail)
      /\ c.runpath \in Seq(Jail) /\ c.deflib \in Seq(Jail)
  BY DEF ContextType
<1>3. CASE name \in Slashed
  <2>1. __ldso_access(name, c) = Found(Path(HOST, name))
    BY <1>3 DEF __ldso_access
  <2>2. __ldso_access(name, c).path = Path(HOST, name) /\ Path(HOST, name).name = name
    BY <2>1, FoundIs, PathIs
  <2> QED BY <1>3, <2>2 DEF Fine
<1>4. CASE name \notin Slashed
  <2>1. __ldso_access(name, c) = five \/ __ldso_access(name, c) = three
    BY <1>4 DEF __ldso_access
  <2> HIDE DEF In
  <2>2. Fine(one, name)
    BY <1>1, <1>2, CacheFine, ThenFine
  <2> HIDE DEF one
  <2>3. Fine(two, name)
    BY <1>1, <1>2, <2>2, ThenFine
  <2> HIDE DEF two
  <2>4. Fine(three, name)
    BY <1>1, <1>2, <2>3, ThenFine
  <2> HIDE DEF three
  <2>5. Fine(four, name)
    BY <1>1, <1>2, <2>4, ThenFine
  <2> HIDE DEF four
  <2>6. Fine(five, name)
    BY <1>1, <1>2, <2>5, ThenFine
  <2> HIDE DEF five
  <2> QED BY <2>1, <2>4, <2>6
<1> QED BY <1>3, <1>4

LEMMA ContextIs ==
    ASSUME NEW path \in Files
    PROVE  __felf_so_context(path) \in ContextType
<1> DEFINE object == Objects[Real(path)]
<1>1. object \in ObjectType
  BY RealIs, LibrariesAssumption
<1> HIDE DEF object
<1>2. object.rpath \in Seq(Jail) /\ object.runpath \in Seq(Jail)
  BY <1>1 DEF ObjectType
<1>3. DefLib \in Seq(Jail) /\ LibraryPath \in Seq(Jail) /\ <<>> \in Seq(Jail)
  BY LibrariesAssumption
<1>4. __felf_so_context(path) =
          [rpath      |-> IF object.runpath = <<>> THEN object.rpath ELSE <<>>,
           exec_rpath |-> <<>>,
           libpath    |-> LibraryPath,
           runpath    |-> object.runpath,
           deflib     |-> IF object.nodeflib THEN <<>> ELSE DefLib]
  BY DEF __felf_so_context, object
<1> QED BY <1>2, <1>3, <1>4 DEF ContextType

-----------------------------------------------------------------------------
(* Walks *)

WalkTyped(w) == w \in WalkType /\ Len(w.stack) \in Nat \ {0}

LEMMA WalkIs ==
    ASSUME NEW w, WalkTyped(w)
    PROVE  /\ w.kind \in Kinds /\ w.stack \in Seq(FrameType) /\ w.list \in Seq(Files)
           /\ Len(w.stack) \in Nat \ {0} /\ 1 \in DOMAIN w.stack /\ DOMAIN w.stack = 1..Len(w.stack)
           /\ Top(w) = w.stack[1] /\ Top(w) \in FrameType
           /\ w = [kind |-> w.kind, stack |-> w.stack, list |-> w.list]
<1>1. /\ w.kind \in Kinds /\ w.stack \in Seq(FrameType) /\ w.list \in Seq(Files)
      /\ w = [kind |-> w.kind, stack |-> w.stack, list |-> w.list]
  BY DEF WalkTyped, WalkType
<1> DEFINE stack == w.stack
<1>2. stack \in Seq(FrameType) /\ Len(stack) \in Nat \ {0} /\ Top(w) = Head(stack)
  BY <1>1 DEF WalkTyped, Top
<1> HIDE DEF stack
<1>3. /\ 1 \in DOMAIN stack /\ DOMAIN stack = 1..Len(stack)
      /\ Head(stack) = stack[1] /\ stack[1] \in FrameType
  BY <1>2
<1> QED BY <1>1, <1>2, <1>3 DEF stack

LEMMA FrameIs ==
    ASSUME NEW frame \in FrameType
    PROVE  /\ frame.path \in Files /\ frame.left \in Seq(Names) /\ frame.context \in ContextType
           /\ frame = [path |-> frame.path, left |-> frame.left, context |-> frame.context]
BY DEF FrameType

LEMMA FrameTyped ==
    ASSUME NEW path \in Files, NEW left \in Seq(Names), NEW context \in ContextType
    PROVE  /\ Frame(path, left, context) \in FrameType
           /\ Frame(path, left, context).path = path /\ Frame(path, left, context).left = left
BY DEF Frame, FrameType

(***************************************************************************)
(* What is left of a frame is the name that is wanted and the names after. *)
(***************************************************************************)
LEMMA LeftIs ==
    ASSUME NEW left \in Seq(Names), left # <<>>
    PROVE  /\ Head(left) \in Names /\ Tail(left) \in Seq(Names)
           /\ Range(left) = {Head(left)} \cup Range(Tail(left))
<1>1. /\ Len(left) \in Nat \ {0} /\ Head(left) = left[1] /\ Len(Tail(left)) = Len(left) - 1
      /\ Head(left) \in Names /\ Tail(left) \in Seq(Names)
      /\ \A i \in 1..Len(Tail(left)) : Tail(left)[i] = left[i + 1]
  OBVIOUS
<1>2. DOMAIN left = 1..Len(left) /\ DOMAIN Tail(left) = 1..(Len(left) - 1)
  BY <1>1
<1>3. ASSUME NEW i \in 1..Len(left) PROVE left[i] \in {Head(left)} \cup Range(Tail(left))
  <2>1. CASE i = 1
    BY <1>1, <2>1
  <2>2. CASE i # 1
    <3>1. i - 1 \in DOMAIN Tail(left) /\ i - 1 \in 1..Len(Tail(left)) /\ (i - 1) + 1 = i
      BY <1>1, <1>2, <2>2
    <3>2. Tail(left)[i - 1] = left[i]
      BY <1>1, <3>1
    <3> QED BY <3>1, <3>2 DEF Range
  <2> QED BY <2>1, <2>2
<1>4. ASSUME NEW i \in DOMAIN Tail(left) PROVE Tail(left)[i] \in Range(left)
  <2>1. i \in 1..Len(Tail(left)) /\ i + 1 \in DOMAIN left
    BY <1>1, <1>2
  <2> QED BY <1>1, <2>1 DEF Range
<1>5. Head(left) \in Range(left)
  BY <1>1, <1>2 DEF Range
<1> QED BY <1>1, <1>2, <1>3, <1>4, <1>5 DEF Range

LEMMA SkipIs ==
    ASSUME NEW w, WalkTyped(w), Top(w).left # <<>>
    PROVE  /\ WalkTyped(Skip(w)) /\ Skip(w).kind = w.kind /\ Skip(w).list = w.list
           /\ Len(Skip(w).stack) = Len(w.stack)
           /\ Skip(w).stack[1].path = w.stack[1].path
           /\ Range(w.stack[1].left) = {Wanted(w)} \cup Range(Skip(w).stack[1].left)
           /\ \A i \in 2..Len(w.stack) : Skip(w).stack[i] = w.stack[i]
<1> DEFINE top == w.stack[1]
           less == [top EXCEPT !.left = Tail(top.left)]
           stack == [w.stack EXCEPT ![1] = less]
<1>1. /\ w.kind \in Kinds /\ w.stack \in Seq(FrameType) /\ w.list \in Seq(Files)
      /\ Len(w.stack) \in Nat \ {0} /\ Top(w) = top /\ top \in FrameType
      /\ w = [kind |-> w.kind, stack |-> w.stack, list |-> w.list]
  BY WalkIs
<1>2. Skip(w) = [w EXCEPT !.stack = stack]
  BY <1>1 DEF Skip
<1> HIDE DEF top, stack, less
<1>3. top.left \in Seq(Names) /\ top.left # <<>> /\ Wanted(w) = Head(top.left)
  BY <1>1, FrameIs DEF Wanted
<1>4. Tail(top.left) \in Seq(Names) /\ Range(top.left) = {Wanted(w)} \cup Range(Tail(top.left))
  BY <1>3, LeftIs
<1>5. less \in FrameType /\ less.path = top.path /\ less.left = Tail(top.left)
  BY <1>1, <1>4 DEF less, FrameType
<1>6. /\ stack \in Seq(FrameType) /\ Len(stack) = Len(w.stack) /\ stack[1] = less
      /\ \A i \in 2..Len(w.stack) : stack[i] = w.stack[i]
  BY <1>1, <1>5 DEF stack
<1>7. Skip(w) = [kind |-> w.kind, stack |-> stack, list |-> w.list]
  BY <1>1, <1>2
<1>8. /\ Skip(w) \in WalkType /\ Skip(w).kind = w.kind /\ Skip(w).stack = stack
      /\ Skip(w).list = w.list
  BY <1>1, <1>6, <1>7 DEF WalkType
<1> QED BY <1>1, <1>4, <1>5, <1>6, <1>8 DEF WalkTyped, top

LEMMA EnterIs ==
    ASSUME NEW w, WalkTyped(w), Top(w).left # <<>>, NEW frame \in FrameType
    PROVE  /\ WalkTyped(Enter(w, frame)) /\ Enter(w, frame).kind = w.kind
           /\ Enter(w, frame).list = w.list
           /\ Len(Enter(w, frame).stack) = Len(w.stack) + 1
           /\ Enter(w, frame).stack[1] = frame
           /\ \A i \in 1..Len(w.stack) : Enter(w, frame).stack[i + 1] = Skip(w).stack[i]
<1> DEFINE v == Skip(w)
           stack == <<frame>> \o v.stack
<1>1. WalkTyped(v) /\ v.kind = w.kind /\ v.list = w.list /\ Len(v.stack) = Len(w.stack)
  BY SkipIs
<1>2. Enter(w, frame) = [v EXCEPT !.stack = stack]
  BY DEF Enter
<1> HIDE DEF v
<1>3. /\ v.kind \in Kinds /\ v.stack \in Seq(FrameType) /\ v.list \in Seq(Files)
      /\ Len(v.stack) \in Nat \ {0} /\ v = [kind |-> v.kind, stack |-> v.stack, list |-> v.list]
  BY <1>1, WalkIs
<1>4. /\ stack \in Seq(FrameType) /\ Len(stack) = Len(v.stack) + 1 /\ stack[1] = frame
      /\ \A i \in 1..Len(v.stack) : stack[i + 1] = v.stack[i]
  BY <1>3
<1> HIDE DEF stack
<1>5. Enter(w, frame) = [kind |-> v.kind, stack |-> stack, list |-> v.list]
  BY <1>2, <1>3
<1>6. /\ Enter(w, frame) \in WalkType /\ Enter(w, frame).kind = v.kind
      /\ Enter(w, frame).stack = stack /\ Enter(w, frame).list = v.list
  BY <1>3, <1>4, <1>5 DEF WalkType
<1>7. Len(stack) \in Nat \ {0}
  BY <1>3, <1>4
<1> QED BY <1>1, <1>4, <1>6, <1>7 DEF WalkTyped, v

LEMMA LeaveIs ==
    ASSUME NEW w, WalkTyped(w), Len(w.stack) # 1
    PROVE  /\ WalkTyped(Leave(w)) /\ Leave(w).kind = w.kind /\ Leave(w).list = w.list
           /\ Len(Leave(w).stack) = Len(w.stack) - 1
           /\ \A i \in 1..(Len(w.stack) - 1) : Leave(w).stack[i] = w.stack[i + 1]
<1> DEFINE stack == Tail(w.stack)
<1>1. /\ w.kind \in Kinds /\ w.stack \in Seq(FrameType) /\ w.list \in Seq(Files)
      /\ Len(w.stack) \in Nat \ {0} /\ w = [kind |-> w.kind, stack |-> w.stack, list |-> w.list]
  BY WalkIs
<1>2. Leave(w) = [w EXCEPT !.stack = stack]
  BY DEF Leave
<1>3. /\ stack \in Seq(FrameType) /\ Len(stack) = Len(w.stack) - 1 /\ Len(stack) \in Nat \ {0}
      /\ \A i \in 1..(Len(w.stack) - 1) : stack[i] = w.stack[i + 1]
  BY <1>1
<1> HIDE DEF stack
<1>4. Leave(w) = [kind |-> w.kind, stack |-> stack, list |-> w.list]
  BY <1>1, <1>2
<1>5. /\ Leave(w) \in WalkType /\ Leave(w).kind = w.kind
      /\ Leave(w).stack = stack /\ Leave(w).list = w.list
  BY <1>1, <1>3, <1>4 DEF WalkType
<1> QED BY <1>3, <1>5 DEF WalkTyped

LEMMA ListIs ==
    ASSUME NEW w, WalkTyped(w), NEW path \in Files
    PROVE  /\ WalkTyped(List(w, path)) /\ List(w, path).kind = w.kind
           /\ List(w, path).stack = w.stack
           /\ Range(List(w, path).list) = Range(w.list) \cup {path}
<1> DEFINE list == Append(w.list, path)
<1>1. /\ w.kind \in Kinds /\ w.stack \in Seq(FrameType) /\ w.list \in Seq(Files)
      /\ Len(w.stack) \in Nat \ {0} /\ w = [kind |-> w.kind, stack |-> w.stack, list |-> w.list]
  BY WalkIs
<1>2. List(w, path) = [w EXCEPT !.list = list]
  BY DEF List
<1>3. list \in Seq(Files) /\ Range(list) = Range(w.list) \cup {path}
  <2>1. /\ list \in Seq(Files) /\ Len(list) = Len(w.list) + 1 /\ list[Len(w.list) + 1] = path
        /\ \A i \in 1..Len(w.list) : list[i] = w.list[i]
    BY <1>1
  <2>2. DOMAIN list = 1..(Len(w.list) + 1) /\ DOMAIN w.list = 1..Len(w.list) /\ Len(w.list) \in Nat
    BY <1>1, <2>1
  <2> HIDE DEF list
  <2>3. Range(list) \subseteq Range(w.list) \cup {path}
    BY <2>1, <2>2 DEF Range
  <2>4. Range(w.list) \subseteq Range(list)
    BY <2>1, <2>2 DEF Range
  <2>5. path \in Range(list)
    BY <2>1, <2>2 DEF Range
  <2> QED BY <2>1, <2>3, <2>4, <2>5
<1> HIDE DEF list
<1>4. List(w, path) = [kind |-> w.kind, stack |-> w.stack, list |-> list]
  BY <1>1, <1>2
<1>5. /\ List(w, path) \in WalkType /\ List(w, path).kind = w.kind
      /\ List(w, path).stack = w.stack /\ List(w, path).list = list
  BY <1>1, <1>3, <1>4 DEF WalkType
<1> QED BY <1>1, <1>3, <1>5 DEF WalkTyped

-----------------------------------------------------------------------------
(* The inductive invariant *)

\* What an object needs is left to go through, or in some paths, or out of reach.
Has(path, left, paths) == Range(Needed(path)) \subseteq left \cup Answers(paths) \cup Slashed

\* The name an object waits for: that of the frame above it.
Above(w, i) == IF i = 1 THEN {} ELSE {w.stack[i - 1].path.name}

\* The objects of a dlopen() need what is left, what they wait for, and what is opened.
Coming(w, paths) ==
    \A i \in DOMAIN w.stack :
        /\ Reachable(w.stack[i].path)
        /\ Has(w.stack[i].path, Range(w.stack[i].left) \cup Above(w, i), paths)

\* An object of a list, or the program, needs what is in the list, but for what is left
\* of it if it is being gone through.
Provided(w, path) ==
    \/ Has(path, {}, Range(w.list))
    \/ \E i \in DOMAIN w.stack :
          w.stack[i].path = path /\ Has(path, Range(w.stack[i].left), Range(w.list))

Listing(w) ==
    /\ \A path \in Range(w.list) : Reachable(path)
    /\ \A path \in Range(w.list) \cup {w.stack[Len(w.stack)].path} : Provided(w, path)

WalkHolds(w, paths) ==
    /\ WalkTyped(w)
    /\ w.kind = "dlopen" => Coming(w, paths)
    /\ w.kind = "preload" => Listing(w)

Loaded(paths) == \A path \in paths : Reachable(path) /\ Has(path, {}, paths)

IInv ==
    /\ exe \in Files /\ strays \subseteq Slashed
    /\ Loaded(opened)
    /\ walk \in [Threads -> WalkType \cup {NULL}]
    /\ \A t \in Threads : walk[t] # NULL => WalkHolds(walk[t], opened)

LEMMA AnswersAre ==
    ASSUME NEW paths, NEW path \in paths
    PROVE  path.name \in Answers(paths) /\ Objects[Real(path)].soname \in Answers(paths)
BY DEF Answers

LEMMA AnswersGrow ==
    ASSUME NEW paths, NEW more, paths \subseteq more
    PROVE  Answers(paths) \subseteq Answers(more)
BY DEF Answers

LEMMA HasMore ==
    ASSUME NEW path, NEW left, NEW paths, NEW other, NEW more, paths \subseteq more,
           Has(path, left, paths), left \subseteq other \cup Answers(more) \cup Slashed
    PROVE  Has(path, other, more)
<1>1. Answers(paths) \subseteq Answers(more)
  BY AnswersGrow
<1> QED BY <1>1 DEF Has

LEMMA EnterComing ==
    ASSUME NEW w, WalkTyped(w), NEW paths, Coming(w, paths), Top(w).left # <<>>,
           NEW frame \in FrameType, Reachable(frame.path), frame.path.name = Wanted(w),
           Has(frame.path, Range(frame.left), paths)
    PROVE  Coming(Enter(w, frame), paths)
<1> DEFINE v == Enter(w, frame)
           u == Skip(w)
           n == Len(w.stack)
<1>1. /\ WalkTyped(v) /\ Len(v.stack) = n + 1 /\ v.stack[1] = frame
      /\ \A i \in 1..n : v.stack[i + 1] = u.stack[i]
  BY EnterIs
<1>2. /\ u.stack[1].path = w.stack[1].path
      /\ Range(w.stack[1].left) = {Wanted(w)} \cup Range(u.stack[1].left)
      /\ \A i \in 2..n : u.stack[i] = w.stack[i]
  BY SkipIs
<1>3. n \in Nat \ {0} /\ DOMAIN w.stack = 1..n /\ DOMAIN v.stack = 1..(n + 1)
  BY <1>1, WalkIs
<1> HIDE DEF v, u, n
<1>4. \A i \in 1..n : v.stack[i + 1].path = w.stack[i].path
  <2> TAKE i \in 1..n
  <2>1. v.stack[i + 1] = u.stack[i]
    BY <1>1
  <2>2. i = 1 \/ i \in 2..n
    BY <1>3
  <2> QED BY <1>2, <2>1, <2>2
<1>5. ASSUME NEW i \in DOMAIN v.stack
      PROVE  Reachable(v.stack[i].path) /\ Has(v.stack[i].path, Range(v.stack[i].left) \cup Above(v, i), paths)
  <2>1. CASE i = 1
    <3>1. Range(frame.left) \subseteq Range(frame.left) \cup Above(v, i)
      OBVIOUS
    <3>2. Has(frame.path, Range(frame.left) \cup Above(v, i), paths)
      BY HasMore
    <3> QED BY <1>1, <2>1, <3>2
  <2>2. CASE i = 2
    <3>1. 1 \in DOMAIN w.stack /\ 1 \in 1..n
      BY <1>3
    <3>2. /\ Reachable(w.stack[1].path)
          /\ Has(w.stack[1].path, Range(w.stack[1].left) \cup Above(w, 1), paths)
      BY <3>1 DEF Coming
    <3>3. v.stack[2] = u.stack[1]
      BY <1>1, <3>1
    <3>4. Above(w, 1) = {} /\ Above(v, 2) = {Wanted(w)}
      BY <1>1 DEF Above
    <3>5. Range(w.stack[1].left) \cup Above(w, 1) = Range(u.stack[1].left) \cup Above(v, 2)
      BY <1>2, <3>4
    <3> QED BY <1>2, <2>2, <3>2, <3>3, <3>5
  <2>3. CASE i # 1 /\ i # 2
    <3>1. /\ i - 1 \in DOMAIN w.stack /\ i - 1 \in 2..n /\ (i - 1) + 1 = i /\ i - 2 \in 1..n
          /\ (i - 2) + 1 = i - 1 /\ (i - 1) - 1 = i - 2 /\ i - 1 # 1 /\ i - 1 \in 1..n
      BY <1>3, <2>3
    <3>2. v.stack[i] = u.stack[i - 1]
      BY <1>1, <3>1
    <3>3. u.stack[i - 1] = w.stack[i - 1]
      BY <1>2, <3>1
    <3>4. v.stack[i - 1].path = w.stack[i - 2].path
      BY <1>4, <3>1
    <3>5. Above(v, i) = {v.stack[i - 1].path.name} /\ Above(w, i - 1) = {w.stack[(i - 1) - 1].path.name}
      BY <2>3, <3>1 DEF Above
    <3>6. Above(v, i) = Above(w, i - 1)
      BY <3>1, <3>4, <3>5
    <3> QED BY <3>1, <3>2, <3>3, <3>6 DEF Coming
  <2> QED BY <2>1, <2>2, <2>3
<1>6. Coming(v, paths)
  BY <1>5 DEF Coming
<1> QED BY <1>6 DEF v

LEMMA ComingGrows ==
    ASSUME NEW w, NEW paths, NEW more, paths \subseteq more, Coming(w, paths)
    PROVE  Coming(w, more)
<1>1. ASSUME NEW i \in DOMAIN w.stack
      PROVE  Has(w.stack[i].path, Range(w.stack[i].left) \cup Above(w, i), more)
  <2>1. Has(w.stack[i].path, Range(w.stack[i].left) \cup Above(w, i), paths)
    BY DEF Coming
  <2> QED BY <2>1, HasMore
<1> QED BY <1>1 DEF Coming

LEMMA LeaveComing ==
    ASSUME NEW w, WalkTyped(w), NEW paths, NEW more, paths \subseteq more, Coming(w, paths),
           Len(w.stack) # 1,
           w.stack[1].path.name \in Names => w.stack[1].path.name \in Answers(more)
    PROVE  Coming(Leave(w), more)
<1> DEFINE v == Leave(w)
           n == Len(w.stack)
<1>1. /\ WalkTyped(v) /\ Len(v.stack) = n - 1
      /\ \A i \in 1..(n - 1) : v.stack[i] = w.stack[i + 1]
  BY LeaveIs
<1>2. n \in Nat \ {0} /\ DOMAIN w.stack = 1..n /\ DOMAIN v.stack = 1..(n - 1)
      /\ w.stack \in Seq(FrameType)
  BY <1>1, WalkIs
<1>3. Coming(w, more)
  BY ComingGrows
<1> HIDE DEF v, n
<1>4. ASSUME NEW i \in DOMAIN v.stack
      PROVE  /\ Reachable(v.stack[i].path)
             /\ Has(v.stack[i].path, Range(v.stack[i].left) \cup Above(v, i), more)
  <2>1. i + 1 \in DOMAIN w.stack /\ i \in 1..(n - 1) /\ (i + 1) - 1 = i /\ i + 1 # 1
    BY <1>2
  <2>2. v.stack[i] = w.stack[i + 1]
    BY <1>1, <2>1
  <2>3. /\ Reachable(w.stack[i + 1].path)
        /\ Has(w.stack[i + 1].path, Range(w.stack[i + 1].left) \cup Above(w, i + 1), more)
    BY <1>3, <2>1 DEF Coming
  <2>4. Above(w, i + 1) = {w.stack[i].path.name}
    BY <2>1 DEF Above
  <2>5. CASE i = 1
    <3>1. w.stack[2].path \in Files
      <4>1. w.stack[i + 1] \in FrameType
        BY <1>2, <2>1
      <4> QED BY <2>5, <4>1, FrameIs
    <3>2. Range(Needed(w.stack[2].path)) \subseteq Names
      BY <3>1, NeededIs
    <3>3. Above(w, i + 1) \cap Names \subseteq Answers(more)
      BY <2>4, <2>5
    <3>4. Has(w.stack[2].path, Range(w.stack[2].left), more)
      BY <2>3, <2>5, <3>2, <3>3 DEF Has
    <3>5. Has(w.stack[2].path, Range(w.stack[2].left) \cup Above(v, i), more)
      BY <3>4 DEF Has
    <3> QED BY <2>2, <2>3, <2>5, <3>5
  <2>6. CASE i # 1
    <3>1. i - 1 \in 1..(n - 1) /\ (i - 1) + 1 = i
      BY <1>2, <2>6
    <3>2. v.stack[i - 1] = w.stack[i]
      BY <1>1, <3>1
    <3>3. Above(v, i) = Above(w, i + 1)
      BY <2>4, <2>6, <3>2 DEF Above
    <3> QED BY <2>2, <2>3, <3>3
  <2> QED BY <2>5, <2>6
<1>5. Coming(v, more)
  BY <1>4 DEF Coming
<1> QED BY <1>5 DEF v

LEMMA ProvidedMore ==
    ASSUME NEW w, NEW v, NEW path, Provided(w, path), Range(w.list) \subseteq Range(v.list),
           \A i \in DOMAIN w.stack : \E j \in DOMAIN v.stack :
              /\ v.stack[j].path = w.stack[i].path
              /\ Range(w.stack[i].left) \subseteq
                    Range(v.stack[j].left) \cup Answers(Range(v.list)) \cup Slashed
    PROVE  Provided(v, path)
<1>1. CASE Has(path, {}, Range(w.list))
  <2>1. Has(path, {}, Range(v.list))
    BY <1>1, HasMore
  <2> QED BY <2>1 DEF Provided
<1>2. CASE \E i \in DOMAIN w.stack :
              w.stack[i].path = path /\ Has(path, Range(w.stack[i].left), Range(w.list))
  <2>1. PICK i \in DOMAIN w.stack :
              w.stack[i].path = path /\ Has(path, Range(w.stack[i].left), Range(w.list))
    BY <1>2
  <2>2. PICK j \in DOMAIN v.stack :
              /\ v.stack[j].path = w.stack[i].path
              /\ Range(w.stack[i].left) \subseteq
                    Range(v.stack[j].left) \cup Answers(Range(v.list)) \cup Slashed
    OBVIOUS
  <2>3. Has(path, Range(v.stack[j].left), Range(v.list))
    BY <2>1, <2>2, HasMore
  <2> QED BY <2>1, <2>2, <2>3 DEF Provided
<1> QED BY <1>1, <1>2 DEF Provided

(***************************************************************************)
(* A name that is answered by the list, or out of reach, may be skipped.   *)
(***************************************************************************)
LEMMA SkipListing ==
    ASSUME NEW w, WalkTyped(w), Listing(w), Top(w).left # <<>>,
           Wanted(w) \in Answers(Range(w.list)) \cup Slashed
    PROVE  Listing(Skip(w))
<1> DEFINE v == Skip(w)
           n == Len(w.stack)
<1>1. /\ WalkTyped(v) /\ v.list = w.list /\ Len(v.stack) = n
      /\ v.stack[1].path = w.stack[1].path
      /\ Range(w.stack[1].left) = {Wanted(w)} \cup Range(v.stack[1].left)
      /\ \A i \in 2..n : v.stack[i] = w.stack[i]
  BY SkipIs
<1>2. n \in Nat \ {0} /\ DOMAIN w.stack = 1..n /\ DOMAIN v.stack = 1..n
  BY <1>1, WalkIs
<1> HIDE DEF v, n
<1>3. \A i \in 1..n : v.stack[i].path = w.stack[i].path
                      /\ Range(w.stack[i].left) \subseteq
                            Range(v.stack[i].left) \cup Answers(Range(v.list)) \cup Slashed
  <2> TAKE i \in 1..n
  <2>1. i = 1 \/ i \in 2..n
    BY <1>2
  <2> QED BY <1>1, <2>1
<1>4. \A path : Provided(w, path) => Provided(v, path)
  BY <1>1, <1>2, <1>3, ProvidedMore
<1>5. v.stack[n].path = w.stack[n].path /\ n = Len(v.stack)
  BY <1>1, <1>2, <1>3
<1> QED BY <1>1, <1>4, <1>5 DEF Listing, v, n

LEMMA InContextIs ==
    ASSUME NEW w, WalkTyped(w), NEW path \in Files
    PROVE  /\ InContext(w, path) \in FrameType
           /\ InContext(w, path).path = path /\ InContext(w, path).left = Needed(path)
<1>1. Top(w).context \in ContextType
  BY WalkIs, FrameIs
<1>2. Needed(path) \in Seq(Names)
  BY NeededIs
<1> QED BY <1>1, <1>2, FrameTyped DEF InContext

(***************************************************************************)
(* An object that is listed answers its name, and is gone through.         *)
(***************************************************************************)
LEMMA PreloadListing ==
    ASSUME NEW w, WalkTyped(w), Listing(w), Top(w).left # <<>>,
           NEW path \in Files, Reachable(path), path.name = Wanted(w)
    PROVE  WalkTyped(Preload(w, path)) /\ Preload(w, path).kind = w.kind /\ Listing(Preload(w, path))
<1> DEFINE frame == InContext(w, path)
           u == Skip(w)
           v == Enter(w, frame)
           x == List(v, path)
           n == Len(w.stack)
<1>1. frame \in FrameType /\ frame.path = path /\ frame.left = Needed(path)
  BY InContextIs
<1> HIDE DEF frame
<1>2. /\ WalkTyped(v) /\ v.kind = w.kind /\ v.list = w.list /\ Len(v.stack) = n + 1
      /\ v.stack[1] = frame /\ \A i \in 1..n : v.stack[i + 1] = u.stack[i]
  BY <1>1, EnterIs
<1>3. /\ u.stack[1].path = w.stack[1].path
      /\ Range(w.stack[1].left) = {Wanted(w)} \cup Range(u.stack[1].left)
      /\ \A i \in 2..n : u.stack[i] = w.stack[i]
  BY SkipIs
<1> HIDE DEF u, v
<1>4. /\ WalkTyped(x) /\ x.kind = w.kind /\ x.stack = v.stack
      /\ Range(x.list) = Range(w.list) \cup {path}
  <2>1. /\ WalkTyped(List(v, path)) /\ List(v, path).kind = v.kind
        /\ List(v, path).stack = v.stack
        /\ Range(List(v, path).list) = Range(v.list) \cup {path}
    BY <1>2, ListIs
  <2> HIDE DEF x
  <2>2. x = List(v, path)
    BY DEF x
  <2> QED BY <1>2, <2>1, <2>2
<1>5. n \in Nat \ {0} /\ DOMAIN w.stack = 1..n /\ DOMAIN x.stack = 1..(n + 1)
  BY <1>2, <1>4, WalkIs
<1> HIDE DEF x, n
<1>6. path.name \in Answers(Range(x.list))
  BY <1>4, AnswersAre
<1>7. ASSUME NEW i \in 1..n
      PROVE  /\ i + 1 \in DOMAIN x.stack /\ x.stack[i + 1].path = w.stack[i].path
             /\ Range(w.stack[i].left) \subseteq
                   Range(x.stack[i + 1].left) \cup Answers(Range(x.list)) \cup Slashed
  <2>1. x.stack[i + 1] = u.stack[i] /\ i + 1 \in DOMAIN x.stack
    BY <1>2, <1>4, <1>5
  <2>2. i = 1 \/ i \in 2..n
    BY <1>5
  <2> QED BY <1>3, <1>6, <2>1, <2>2
<1>8. \A other : Provided(w, other) => Provided(x, other)
  <2>1. \A i \in DOMAIN w.stack : \E j \in DOMAIN x.stack :
              /\ x.stack[j].path = w.stack[i].path
              /\ Range(w.stack[i].left) \subseteq
                    Range(x.stack[j].left) \cup Answers(Range(x.list)) \cup Slashed
    BY <1>5, <1>7
  <2>2. Range(w.list) \subseteq Range(x.list)
    BY <1>4
  <2> QED BY <2>1, <2>2, ProvidedMore
<1>9. Provided(x, path)
  <2>1. 1 \in DOMAIN x.stack /\ x.stack[1] = frame
    BY <1>2, <1>4, <1>5
  <2>2. Has(path, Range(frame.left), Range(x.list))
    BY <1>1 DEF Has
  <2> QED BY <1>1, <2>1, <2>2 DEF Provided
<1>10. x.stack[Len(x.stack)].path = w.stack[n].path
  <2>1. n \in 1..n /\ Len(x.stack) = n + 1
    BY <1>2, <1>4, <1>5
  <2> QED BY <1>7, <2>1
<1>11. Listing(x)
  <2>1. \A other \in Range(x.list) : Reachable(other)
    BY <1>4 DEF Listing
  <2>2. \A other \in Range(w.list) \cup {w.stack[n].path} : Provided(w, other)
    BY DEF Listing, n
  <2> QED BY <1>4, <1>8, <1>9, <1>10, <2>1, <2>2 DEF Listing
<1> QED BY <1>4, <1>11 DEF x, v, frame, Preload

(***************************************************************************)
(* An object of which nothing is left has what it needs.                   *)
(***************************************************************************)
LEMMA LeaveListing ==
    ASSUME NEW w, WalkTyped(w), Listing(w), Len(w.stack) # 1, Top(w).left = <<>>
    PROVE  Listing(Leave(w))
<1> DEFINE v == Leave(w)
           n == Len(w.stack)
<1>1. /\ WalkTyped(v) /\ v.list = w.list /\ Len(v.stack) = n - 1
      /\ \A i \in 1..(n - 1) : v.stack[i] = w.stack[i + 1]
  BY LeaveIs
<1>2. /\ n \in Nat \ {0} /\ n # 1 /\ DOMAIN w.stack = 1..n /\ DOMAIN v.stack = 1..(n - 1)
      /\ Top(w) = w.stack[1]
  BY <1>1, WalkIs
<1> HIDE DEF v, n
<1>3. ASSUME NEW path, Provided(w, path) PROVE Provided(v, path)
  <2>1. CASE Has(path, {}, Range(w.list))
    BY <1>1, <2>1 DEF Provided
  <2>2. CASE \E i \in DOMAIN w.stack :
                w.stack[i].path = path /\ Has(path, Range(w.stack[i].left), Range(w.list))
    <3>1. PICK i \in DOMAIN w.stack :
                w.stack[i].path = path /\ Has(path, Range(w.stack[i].left), Range(w.list))
      BY <2>2
    <3>2. CASE i = 1
      <4>1. w.stack[i].left = <<>> /\ Range(<<>>) = {}
        BY <1>2, <3>2 DEF Range
      <4>2. Has(path, {}, Range(v.list))
        BY <1>1, <3>1, <4>1
      <4> QED BY <4>2 DEF Provided
    <3>3. CASE i # 1
      <4>1. i - 1 \in DOMAIN v.stack /\ i - 1 \in 1..(n - 1) /\ (i - 1) + 1 = i
        BY <1>2, <3>3
      <4>2. v.stack[i - 1] = w.stack[i]
        BY <1>1, <4>1
      <4> QED BY <1>1, <3>1, <4>1, <4>2 DEF Provided
    <3> QED BY <3>2, <3>3
  <2> QED BY <1>3, <2>1, <2>2 DEF Provided
<1>4. v.stack[n - 1].path = w.stack[n].path /\ n - 1 = Len(v.stack)
  <2>1. n - 1 \in 1..(n - 1) /\ (n - 1) + 1 = n
    BY <1>2
  <2> QED BY <1>1, <2>1
<1> QED BY <1>1, <1>3, <1>4 DEF Listing, v, n

-----------------------------------------------------------------------------
(* The steps *)

LEMMA HoldsMore ==
    ASSUME NEW w, NEW paths, NEW more, paths \subseteq more, WalkHolds(w, paths)
    PROVE  WalkHolds(w, more)
BY ComingGrows DEF WalkHolds

(***************************************************************************)
(* A step of a thread leaves the walks of the others as they are, though   *)
(* more objects may be open.                                               *)
(***************************************************************************)
LEMMA BecomesHolds ==
    ASSUME IInv, NEW t \in Threads, NEW w, NEW more, Becomes(t, w), opened \subseteq more,
           w = NULL \/ WalkHolds(w, more)
    PROVE  /\ walk' \in [Threads -> WalkType \cup {NULL}]
           /\ \A u \in Threads : walk'[u] # NULL => WalkHolds(walk'[u], more)
<1>1. walk \in [Threads -> WalkType \cup {NULL}] /\ walk' = [walk EXCEPT ![t] = w]
  BY DEF IInv, Becomes
<1>2. w \in WalkType \cup {NULL}
  BY DEF WalkHolds, WalkTyped
<1>3. ASSUME NEW u \in Threads, walk'[u] # NULL PROVE WalkHolds(walk'[u], more)
  <2>1. CASE u = t
    BY <1>1, <1>3, <2>1
  <2>2. CASE u # t
    <3>1. walk'[u] = walk[u]
      BY <1>1, <2>2
    <3>2. WalkHolds(walk[u], opened)
      BY <1>3, <3>1 DEF IInv
    <3> QED BY <3>1, <3>2, HoldsMore
  <2> QED BY <2>1, <2>2
<1> QED BY <1>1, <1>2, <1>3

LEMMA WalksHolds ==
    ASSUME IInv, NEW t \in Threads, NEW w, Walks(t, w), w = NULL \/ WalkHolds(w, opened)
    PROVE  IInv'
<1>1. Becomes(t, w) /\ exe' = exe /\ opened' = opened /\ strays' = strays
  BY DEF Walks
<1>2. /\ walk' \in [Threads -> WalkType \cup {NULL}]
      /\ \A u \in Threads : walk'[u] # NULL => WalkHolds(walk'[u], opened)
  BY <1>1, BecomesHolds
<1> QED BY <1>1, <1>2 DEF IInv

LEMMA AbandonHolds ==
    ASSUME IInv, NEW t \in Threads, Abandon(t)
    PROVE  IInv'
BY WalksHolds DEF Abandon

\* A walk that is not a dlopen() or an exec only has its type.
LEMMA LddHolds ==
    ASSUME NEW w, WalkTyped(w), w.kind = "ldd", NEW paths
    PROVE  WalkHolds(w, paths)
BY DEF WalkHolds

LEMMA PreloadHolds ==
    ASSUME NEW w, WalkTyped(w), w.kind = "preload", Listing(w), NEW paths
    PROVE  WalkHolds(w, paths)
BY DEF WalkHolds

LEMMA DlopenHolds ==
    ASSUME NEW w, WalkTyped(w), w.kind = "dlopen", NEW paths, Coming(w, paths)
    PROVE  WalkHolds(w, paths)
BY DEF WalkHolds

LEMMA PreloadStep ==
    ASSUME IInv, NEW t \in Threads, __ldso_preload_needed(t)
    PROVE  IInv'
<1> DEFINE w == walk[t]
           at == __path_access(Wanted(w), Top(w).context.deflib)
<1>1. WalkHolds(w, opened) /\ w.kind = "preload" /\ Top(w).left # <<>>
  BY DEF __ldso_preload_needed, Goes, IInv
<1>2. \/ Wanted(w) \in Slashed /\ Walks(t, Skip(w))
      \/ Abandon(t)
      \/ Wanted(w) \in NotLibs /\ Walks(t, Skip(w))
      \/ at.errno = "" /\ at.path \in Range(w.list) /\ Walks(t, Skip(w))
      \/ at.errno = "" /\ Walks(t, Preload(w, at.path))
  BY DEF __ldso_preload_needed, AlreadyListed
<1> HIDE DEF w
<1>3. WalkTyped(w) /\ Listing(w)
  BY <1>1 DEF WalkHolds
<1>4. Top(w).context.deflib \in Seq(Jail)
  <2>1. Top(w).context \in ContextType
    BY <1>3, WalkIs, FrameIs
  <2> QED BY <2>1 DEF ContextType
<1>5. at.errno = "" => at.path \in Files /\ at.path.name = Wanted(w) /\ Reachable(at.path)
  BY <1>4, PathAccessIs DEF Reachable
<1> HIDE DEF at
<1>6. ASSUME Wanted(w) \in Answers(Range(w.list)) \cup Slashed, Walks(t, Skip(w)) PROVE IInv'
  <2>1. WalkTyped(Skip(w)) /\ Skip(w).kind = "preload"
    BY <1>1, <1>3, SkipIs
  <2>2. Listing(Skip(w))
    BY <1>1, <1>3, <1>6, SkipListing
  <2>3. WalkHolds(Skip(w), opened)
    BY <2>1, <2>2, PreloadHolds
  <2> QED BY <1>6, <2>3, WalksHolds
<1>7. CASE Wanted(w) \in Slashed /\ Walks(t, Skip(w))
  BY <1>6, <1>7
<1>8. CASE Abandon(t)
  BY <1>8, AbandonHolds
<1>9. CASE Wanted(w) \in NotLibs /\ Walks(t, Skip(w))
  <2>1. Wanted(w) \in Answers(Range(w.list))
    BY <1>9 DEF Answers
  <2> QED BY <1>6, <1>9, <2>1
<1>10. CASE at.errno = "" /\ at.path \in Range(w.list) /\ Walks(t, Skip(w))
  <2>1. Wanted(w) \in Answers(Range(w.list))
    BY <1>5, <1>10, AnswersAre
  <2> QED BY <1>6, <1>10, <2>1
<1>11. CASE at.errno = "" /\ Walks(t, Preload(w, at.path))
  <2>1. /\ WalkTyped(Preload(w, at.path)) /\ Preload(w, at.path).kind = "preload"
        /\ Listing(Preload(w, at.path))
    BY <1>1, <1>3, <1>5, <1>11, PreloadListing
  <2>2. WalkHolds(Preload(w, at.path), opened)
    BY <2>1, PreloadHolds
  <2> QED BY <1>11, <2>2, WalksHolds
<1> QED BY <1>2, <1>7, <1>8, <1>9, <1>10, <1>11

LEMMA LddStep ==
    ASSUME IInv, NEW t \in Threads, __ld_trace_loader_objects_needed(t)
    PROVE  IInv'
<1> DEFINE w == walk[t]
           at == __ldso_access(Wanted(w), Top(w).context)
<1>1. WalkHolds(w, opened) /\ w.kind = "ldd" /\ Top(w).left # <<>>
  BY DEF __ld_trace_loader_objects_needed, Goes, IInv
<1>2. \/ Walks(t, Skip(w))
      \/ Abandon(t)
      \/ Opens(at.path) /\ Walks(t, Enter(w, InContext(w, at.path)))
  BY DEF __ld_trace_loader_objects_needed, AlreadyListed
<1> HIDE DEF w, at
<1>3. WalkTyped(w)
  BY <1>1 DEF WalkHolds
<1>4. CASE Walks(t, Skip(w))
  <2>1. WalkTyped(Skip(w)) /\ Skip(w).kind = "ldd"
    BY <1>1, <1>3, SkipIs
  <2>2. WalkHolds(Skip(w), opened)
    BY <2>1, LddHolds
  <2> QED BY <1>4, <2>2, WalksHolds
<1>5. CASE Abandon(t)
  BY <1>5, AbandonHolds
<1>6. CASE Opens(at.path) /\ Walks(t, Enter(w, InContext(w, at.path)))
  <2> DEFINE v == Enter(w, InContext(w, at.path))
  <2>1. at.path \in Files
    BY <1>6, RealIs
  <2>2. InContext(w, at.path) \in FrameType
    BY <1>3, <2>1, InContextIs
  <2>3. WalkTyped(v) /\ v.kind = "ldd"
    BY <1>1, <1>3, <2>2, EnterIs
  <2> HIDE DEF v
  <2>4. WalkHolds(v, opened)
    BY <2>3, LddHolds
  <2>5. Walks(t, v)
    BY <1>6 DEF v
  <2> QED BY <2>4, <2>5, WalksHolds
<1> QED BY <1>2, <1>4, <1>5, <1>6

LEMMA BackStep ==
    ASSUME IInv, NEW t \in Threads, Back(t)
    PROVE  IInv'
<1> DEFINE w == walk[t]
<1>1. /\ WalkHolds(w, opened) /\ w.kind \in {"preload", "ldd"} /\ Top(w).left = <<>>
      /\ Len(w.stack) > 1
      /\ Walks(t, IF w.kind = "ldd" THEN List(Leave(w), Top(w).path) ELSE Leave(w))
  BY DEF Back, GoesBack, IInv
<1> HIDE DEF w
<1>2. WalkTyped(w)
  BY <1>1 DEF WalkHolds
<1> DEFINE n == Len(w.stack)
<1>3. n # 1
  <2>1. n \in Nat /\ n > 1
    BY <1>1, <1>2 DEF WalkTyped
  <2> HIDE DEF n
  <2> QED BY <2>1
<1>4. WalkTyped(Leave(w)) /\ Leave(w).kind = w.kind
  BY <1>2, <1>3, LeaveIs
<1>5. CASE w.kind = "ldd"
  <2> DEFINE v == List(Leave(w), Top(w).path)
  <2>1. Top(w).path \in Files
    BY <1>2, WalkIs, FrameIs
  <2>2. WalkTyped(v) /\ v.kind = "ldd"
    BY <1>4, <1>5, <2>1, ListIs
  <2> HIDE DEF v
  <2>3. WalkHolds(v, opened)
    BY <2>2, LddHolds
  <2>4. Walks(t, v)
    BY <1>1, <1>5 DEF v
  <2> QED BY <2>3, <2>4, WalksHolds
<1>6. CASE w.kind = "preload"
  <2>1. Listing(Leave(w))
    BY <1>1, <1>2, <1>3, <1>6, LeaveListing DEF WalkHolds
  <2>2. WalkHolds(Leave(w), opened)
    BY <1>4, <1>6, <2>1, PreloadHolds
  <2>3. Walks(t, Leave(w))
    BY <1>1, <1>6
  <2> QED BY <2>2, <2>3, WalksHolds
<1> QED BY <1>1, <1>5, <1>6

(***************************************************************************)
(* What dlopen() goes through is what its object needs, unless that is     *)
(* open: then all it needs is.                                             *)
(***************************************************************************)
LEMMA OpenFrame ==
    ASSUME Loaded(opened), NEW path \in Files
    PROVE  /\ __fld_open_needed(path) \in FrameType /\ __fld_open_needed(path).path = path
           /\ Has(path, Range(__fld_open_needed(path).left), opened)
<1> DEFINE left == IF Real(path) \in opened THEN <<>> ELSE Needed(path)
<1>1. left \in Seq(Names) /\ __felf_so_context(path) \in ContextType
  BY NeededIs, ContextIs
<1>2. Has(path, Range(left), opened)
  <2>1. CASE Real(path) \in opened
    <3>1. Has(Real(path), {}, opened)
      BY <2>1 DEF Loaded
    <3>2. Needed(Real(path)) = Needed(path)
      BY NeededIs
    <3> QED BY <3>1, <3>2 DEF Has
  <2>2. CASE Real(path) \notin opened
    BY <2>2 DEF Has
  <2> QED BY <2>1, <2>2
<1>3. __fld_open_needed(path) = Frame(path, left, __felf_so_context(path))
  BY DEF __fld_open_needed
<1> HIDE DEF left
<1> QED BY <1>1, <1>2, <1>3, FrameTyped

LEMMA OpenNeededStep ==
    ASSUME IInv, NEW t \in Threads, __ld_open_needed(t)
    PROVE  IInv'
<1> DEFINE w == walk[t]
           at == __ldso_access(Wanted(w), Top(w).context)
           frame == __fld_open_needed(at.path)
           v == Enter(w, frame)
<1>1. WalkHolds(w, opened) /\ w.kind = "dlopen" /\ Top(w).left # <<>>
  BY DEF __ld_open_needed, Goes, IInv
<1>2. Abandon(t) \/ (at.errno = "" /\ Opens(at.path) /\ Walks(t, v))
  BY DEF __ld_open_needed, NotFound
<1> HIDE DEF w
<1>3. WalkTyped(w) /\ Coming(w, opened)
  BY <1>1 DEF WalkHolds
<1>4. Top(w).context \in ContextType
  BY <1>3, WalkIs, FrameIs
<1>5. Fine(at, Wanted(w))
  BY <1>4, AccessFine
<1> HIDE DEF at
<1>6. CASE Abandon(t)
  BY <1>6, AbandonHolds
<1>7. CASE at.errno = "" /\ Opens(at.path) /\ Walks(t, v)
  <2>1. at.path \in Files /\ Reachable(at.path) /\ at.path.name = Wanted(w)
    BY <1>5, <1>7, RealIs DEF Fine, Reachable
  <2>2. Loaded(opened)
    BY DEF IInv
  <2>3. frame \in FrameType /\ frame.path = at.path /\ Has(at.path, Range(frame.left), opened)
    BY <2>1, <2>2, OpenFrame
  <2> HIDE DEF frame
  <2>4. WalkTyped(v) /\ v.kind = "dlopen"
    BY <1>1, <1>3, <2>3, EnterIs
  <2>5. Coming(v, opened)
    BY <1>1, <1>3, <2>1, <2>3, EnterComing
  <2> HIDE DEF v
  <2>6. WalkHolds(v, opened)
    BY <2>4, <2>5, DlopenHolds
  <2> QED BY <1>7, <2>6, WalksHolds
<1> QED BY <1>2, <1>6, <1>7

(***************************************************************************)
(* What is open stays so, each object with all that it needs: libdl looks  *)
(* for nothing when an object is loaded of which nothing is left, and the  *)
(* object answers the name that was wanted, if under another name than the *)
(* one its file is open by.                                                *)
(***************************************************************************)
LEMMA LoadObjectIs ==
    ASSUME IInv, NEW path \in Files, Reachable(path), Has(path, {}, opened), LoadObject(path)
    PROVE  /\ opened \subseteq opened' /\ Loaded(opened') /\ strays' \subseteq Slashed
           /\ path.name \in Names => path.name \in Answers(opened')
<1>1. CASE \E o \in opened : Real(o) = Real(path)
  <2>1. PICK o \in opened : Real(o) = Real(path)
    BY <1>1
  <2>2. opened' = opened /\ strays' = strays
    BY <1>1 DEF LoadObject
  <2>3. o \in Files
    BY DEF IInv, Loaded, Reachable
  <2>4. path.name \in Names => path.name \in {o.name, Objects[Real(o)].soname}
    BY <2>1, <2>3, LibrariesAssumption
  <2>5. o.name \in Answers(opened) /\ Objects[Real(o)].soname \in Answers(opened)
    BY AnswersAre
  <2>6. Loaded(opened) /\ strays \subseteq Slashed
    BY DEF IInv
  <2> QED BY <2>2, <2>4, <2>5, <2>6
<1>2. CASE ~\E o \in opened : Real(o) = Real(path)
  <2>1. opened' = opened \cup {path} /\ strays' = strays \cup Unanswered(path, opened')
    BY <1>2 DEF LoadObject
  <2>2. \A other \in opened \cup {path} : Reachable(other) /\ Has(other, {}, opened)
    BY DEF IInv, Loaded
  <2>3. \A other \in opened \cup {path} : Has(other, {}, opened')
    BY <2>1, <2>2, HasMore
  <2>4. Loaded(opened')
    BY <2>1, <2>2, <2>3 DEF Loaded
  <2>5. Unanswered(path, opened') \subseteq Slashed
    BY <2>3 DEF Has, Unanswered
  <2>6. path \in opened'
    BY <2>1
  <2>7. path.name \in Answers(opened')
    BY <2>6, AnswersAre
  <2> QED BY <2>1, <2>4, <2>5, <2>7 DEF IInv
<1> QED BY <1>1, <1>2

LEMMA NextDlopenStep ==
    ASSUME IInv, NEW t \in Threads, next_dlopen(t)
    PROVE  IInv'
<1> DEFINE w == walk[t]
           path == Top(w).path
           v == IF Len(w.stack) = 1 THEN NULL ELSE Leave(w)
<1>1. WalkHolds(w, opened) /\ w.kind = "dlopen" /\ Top(w).left = <<>>
  BY DEF next_dlopen, GoesBack, IInv
<1>2. Abandon(t) \/ (LoadObject(path) /\ Becomes(t, v) /\ exe' = exe)
  BY DEF next_dlopen
<1> HIDE DEF w
<1>3. WalkTyped(w) /\ Coming(w, opened)
  BY <1>1 DEF WalkHolds
<1>4. CASE Abandon(t)
  BY <1>4, AbandonHolds
<1>5. CASE LoadObject(path) /\ Becomes(t, v) /\ exe' = exe
  <2>1. Top(w) = w.stack[1] /\ 1 \in DOMAIN w.stack /\ path \in Files
    BY <1>3, WalkIs, FrameIs
  <2>2. Reachable(path) /\ Has(path, {}, opened)
    <3>1. Range(w.stack[1].left) = {} /\ Above(w, 1) = {}
      BY <1>1, <2>1 DEF Above, Range
    <3>2. /\ Reachable(w.stack[1].path)
          /\ Has(w.stack[1].path, Range(w.stack[1].left) \cup Above(w, 1), opened)
      BY <1>3, <2>1 DEF Coming
    <3> QED BY <2>1, <3>1, <3>2
  <2> HIDE DEF path
  <2>3. /\ opened \subseteq opened' /\ Loaded(opened') /\ strays' \subseteq Slashed
        /\ path.name \in Names => path.name \in Answers(opened')
    BY <1>5, <2>1, <2>2, LoadObjectIs
  <2>4. v = NULL \/ WalkHolds(v, opened')
    <3>1. CASE Len(w.stack) = 1
      BY <3>1
    <3>2. CASE Len(w.stack) # 1
      <4>1. WalkTyped(Leave(w)) /\ Leave(w).kind = "dlopen"
        BY <1>1, <1>3, <3>2, LeaveIs
      <4>2. w.stack[1].path = path
        BY <2>1 DEF path
      <4>3. Coming(Leave(w), opened')
        BY <1>3, <2>3, <3>2, <4>2, LeaveComing
      <4>4. WalkHolds(Leave(w), opened')
        BY <4>1, <4>3, DlopenHolds
      <4> QED BY <3>2, <4>4
    <3> QED BY <3>1, <3>2
  <2> HIDE DEF v
  <2>5. /\ walk' \in [Threads -> WalkType \cup {NULL}]
        /\ \A u \in Threads : walk'[u] # NULL => WalkHolds(walk'[u], opened')
    BY <1>5, <2>3, <2>4, BecomesHolds
  <2> QED BY <1>5, <2>3, <2>5 DEF IInv
<1> QED BY <1>2, <1>4, <1>5

-----------------------------------------------------------------------------
(* The calls *)

LEMMA WalkBegins ==
    ASSUME NEW kind \in Kinds, NEW path \in Files, NEW left \in Seq(Names),
           NEW context \in ContextType
    PROVE  LET w == Walk(kind, path, left, context)
           IN  /\ WalkTyped(w) /\ w.kind = kind /\ DOMAIN w.stack = {1} /\ Len(w.stack) = 1
               /\ w.stack[1].path = path /\ w.stack[1].left = left /\ Range(w.list) = {}
<1> DEFINE frame == Frame(path, left, context)
           w == Walk(kind, path, left, context)
<1>1. frame \in FrameType /\ frame.path = path /\ frame.left = left
  BY FrameTyped
<1>2. w = [kind |-> kind, stack |-> <<frame>>, list |-> <<>>]
  BY DEF Walk
<1> HIDE DEF frame, w
<1>3. w.kind = kind /\ w.stack = <<frame>> /\ w.list = <<>>
  BY <1>2
<1>4. <<frame>> \in Seq(FrameType) /\ Len(<<frame>>) = 1 /\ <<frame>>[1] = frame
      /\ DOMAIN <<frame>> = {1}
  BY <1>1
<1>5. <<>> \in Seq(Files) /\ Range(<<>>) = {}
  BY DEF Range
<1>6. w \in WalkType
  BY <1>1, <1>2, <1>4, <1>5 DEF WalkType
<1> QED BY <1>1, <1>3, <1>4, <1>5, <1>6 DEF WalkTyped, w

LEMMA DlopenBegins ==
    ASSUME IInv, NEW t \in Threads, NEW path, Reachable(path), Dlopen(t, path)
    PROVE  IInv'
<1> DEFINE frame == __fld_open_needed(path)
           w == Walk("dlopen", path, frame.left, frame.context)
<1>1. path \in Files /\ Loaded(opened) /\ Walks(t, w)
  BY DEF Reachable, IInv, Dlopen, Begin
<1>2. frame \in FrameType /\ Has(path, Range(frame.left), opened)
  BY <1>1, OpenFrame
<1> HIDE DEF frame
<1>3. frame.left \in Seq(Names) /\ frame.context \in ContextType /\ "dlopen" \in Kinds
  BY <1>2, FrameIs DEF Kinds
<1>4. /\ WalkTyped(w) /\ w.kind = "dlopen" /\ DOMAIN w.stack = {1}
      /\ w.stack[1].path = path /\ w.stack[1].left = frame.left
  BY <1>1, <1>3, WalkBegins
<1> HIDE DEF w
<1>5. Has(path, Range(frame.left) \cup Above(w, 1), opened)
  BY <1>2 DEF Has
<1>6. Coming(w, opened)
  BY <1>4, <1>5 DEF Coming
<1>7. WalkHolds(w, opened)
  BY <1>4, <1>6, DlopenHolds
<1> QED BY <1>1, <1>7, WalksHolds

\* The executable's DT_RPATH counts for names that no object asks for.
LEMMA ExecutableRpath ==
    ASSUME NEW c \in ContextType
    PROVE  /\ [c EXCEPT !.rpath = <<>>, !.exec_rpath = c.rpath] \in ContextType
           /\ [c EXCEPT !.rpath = <<>>, !.exec_rpath = c.rpath, !.runpath = <<>>]
                  \in ContextType
<1>1. c.rpath \in Seq(Jail) /\ <<>> \in Seq(Jail)
  BY DEF ContextType
<1>2. \A rpath, exec_rpath \in Seq(Jail) :
        [c EXCEPT !.rpath = rpath, !.exec_rpath = exec_rpath] \in ContextType
  BY DEF ContextType
<1>3. \A rpath, exec_rpath, runpath \in Seq(Jail) :
        [c EXCEPT !.rpath = rpath, !.exec_rpath = exec_rpath, !.runpath = runpath]
            \in ContextType
  BY DEF ContextType
<1> QED BY <1>1, <1>2, <1>3

LEMMA DlopenStep ==
    ASSUME IInv, NEW t \in Threads, dlopen(t)
    PROVE  IInv'
<1>1. CASE \E name \in Dlopens :
              __dl_access(name).errno = "" /\ Dlopen(t, __dl_access(name).path)
  <2>1. PICK name \in Dlopens :
              __dl_access(name).errno = "" /\ Dlopen(t, __dl_access(name).path)
    BY <1>1
  <2> DEFINE c == __felf_so_context(exe)
             context == [c EXCEPT !.rpath = <<>>, !.exec_rpath = c.rpath, !.runpath = <<>>]
  <2>2. c \in ContextType
    BY ContextIs DEF IInv
  <2>3. __dl_access(name) = __ldso_access(name, context)
    BY DEF __dl_access
  <2> HIDE DEF c
  <2>4. context \in ContextType
    BY <2>2, ExecutableRpath
  <2> HIDE DEF context
  <2>5. Fine(__dl_access(name), name)
    BY <2>3, <2>4, AccessFine
  <2>6. __dl_access(name).path \in Files
    BY <2>1, RealIs DEF Dlopen
  <2>7. Reachable(__dl_access(name).path)
    BY <2>1, <2>5, <2>6 DEF Fine, Reachable
  <2> QED BY <2>1, <2>7, DlopenBegins
<1>2. CASE \E path \in DlopenPaths : Dlopen(t, Real(path))
  BY <1>2, LibrariesAssumption, DlopenBegins
<1> QED BY <1>1, <1>2 DEF dlopen

LEMMA ProgramIs == \A program \in Programs : program \in Files
BY RealIs, LibrariesAssumption

LEMMA ExecveStep ==
    ASSUME IInv, NEW t \in Threads, NEW program \in Programs, execve(t, program)
    PROVE  IInv'
<1> DEFINE own == __felf_so_context(program)
           c == [own EXCEPT !.deflib = __ld_lib_path(program)]
           w == Walk("preload", program, Needed(program), c)
<1>1. program \in Files
  BY ProgramIs
<1>2. own \in ContextType /\ Needed(program) \in Seq(Names)
  BY <1>1, ContextIs, NeededIs
<1>3. Walks(t, w)
  BY DEF execve, Begin
<1>4. __ld_lib_path(program) = ((own.deflib \o own.runpath) \o own.libpath) \o own.rpath
  BY DEF __ld_lib_path
<1> HIDE DEF own
<1>5. __ld_lib_path(program) \in Seq(Jail)
  <2>1. /\ own.deflib \in Seq(Jail) /\ own.runpath \in Seq(Jail)
        /\ own.libpath \in Seq(Jail) /\ own.rpath \in Seq(Jail)
    BY <1>2 DEF ContextType
  <2> QED BY <1>4, <2>1
<1>6. c \in ContextType /\ "preload" \in Kinds
  BY <1>2, <1>5 DEF ContextType, Kinds
<1> HIDE DEF c
<1>7. /\ WalkTyped(w) /\ w.kind = "preload" /\ DOMAIN w.stack = {1} /\ Len(w.stack) = 1
      /\ w.stack[1].path = program /\ w.stack[1].left = Needed(program) /\ Range(w.list) = {}
  BY <1>1, <1>2, <1>6, WalkBegins
<1> HIDE DEF w
<1>8. Provided(w, program)
  BY <1>7 DEF Provided, Has
<1>9. Listing(w)
  BY <1>7, <1>8 DEF Listing
<1>10. WalkHolds(w, opened)
  BY <1>7, <1>9, PreloadHolds
<1> QED BY <1>3, <1>10, WalksHolds

LEMMA LddBegins ==
    ASSUME IInv, NEW t \in Threads, NEW program \in Programs, ldd(t, program)
    PROVE  IInv'
<1> DEFINE c == __felf_so_context(program)
           context == [c EXCEPT !.rpath = <<>>, !.exec_rpath = c.rpath]
           w == Walk("ldd", program, Needed(program), context)
<1>1. program \in Files
  BY ProgramIs
<1>2. c \in ContextType /\ Needed(program) \in Seq(Names)
  BY <1>1, ContextIs, NeededIs
<1>3. Walks(t, w)
  BY DEF ldd, Begin
<1> HIDE DEF c
<1>4. context \in ContextType /\ "ldd" \in Kinds
  BY <1>2, ExecutableRpath DEF Kinds
<1> HIDE DEF context
<1>5. WalkTyped(w) /\ w.kind = "ldd"
  BY <1>1, <1>2, <1>4, WalkBegins
<1> HIDE DEF w
<1>6. WalkHolds(w, opened)
  BY <1>5, LddHolds
<1> QED BY <1>3, <1>6, WalksHolds

(***************************************************************************)
(* The loader is given a list that has what the program and each object in *)
(* it need: nothing is left of the only frame, the program's own.          *)
(***************************************************************************)
LEMMA ExecutedStep ==
    ASSUME IInv, NEW t \in Threads, Executed(t)
    PROVE  IInv'
<1> DEFINE w == walk[t]
           program == Top(w).path
           list == Loader \cup Range(w.list)
<1>1. /\ WalkHolds(w, opened) /\ w.kind = "preload" /\ Top(w).left = <<>>
      /\ Len(w.stack) = 1
  BY DEF Executed, Ended, GoesBack, IInv
<1>2. \/ Abandon(t)
      \/ /\ exe' = program /\ opened' = list
         /\ strays' = UNION {Unanswered(path, list) : path \in list \cup {program}}
         /\ walk' = [u \in Threads |-> NULL]
  BY DEF Executed
<1> HIDE DEF w
<1>3. WalkTyped(w) /\ Listing(w)
  BY <1>1 DEF WalkHolds
<1>4. Top(w) = w.stack[1] /\ DOMAIN w.stack = {1} /\ program \in Files
  BY <1>1, <1>3, WalkIs, FrameIs
<1>5. program = w.stack[1].path
  BY <1>4
<1> HIDE DEF program
<1>6. Range(w.stack[1].left) = {}
  BY <1>1, <1>4 DEF Range
<1>7. ASSUME NEW path \in Range(w.list) \cup {program} PROVE Has(path, {}, Range(w.list))
  <2>1. Provided(w, path)
    BY <1>1, <1>3, <1>5 DEF Listing
  <2> QED BY <1>4, <1>6, <2>1 DEF Provided
<1>8. ASSUME NEW path \in Loader PROVE Has(path, {}, Loader) /\ Reachable(path)
  BY LoaderAssumption, LibrariesAssumption DEF Has, Unanswered
<1>9. \A path \in list \cup {program} : Has(path, {}, list)
  BY <1>7, <1>8, HasMore
<1>10. \A path \in list : Reachable(path)
  BY <1>3, <1>8 DEF Listing
<1> HIDE DEF list
<1>11. Loaded(list)
  BY <1>9, <1>10 DEF Loaded
<1>12. \A path \in list \cup {program} : Unanswered(path, list) \subseteq Slashed
  BY <1>9 DEF Has, Unanswered
<1>13. CASE Abandon(t)
  BY <1>13, AbandonHolds
<1>14. CASE /\ exe' = program /\ opened' = list
            /\ strays' = UNION {Unanswered(path, list) : path \in list \cup {program}}
            /\ walk' = [u \in Threads |-> NULL]
  <2>1. strays' \subseteq Slashed
    BY <1>12, <1>14
  <2> QED BY <1>4, <1>11, <1>14, <2>1 DEF IInv
<1> QED BY <1>2, <1>13, <1>14

LEMMA PrintedStep ==
    ASSUME IInv, NEW t \in Threads, Printed(t)
    PROVE  IInv'
BY AbandonHolds DEF Printed

-----------------------------------------------------------------------------
(* The theorem *)

LEMMA InitHolds == Init => IInv
<1> SUFFICES ASSUME Init PROVE IInv
  OBVIOUS
<1>1. exe \in Files
  BY ProgramIs DEF Init
<1>2. \A path \in Loader : Has(path, {}, Loader) /\ Reachable(path)
  BY LoaderAssumption, LibrariesAssumption DEF Has, Unanswered
<1> QED BY <1>1, <1>2 DEF Init, IInv, Loaded

LEMMA StepHolds == IInv /\ [Next]_vars => IInv'
<1> SUFFICES ASSUME IInv, [Next]_vars PROVE IInv'
  OBVIOUS
<1>1. CASE Next
  <2>1. PICK t \in Threads :
           \/ Walking(t)
           \/ dlopen(t)
           \/ \E program \in Programs : execve(t, program)
           \/ \E program \in Listed : ldd(t, program)
    BY <1>1 DEF Next
  <2>2. CASE Walking(t)
    BY <2>2, PreloadStep, LddStep, BackStep, OpenNeededStep, NextDlopenStep, ExecutedStep,
       PrintedStep DEF Walking
  <2>3. CASE dlopen(t)
    BY <2>3, DlopenStep
  <2>4. CASE \E program \in Programs : execve(t, program)
    BY <2>4, ExecveStep
  <2>5. CASE \E program \in Listed : ldd(t, program)
    BY <2>5, LddBegins, LibrariesAssumption
  <2> QED BY <2>1, <2>2, <2>3, <2>4, <2>5
<1>2. CASE UNCHANGED vars
  BY <1>2 DEF vars, IInv
<1> QED BY <1>1, <1>2

(***************************************************************************)
(* Whatever is needed by what, wherever the files and their links are, in  *)
(* whatever order execs, ldd and any number of dlopen() go on, fail or     *)
(* end, the dynamic loader of the jail never has a name to look for on the *)
(* host, and nothing of the host is loaded: of each object that is open,   *)
(* all that it needs is open too.                                          *)
(***************************************************************************)
THEOREM NothingOfTheHost == Spec => []NothingFromTheHost
<1>1. IInv => NothingFromTheHost
  BY DEF IInv, NothingFromTheHost, Loaded, Reachable
<1> QED BY <1>1, InitHolds, StepHolds, PTL DEF Spec

-----------------------------------------------------------------------------
(* What a complete list has *)

\* The paths the needs of some paths lead to.
Nearer(paths, finds) == UNION {finds[name] : name \in UNION {Range(Needed(p)) : p \in paths}}

\* A set of files that has what the program and each file of it need.
Whole(C, program, finds) ==
    \A p \in C \cup {program} : \A name \in Range(Needed(p)) : finds[name] \subseteq C

LEMMA NearerIs ==
    ASSUME NEW finds, NEW paths, NEW C
    PROVE  Nearer(paths, finds) \subseteq C
           <=> \A p \in paths : \A name \in Range(Needed(p)) : finds[name] \subseteq C
BY DEF Nearer

(***************************************************************************)
(* Closure() is a recursive function: each step adds what is needed by the *)
(* files that are there, within any set that is whole.                     *)
(***************************************************************************)
Closes(f, program, finds) ==
    /\ f[0] = Nearer({program}, finds)
    /\ \A i \in 1..Cardinality(Files) : f[i] = f[i - 1] \cup Nearer(f[i - 1], finds)
    /\ Closure(program, finds) = f[Cardinality(Files)]

LEMMA ClosureIsRecursive ==
    ASSUME NEW program, NEW finds, NEW S, Whole(S, program, finds), Cardinality(Files) \in Nat
    PROVE  \E f \in [0..Cardinality(Files) -> SUBSET S] : Closes(f, program, finds)
<1> DEFINE N        == Cardinality(Files)
           Direct(paths) == Nearer(paths, finds)
           a        == Direct({program})
           Step(C)  == C \cup Direct(C)
           step     == [i \in 1..N |-> [C \in SUBSET S |-> Step(C)]]
           F(f)     == [n \in 0..N |-> IF n = 0 THEN Direct({program})
                                       ELSE LET nearer == f[n - 1] IN nearer \cup Direct(nearer)]
           P(f)     == f[0] = a /\ \A i \in 1..N : f[i] = Step(f[i - 1])
<1>1. a \subseteq S
  <2>1. \A p \in {program} : \A name \in Range(Needed(p)) : finds[name] \subseteq S
    BY DEF Whole
  <2> QED BY <2>1, NearerIs
<1>2. \A C \in SUBSET S : Step(C) \in SUBSET S
  <2> TAKE C \in SUBSET S
  <2>1. \A p \in C : \A name \in Range(Needed(p)) : finds[name] \subseteq S
    BY DEF Whole
  <2>2. Direct(C) \subseteq S
    BY <2>1, NearerIs
  <2> QED BY <2>2
<1> HIDE DEF Direct, a, Step
<1>3. step \in [1..N -> [SUBSET S -> SUBSET S]]
  BY <1>2
<1>4. N \in Nat
  OBVIOUS
<1> HIDE DEF N
<1>5. PICK f \in [0..N -> SUBSET S] : Steps(f, N, a, step)
  <2>1. a \in SUBSET S
    BY <1>1
  <2>2. \A n, T, b, g :
           n \in Nat /\ b \in T /\ g \in [1..n -> [T -> T]]
           => \E f \in [0..n -> T] : Steps(f, n, b, g)
    BY Recursion
  <2> HIDE DEF step
  <2> QED BY <1>4, <1>3, <2>1, <2>2
<1>6. P(f)
  <2>1. ASSUME NEW i \in 1..N PROVE f[i] = Step(f[i - 1])
    <3>1. i - 1 \in 0..N
      BY <1>4
    <3>2. f[i - 1] \in SUBSET S
      BY <3>1
    <3>3. step[i][f[i - 1]] = Step(f[i - 1])
      BY <3>2
    <3> QED BY <1>5, <3>3 DEF Steps
  <2> QED BY <1>5, <2>1 DEF Steps
<1>7. f = F(f)
  <2>1. \A i \in 0..N : i # 0 => i \in 1..N
    BY <1>4
  <2>2. \A i \in 0..N : f[i] = F(f)[i]
    BY <1>6, <2>1 DEF Step, a
  <2> QED BY <2>2
<1> DEFINE closure == CHOOSE g : g = F(g)
<1>8. closure = F(closure)
  BY <1>7
<1>9. Closure(program, finds) = closure[N]
  BY DEF Closure, Direct, Nearer, N
<1> HIDE DEF closure
<1>10. /\ closure[0] = f[0]
       /\ \A m \in Nat : m + 1 \in 0..N => closure[m + 1] = Step(closure[m]) /\ f[m + 1] = Step(f[m])
  <2>1. closure[0] = a /\ f[0] = a
    <3>1. 0 \in 0..N
      BY <1>4
    <3>2. closure[0] = F(closure)[0]
      BY <1>8
    <3> QED BY <1>6, <3>1, <3>2 DEF a
  <2>2. ASSUME NEW m \in Nat, m + 1 \in 0..N
        PROVE  closure[m + 1] = Step(closure[m]) /\ f[m + 1] = Step(f[m])
    <3>1. m + 1 # 0 /\ (m + 1) - 1 = m /\ m + 1 \in 1..N
      BY <1>4, <2>2
    <3>2. closure[m + 1] = F(closure)[m + 1]
      BY <1>8
    <3>3. F(closure)[m + 1] = closure[m] \cup Direct(closure[m])
      BY <2>2, <3>1
    <3> QED BY <1>6, <3>1, <3>2, <3>3 DEF Step
  <2> QED BY <2>1, <2>2
<1>11. closure[N] = f[N]
  <2> DEFINE T == {m \in Nat : m \in 0..N => closure[m] = f[m]}
  <2>1. 0 \in T
    BY <1>10
  <2>2. ASSUME NEW m \in Nat, m \in T PROVE m + 1 \in T
    <3>1. m + 1 \in 0..N => m \in 0..N
      BY <1>4
    <3> QED BY <1>10, <2>2, <3>1
  <2> HIDE DEF T
  <2>3. Nat \subseteq T
    BY <2>1, <2>2, Induction
  <2> QED BY <1>4, <2>3 DEF T
<1> HIDE DEF F
<1>12. Closes(f, program, finds)
  BY <1>6, <1>9, <1>11 DEF Closes, N, a, Step, Direct
<1> QED BY <1>12 DEF N

(***************************************************************************)
(* The closure is the least set of files that is whole, if there is one:   *)
(* it grows by a file in each step, or not any more.                       *)
(***************************************************************************)
LEMMA ClosureIsLeast ==
    ASSUME NEW program, NEW finds, NEW S \in SUBSET Files, Whole(S, program, finds),
           \A C \in SUBSET Files : Whole(C, program, finds) => S \subseteq C
    PROVE  Closure(program, finds) = S
<1> DEFINE N == Cardinality(Files)
           Direct(paths) == Nearer(paths, finds)
<1>1. IsFiniteSet(Files) /\ N \in Nat
  BY LibrariesAssumption, FS_CardinalityType
<1>2. PICK f \in [0..N -> SUBSET S] : Closes(f, program, finds)
  BY <1>1, ClosureIsRecursive
<1> HIDE DEF N
<1>3. \A i \in 1..N : f[i] = f[i - 1] \cup Direct(f[i - 1])
  BY <1>2 DEF Closes, N
<1>4. \A i \in 0..N : IsFiniteSet(f[i]) /\ Cardinality(f[i]) \in Nat /\ f[i] \in SUBSET Files
  <2> TAKE i \in 0..N
  <2>1. f[i] \in SUBSET Files
    OBVIOUS
  <2>2. IsFiniteSet(f[i])
    BY <1>1, <2>1, FS_Subset
  <2> QED BY <2>1, <2>2, FS_CardinalityType
<1>5. \A i \in 0..N : Direct(f[i]) \subseteq S
  <2> TAKE i \in 0..N
  <2>1. \A p \in f[i] : \A name \in Range(Needed(p)) : finds[name] \subseteq S
    BY DEF Whole
  <2> QED BY <2>1, NearerIs
<1> HIDE DEF Direct
<1> DEFINE T == {m \in Nat : m \in 0..N => \/ Direct(f[m]) \subseteq f[m]
                                           \/ Cardinality(f[m]) >= m}
<1>6. 0 \in T
  BY <1>4
<1>7. ASSUME NEW m \in Nat, m \in T PROVE m + 1 \in T
  <2> SUFFICES ASSUME m + 1 \in 0..N
               PROVE  \/ Direct(f[m + 1]) \subseteq f[m + 1] \/ Cardinality(f[m + 1]) >= m + 1
    OBVIOUS
  <2>1. m \in 0..N /\ m + 1 \in 1..N /\ (m + 1) - 1 = m
    BY <1>1
  <2>2. f[m + 1] = f[m] \cup Direct(f[m])
    BY <1>3, <2>1
  <2>3. CASE Direct(f[m]) \subseteq f[m]
    <3>1. f[m + 1] = f[m]
      BY <2>2, <2>3
    <3> QED BY <2>3, <3>1
  <2>4. CASE ~(Direct(f[m]) \subseteq f[m])
    <3>1. Cardinality(f[m]) >= m
      BY <1>7, <2>1, <2>4
    <3>2. PICK p \in Direct(f[m]) : p \notin f[m]
      BY <2>4
    <3>3. IsFiniteSet(f[m]) /\ Cardinality(f[m]) \in Nat /\ IsFiniteSet(f[m + 1])
          /\ Cardinality(f[m + 1]) \in Nat
      BY <1>4, <2>1
    <3>4. Cardinality(f[m] \cup {p}) = Cardinality(f[m]) + 1
      BY <3>2, <3>3, FS_AddElement
    <3>5. f[m] \cup {p} \in SUBSET f[m + 1]
      BY <2>2, <3>2
    <3>6. Cardinality(f[m] \cup {p}) <= Cardinality(f[m + 1])
      BY <3>3, <3>5, FS_Subset
    <3> QED BY <3>1, <3>3, <3>4, <3>6
  <2> QED BY <2>3, <2>4
<1> HIDE DEF T
<1>8. N \in T
  <2>1. Nat \subseteq T
    BY <1>6, <1>7, Induction
  <2> QED BY <1>1, <2>1
<1>9. N \in 0..N
  BY <1>1
<1>10. Direct(f[N]) \subseteq f[N]
  <2>1. Direct(f[N]) \subseteq f[N] \/ Cardinality(f[N]) >= N
    BY <1>8, <1>9 DEF T
  <2>2. CASE Cardinality(f[N]) >= N
    <3>1. f[N] \in SUBSET Files /\ Cardinality(f[N]) \in Nat
      BY <1>4, <1>9
    <3>2. Cardinality(f[N]) <= N
      BY <1>1, <3>1, FS_Subset DEF N
    <3>3. Cardinality(f[N]) = Cardinality(Files)
      BY <1>1, <2>2, <3>1, <3>2 DEF N
    <3>4. Files = f[N]
      BY <1>1, <3>1, <3>3, FS_Subset
    <3> QED BY <1>5, <1>9, <3>4
  <2> QED BY <2>1, <2>2
<1>11. Direct({program}) \subseteq f[N]
  <2> DEFINE U == {m \in Nat : m \in 0..N => f[0] \subseteq f[m]}
  <2>1. 0 \in U
    OBVIOUS
  <2>2. ASSUME NEW m \in Nat, m \in U PROVE m + 1 \in U
    <3>1. m + 1 \in 0..N => m \in 0..N /\ m + 1 \in 1..N /\ (m + 1) - 1 = m
      BY <1>1
    <3> QED BY <1>3, <2>2, <3>1
  <2> HIDE DEF U
  <2>3. Nat \subseteq U
    BY <2>1, <2>2, Induction
  <2>4. f[0] \subseteq f[N]
    BY <1>1, <1>9, <2>3 DEF U
  <2> QED BY <1>2, <2>4 DEF Closes, Direct
<1>12. Whole(f[N], program, finds)
  <2>1. \A p \in f[N] : \A name \in Range(Needed(p)) : finds[name] \subseteq f[N]
    BY <1>10, NearerIs DEF Direct
  <2>2. \A p \in {program} : \A name \in Range(Needed(p)) : finds[name] \subseteq f[N]
    BY <1>11, NearerIs DEF Direct
  <2> QED BY <2>1, <2>2 DEF Whole
<1>13. f[N] \in SUBSET S /\ f[N] \in SUBSET Files
  BY <1>9
<1>14. S \subseteq f[N]
  BY <1>12, <1>13
<1>15. Closure(program, finds) = f[N]
  BY <1>2 DEF Closes, N
<1> QED BY <1>13, <1>14, <1>15

-----------------------------------------------------------------------------
(* The walks of the lists *)

Base(w)      == w.stack[Len(w.stack)]
ListFinds(w) == Finds(w.kind, Base(w).context)

\* The path an object waits for: that of the frame above it.
Awaited(w, i) == IF i = 1 THEN {} ELSE {w.stack[i - 1].path}

\* All frames search in the context of the first.
OneContext(w) == \A i \in DOMAIN w.stack : w.stack[i].context = Base(w).context

\* What an object needs is left, or listed, or waited for.
GoneThrough(w, finds) ==
    \A i \in DOMAIN w.stack :
        /\ Range(w.stack[i].left) \subseteq Range(Needed(w.stack[i].path))
        /\ \A name \in Range(Needed(w.stack[i].path)) \ Range(w.stack[i].left) :
              finds[name] \subseteq Range(w.list) \cup Awaited(w, i)

\* What a listed object needs is listed, unless the object is being gone through.
ListedNeeds(w, finds) ==
    \A p \in Range(w.list) :
        \/ \A name \in Range(Needed(p)) : finds[name] \subseteq Range(w.list)
        \/ \E i \in 1..(Len(w.stack) - 1) : w.stack[i].path = p

\* Only what the program needs is listed or gone through.
OnlyNeeded(w, finds) ==
    \A C \in SUBSET Files : Whole(C, Base(w).path, finds) =>
        /\ Range(w.list) \subseteq C
        /\ \A i \in 1..(Len(w.stack) - 1) : w.stack[i].path \in C

\* An exec lists an object before those it needs, ldd lists it after: an object that ldd
\* goes through is not listed, and the one below it needs it.
Entered(w, finds) ==
    \A i \in 1..(Len(w.stack) - 1) :
        /\ w.kind = "preload" => w.stack[i].path \in Range(w.list)
        /\ w.kind = "ldd" =>
              /\ w.stack[i].path \notin Range(w.list)
              /\ \E name \in Range(Needed(w.stack[i + 1].path)) : finds[name] = {w.stack[i].path}

Gathers(w) ==
    /\ OneContext(w) /\ IsInjective(w.list)
    /\ GoneThrough(w, ListFinds(w)) /\ ListedNeeds(w, ListFinds(w))
    /\ OnlyNeeded(w, ListFinds(w)) /\ Entered(w, ListFinds(w))

(***************************************************************************)
(* Nothing is left of a walk that ended: its list is whole, and least.     *)
(***************************************************************************)
LEMMA GatheredAll ==
    ASSUME NEW w, WalkTyped(w), Gathers(w), Len(w.stack) = 1, Top(w).left = <<>>
    PROVE  Range(w.list) = Closure(Top(w).path, Finds(w.kind, Top(w).context))
<1> DEFINE S == Range(w.list)
           finds == ListFinds(w)
           path == Top(w).path
<1>1. /\ Top(w) = w.stack[1] /\ Base(w) = Top(w) /\ DOMAIN w.stack = {1}
      /\ w.list \in Seq(Files)
  BY WalkIs DEF Base
<1>2. S \in SUBSET Files
  BY <1>1 DEF Range
<1>3. Range(w.stack[1].left) = {}
  BY <1>1 DEF Range
<1>4. \A name \in Range(Needed(path)) : finds[name] \subseteq S
  BY <1>1, <1>3 DEF Gathers, GoneThrough, Awaited
<1>5. \A p \in S : \A name \in Range(Needed(p)) : finds[name] \subseteq S
  BY DEF Gathers, ListedNeeds
<1>6. Whole(S, path, finds)
  BY <1>4, <1>5 DEF Whole
<1>7. \A C \in SUBSET Files : Whole(C, path, finds) => S \subseteq C
  BY <1>1 DEF Gathers, OnlyNeeded
<1>8. finds = Finds(w.kind, Top(w).context)
  BY <1>1 DEF ListFinds
<1> HIDE DEF S, finds, path
<1>9. Closure(path, finds) = S
  BY <1>2, <1>6, <1>7, ClosureIsLeast
<1> QED BY <1>8, <1>9 DEF S, path

(***************************************************************************)
(* Skipping a name leaves the context of the frame.                        *)
(***************************************************************************)
LEMMA SkipContext ==
    ASSUME NEW w, WalkTyped(w), Top(w).left # <<>>
    PROVE  Skip(w).stack[1].context = w.stack[1].context
<1> DEFINE top == w.stack[1]
           less == [top EXCEPT !.left = Tail(top.left)]
<1>1. /\ w.stack \in Seq(FrameType) /\ 1 \in DOMAIN w.stack /\ Top(w) = top /\ top \in FrameType
      /\ w = [kind |-> w.kind, stack |-> w.stack, list |-> w.list]
  BY WalkIs
<1>2. Skip(w).stack = [w.stack EXCEPT ![1] = less]
  BY <1>1 DEF Skip
<1>3. Skip(w).stack[1] = less
  BY <1>1, <1>2
<1> HIDE DEF top
<1>4. less.context = top.context
  BY <1>1 DEF FrameType
<1> QED BY <1>3, <1>4 DEF top

(***************************************************************************)
(* What the search of a list has for a name.                               *)
(***************************************************************************)
LEMMA FindsIs ==
    ASSUME NEW w, NEW name \in Names,
           OneContext(w), NEW c, Base(w).context = c
    PROVE  /\ w.kind = "ldd" => LET at == __ldso_access(name, c)
              IN  /\ at.errno # "" \/ name \in NotLibs => ListFinds(w)[name] = {}
                  /\ at.errno = "" /\ name \notin NotLibs => ListFinds(w)[name] = {at.path}
           /\ w.kind = "preload" => LET at == __path_access(name, c.deflib)
              IN  /\ name \in Slashed \cup NotLibs => ListFinds(w)[name] = {}
                  /\ name \notin Slashed \cup NotLibs /\ at.errno = ""
                     => ListFinds(w)[name] = {at.path}
<1>1. ListFinds(w) = Finds(w.kind, c)
  BY DEF ListFinds
<1>2. CASE w.kind = "ldd"
  <2>1. ListFinds(w)[name] = IF __ldso_access(name, c).errno = "" /\ name \notin NotLibs
                             THEN {__ldso_access(name, c).path} ELSE {}
    BY <1>1, <1>2 DEF Finds
  <2> QED BY <1>2, <2>1
<1>3. CASE w.kind = "preload"
  <2>1. CASE name \in Slashed
    <3>1. ListFinds(w)[name] = IF Fails("ENOENT").errno = "" /\ name \notin NotLibs
                               THEN {Fails("ENOENT").path} ELSE {}
      BY <1>1, <1>3, <2>1 DEF Finds
    <3>2. Fails("ENOENT").errno # ""
      BY DEF Fails
    <3> QED BY <1>3, <2>1, <3>1, <3>2
  <2>2. CASE name \notin Slashed
    <3>1. ListFinds(w)[name] =
             IF __path_access(name, c.deflib).errno = "" /\ name \notin NotLibs
             THEN {__path_access(name, c.deflib).path} ELSE {}
      BY <1>1, <1>3, <2>2 DEF Finds
    <3> QED BY <1>3, <2>2, <3>1
  <2> QED BY <2>1, <2>2
<1> QED BY <1>2, <1>3

(***************************************************************************)
(* A name that leads to nothing, or to what is listed, may be skipped.     *)
(***************************************************************************)
LEMMA SkipGathers ==
    ASSUME NEW w, WalkTyped(w), Gathers(w), Top(w).left # <<>>,
           ListFinds(w)[Wanted(w)] \subseteq Range(w.list)
    PROVE  Gathers(Skip(w))
<1> DEFINE v == Skip(w)
           n == Len(w.stack)
           finds == ListFinds(w)
<1>1. /\ WalkTyped(v) /\ v.kind = w.kind /\ v.list = w.list /\ Len(v.stack) = n
      /\ v.stack[1].path = w.stack[1].path /\ v.stack[1].context = w.stack[1].context
      /\ Range(w.stack[1].left) = {Wanted(w)} \cup Range(v.stack[1].left)
      /\ \A i \in 2..n : v.stack[i] = w.stack[i]
  BY SkipIs, SkipContext
<1>2. n \in Nat \ {0} /\ DOMAIN w.stack = 1..n /\ DOMAIN v.stack = 1..n
  BY <1>1, WalkIs
<1> HIDE DEF v, n
<1>3. \A i \in 1..n : /\ v.stack[i].path = w.stack[i].path
                      /\ v.stack[i].context = w.stack[i].context
                      /\ Range(v.stack[i].left) \subseteq Range(w.stack[i].left)
                      /\ Range(w.stack[i].left) \ Range(v.stack[i].left)
                            \subseteq {Wanted(w)}
  <2> TAKE i \in 1..n
  <2>1. i = 1 \/ i \in 2..n
    BY <1>2
  <2> QED BY <1>1, <2>1
<1>4. Base(v).path = Base(w).path /\ Base(v).context = Base(w).context
  <2>1. n \in 1..n /\ Base(v) = v.stack[n] /\ Base(w) = w.stack[n]
    BY <1>1, <1>2 DEF Base, n
  <2> QED BY <1>3, <2>1
<1>5. ListFinds(v) = finds
  BY <1>1, <1>4 DEF ListFinds
<1> HIDE DEF finds
<1>6. finds[Wanted(w)] \subseteq Range(v.list)
  BY <1>1 DEF finds
<1>7. OneContext(v) /\ IsInjective(v.list)
  BY <1>1, <1>2, <1>3, <1>4 DEF Gathers, OneContext
<1>8. GoneThrough(v, finds)
  <2> SUFFICES ASSUME NEW i \in 1..n
               PROVE  /\ Range(v.stack[i].left) \subseteq Range(Needed(v.stack[i].path))
                      /\ \A name \in Range(Needed(v.stack[i].path)) \ Range(v.stack[i].left) :
                            finds[name] \subseteq Range(v.list) \cup Awaited(v, i)
    BY <1>2 DEF GoneThrough
  <2>1. /\ Range(w.stack[i].left) \subseteq Range(Needed(w.stack[i].path))
        /\ \A name \in Range(Needed(w.stack[i].path)) \ Range(w.stack[i].left) :
              finds[name] \subseteq Range(w.list) \cup Awaited(w, i)
    BY <1>2 DEF Gathers, GoneThrough, finds
  <2>2. Awaited(v, i) = Awaited(w, i)
    <3>1. i # 1 => i - 1 \in 1..n
      BY <1>2
    <3> QED BY <1>3, <3>1 DEF Awaited
  <2> QED BY <1>1, <1>3, <1>6, <2>1, <2>2
<1>9. \A i \in 1..(n - 1) : v.stack[i].path = w.stack[i].path
                            /\ v.stack[i + 1].path = w.stack[i + 1].path
  <2> TAKE i \in 1..(n - 1)
  <2>1. i \in 1..n /\ i + 1 \in 1..n
    BY <1>2
  <2> QED BY <1>3, <2>1
<1>10. ListedNeeds(v, finds) /\ OnlyNeeded(v, finds) /\ Entered(v, finds)
  <2>1. ListedNeeds(w, finds) /\ OnlyNeeded(w, finds) /\ Entered(w, finds)
    BY DEF Gathers, finds
  <2>2. ListedNeeds(v, finds)
    BY <1>1, <1>9, <2>1 DEF ListedNeeds, n
  <2>3. OnlyNeeded(v, finds)
    BY <1>1, <1>4, <1>9, <2>1 DEF OnlyNeeded, n
  <2>4. Entered(v, finds)
    <3> SUFFICES ASSUME NEW i \in 1..(n - 1)
                 PROVE  /\ v.kind = "preload" => v.stack[i].path \in Range(v.list)
                        /\ v.kind = "ldd" =>
                              /\ v.stack[i].path \notin Range(v.list)
                              /\ \E name \in Range(Needed(v.stack[i + 1].path)) :
                                    finds[name] = {v.stack[i].path}
      BY <1>1 DEF Entered
    <3>1. /\ w.kind = "preload" => w.stack[i].path \in Range(w.list)
          /\ w.kind = "ldd" =>
                /\ w.stack[i].path \notin Range(w.list)
                /\ \E name \in Range(Needed(w.stack[i + 1].path)) :
                      finds[name] = {w.stack[i].path}
      BY <2>1 DEF Entered, n
    <3> QED BY <1>1, <1>9, <3>1
  <2> QED BY <2>2, <2>3, <2>4
<1> QED BY <1>5, <1>7, <1>8, <1>10 DEF Gathers, v
(***************************************************************************)
(* What the name that is wanted leads to is gone through, in the context   *)
(* of the rest; an exec lists it first.                                    *)
(***************************************************************************)
LEMMA EnterGathers ==
    ASSUME NEW w, WalkTyped(w), Gathers(w), Top(w).left # <<>>, w.kind \in {"preload", "ldd"},
           NEW path \in Files, ListFinds(w)[Wanted(w)] = {path}, path \notin Range(w.list),
           NEW v, WalkTyped(v), v.kind = w.kind, v.stack = Enter(w, InContext(w, path)).stack,
           Range(v.list) = Range(w.list) \cup (IF w.kind = "preload" THEN {path} ELSE {}),
           IsInjective(v.list)
    PROVE  Gathers(v)
<1> DEFINE frame == InContext(w, path)
           u == Skip(w)
           x == Enter(w, frame)
           n == Len(w.stack)
           finds == ListFinds(w)
<1>1. /\ frame \in FrameType /\ frame.path = path /\ frame.left = Needed(path)
      /\ frame.context = w.stack[1].context
  BY InContextIs, WalkIs DEF InContext, Frame
<1> HIDE DEF frame
<1>2. /\ Len(x.stack) = n + 1 /\ x.stack[1] = frame
      /\ \A i \in 1..n : x.stack[i + 1] = u.stack[i]
  BY <1>1, EnterIs
<1>3. /\ Len(v.stack) = n + 1 /\ v.stack[1] = frame
      /\ \A i \in 1..n : v.stack[i + 1] = u.stack[i]
  BY <1>2 DEF frame
<1>4. /\ u.stack[1].path = w.stack[1].path /\ u.stack[1].context = w.stack[1].context
      /\ Range(w.stack[1].left) = {Wanted(w)} \cup Range(u.stack[1].left)
      /\ \A i \in 2..n : u.stack[i] = w.stack[i]
  BY SkipIs, SkipContext
<1> HIDE DEF u, x
<1>5. n \in Nat \ {0} /\ DOMAIN w.stack = 1..n /\ DOMAIN v.stack = 1..(n + 1)
  BY <1>3, WalkIs
<1> HIDE DEF n
<1>6. ASSUME NEW i \in 1..n
      PROVE  /\ v.stack[i + 1].path = w.stack[i].path
             /\ v.stack[i + 1].context = w.stack[i].context
             /\ Range(v.stack[i + 1].left) \subseteq Range(w.stack[i].left)
             /\ Range(w.stack[i].left) \ Range(v.stack[i + 1].left)
                   \subseteq IF i = 1 THEN {Wanted(w)} ELSE {}
  <2>1. v.stack[i + 1] = u.stack[i] /\ (i = 1 \/ i \in 2..n)
    BY <1>3, <1>5
  <2> QED BY <1>4, <2>1
<1>7. Base(v).path = Base(w).path /\ Base(v).context = Base(w).context
  <2>1. n \in 1..n /\ Base(v) = v.stack[n + 1] /\ Base(w) = w.stack[n]
    BY <1>3, <1>5 DEF Base, n
  <2> QED BY <1>6, <2>1
<1>8. ListFinds(v) = finds
  BY <1>7 DEF ListFinds
<1>9. finds[Wanted(w)] = {path}
  BY DEF finds
<1> HIDE DEF finds
<1>10. ASSUME NEW i \in 1..(n + 1)
       PROVE  i = 1 \/ (i - 1 \in 1..n /\ (i - 1) + 1 = i)
  BY <1>5
<1>11. /\ OneContext(w) /\ GoneThrough(w, finds) /\ ListedNeeds(w, finds)
       /\ OnlyNeeded(w, finds) /\ Entered(w, finds)
  BY DEF Gathers, finds
<1>12. OneContext(v)
  <2> SUFFICES ASSUME NEW i \in 1..(n + 1)
               PROVE  v.stack[i].context = Base(w).context
    BY <1>5, <1>7 DEF OneContext
  <2>1. \A j \in 1..n : w.stack[j].context = Base(w).context
    BY <1>5, <1>11 DEF OneContext
  <2>2. CASE i = 1
    BY <1>1, <1>3, <1>5, <2>1, <2>2
  <2>3. CASE i # 1
    <3>1. i - 1 \in 1..n /\ (i - 1) + 1 = i
      BY <1>10, <2>3
    <3>2. v.stack[(i - 1) + 1].context = w.stack[i - 1].context
      BY <1>6, <3>1
    <3> QED BY <2>1, <3>1, <3>2
  <2> QED BY <2>2, <2>3
<1>13. Wanted(w) \in Range(Needed(w.stack[1].path))
  <2>1. 1 \in DOMAIN w.stack
    BY <1>5
  <2> QED BY <1>4, <1>11, <2>1 DEF GoneThrough
<1>14. GoneThrough(v, finds)
  <2> SUFFICES ASSUME NEW i \in 1..(n + 1)
               PROVE  /\ Range(v.stack[i].left) \subseteq Range(Needed(v.stack[i].path))
                      /\ \A name \in Range(Needed(v.stack[i].path)) \ Range(v.stack[i].left) :
                            finds[name] \subseteq Range(v.list) \cup Awaited(v, i)
    BY <1>5 DEF GoneThrough
  <2>1. CASE i = 1
    BY <1>1, <1>3, <2>1
  <2>2. CASE i # 1
    <3> DEFINE j == i - 1
    <3>1. j \in 1..n /\ j + 1 = i
      BY <1>10, <2>2
    <3> HIDE DEF j
    <3>2. /\ Range(w.stack[j].left) \subseteq Range(Needed(w.stack[j].path))
          /\ \A name \in Range(Needed(w.stack[j].path)) \ Range(w.stack[j].left) :
                finds[name] \subseteq Range(w.list) \cup Awaited(w, j)
      BY <1>5, <1>11, <3>1 DEF GoneThrough
    <3>3. Awaited(v, i) = {v.stack[j].path}
      BY <2>2 DEF Awaited, j
    <3>4. j = 1 => Awaited(v, i) = {path} /\ Awaited(w, j) = {}
      BY <1>1, <1>3, <3>3 DEF Awaited
    <3>5. j # 1 => Awaited(v, i) = Awaited(w, j)
      <4> SUFFICES ASSUME j # 1 PROVE Awaited(v, i) = Awaited(w, j)
        OBVIOUS
      <4>1. j - 1 \in 1..n /\ (j - 1) + 1 = j
        BY <1>5, <3>1
      <4>2. v.stack[j].path = w.stack[j - 1].path
        BY <1>6, <4>1
      <4> QED BY <3>3, <4>2 DEF Awaited
    <3>6. /\ v.stack[i].path = w.stack[j].path
          /\ Range(v.stack[i].left) \subseteq Range(w.stack[j].left)
          /\ Range(w.stack[j].left) \ Range(v.stack[i].left)
                \subseteq IF j = 1 THEN {Wanted(w)} ELSE {}
      BY <1>6, <3>1
    <3>7. CASE j = 1
      BY <1>9, <3>2, <3>4, <3>6, <3>7
    <3>8. CASE j # 1
      BY <3>2, <3>5, <3>6, <3>8
    <3> QED BY <3>7, <3>8
  <2> QED BY <2>1, <2>2
<1>15. ASSUME NEW i \in 1..(n - 1)
       PROVE  /\ i + 1 \in 1..n /\ i \in 1..n /\ v.stack[i + 1].path = w.stack[i].path
              /\ v.stack[i + 2].path = w.stack[i + 1].path
  <2>1. i + 1 \in 1..n /\ i \in 1..n /\ (i + 1) + 1 = i + 2
    BY <1>5
  <2> QED BY <1>6, <2>1
<1>16. ListedNeeds(v, finds)
  <2> SUFFICES ASSUME NEW p \in Range(v.list)
               PROVE  \/ \A name \in Range(Needed(p)) : finds[name] \subseteq Range(v.list)
                      \/ \E i \in 1..n : v.stack[i].path = p
    BY <1>3, <1>5 DEF ListedNeeds
  <2>1. CASE p = path
    <3>1. 1 \in 1..n /\ v.stack[1].path = p
      BY <1>1, <1>3, <1>5, <2>1
    <3> QED BY <3>1
  <2>2. CASE p \in Range(w.list)
    <3>1. CASE \A name \in Range(Needed(p)) : finds[name] \subseteq Range(w.list)
      BY <3>1
    <3>2. CASE \E i \in 1..(n - 1) : w.stack[i].path = p
      BY <1>15, <3>2
    <3> QED BY <1>11, <2>2, <3>1, <3>2 DEF ListedNeeds, n
  <2> QED BY <2>1, <2>2
<1>17. OnlyNeeded(v, finds)
  <2> SUFFICES ASSUME NEW C \in SUBSET Files, Whole(C, Base(w).path, finds)
               PROVE  Range(v.list) \subseteq C /\ \A i \in 1..n : v.stack[i].path \in C
    BY <1>3, <1>5, <1>7 DEF OnlyNeeded
  <2>1. Range(w.list) \subseteq C /\ \A i \in 1..(n - 1) : w.stack[i].path \in C
    BY <1>11 DEF OnlyNeeded, n
  <2>2. w.stack[1].path \in C \cup {Base(w).path}
    <3>1. CASE n = 1
      BY <3>1 DEF Base, n
    <3>2. CASE n # 1
      <4>1. 1 \in 1..(n - 1)
        BY <1>5, <3>2
      <4> QED BY <2>1, <4>1
    <3> QED BY <3>1, <3>2
  <2>3. path \in C
    BY <1>9, <1>13, <2>2 DEF Whole
  <2>4. ASSUME NEW i \in 1..n PROVE v.stack[i].path \in C
    <3>1. CASE i = 1
      BY <1>1, <1>3, <2>3, <3>1
    <3>2. CASE i # 1
      <4>1. i - 1 \in 1..(n - 1) /\ (i - 1) + 1 = i
        BY <1>5, <3>2
      <4> QED BY <1>15, <2>1, <4>1
    <3> QED BY <3>1, <3>2
  <2> QED BY <2>1, <2>3, <2>4
<1>18. Entered(v, finds)
  <2> SUFFICES ASSUME NEW i \in 1..n
               PROVE  /\ v.kind = "preload" => v.stack[i].path \in Range(v.list)
                      /\ v.kind = "ldd" =>
                            /\ v.stack[i].path \notin Range(v.list)
                            /\ \E name \in Range(Needed(v.stack[i + 1].path)) :
                                  finds[name] = {v.stack[i].path}
    <3>1. Len(v.stack) - 1 = n
      BY <1>3, <1>5
    <3>2. ASSUME \A i \in 1..n :
                    /\ v.kind = "preload" => v.stack[i].path \in Range(v.list)
                    /\ v.kind = "ldd" =>
                          /\ v.stack[i].path \notin Range(v.list)
                          /\ \E name \in Range(Needed(v.stack[i + 1].path)) :
                                finds[name] = {v.stack[i].path}
          PROVE  Entered(v, finds)
      BY <3>1, <3>2 DEF Entered
    <3> QED BY <3>2
  <2>1. CASE i = 1
    <3>1. 1 \in 1..n
      BY <1>5
    <3>2. v.stack[1 + 1].path = w.stack[1].path
      BY <1>6, <3>1
    <3> QED BY <1>1, <1>3, <1>9, <1>13, <2>1, <3>2
  <2>2. CASE i # 1
    <3> DEFINE j == i - 1
    <3>1. j \in 1..(n - 1) /\ j + 1 = i /\ j + 2 = i + 1
      BY <1>5, <2>2
    <3> HIDE DEF j
    <3>2. /\ w.kind = "preload" => w.stack[j].path \in Range(w.list)
          /\ w.kind = "ldd" =>
                /\ w.stack[j].path \notin Range(w.list)
                /\ \E name \in Range(Needed(w.stack[j + 1].path)) :
                      finds[name] = {w.stack[j].path}
      BY <1>11, <3>1 DEF Entered, n
    <3>3. v.stack[i].path = w.stack[j].path /\ v.stack[i + 1].path = w.stack[j + 1].path
      BY <1>15, <3>1
    <3>4. w.kind = "ldd" => Range(v.list) = Range(w.list)
      OBVIOUS
    <3> QED BY <3>2, <3>3, <3>4
  <2> QED BY <2>1, <2>2
<1> QED BY <1>8, <1>12, <1>14, <1>16, <1>17, <1>18 DEF Gathers

(***************************************************************************)
(* An object of which nothing is left has all it needs in the list, and    *)
(* ldd lists it: it is no other of those that are gone through, as then    *)
(* one it waits for would be listed.                                       *)
(***************************************************************************)
LEMMA LeaveGathers ==
    ASSUME NEW w, WalkTyped(w), Gathers(w), Top(w).left = <<>>, w.kind \in {"preload", "ldd"},
           Len(w.stack) # 1,
           NEW v, WalkTyped(v), v.kind = w.kind, v.stack = Leave(w).stack,
           Range(v.list) = Range(w.list) \cup {Top(w).path}, IsInjective(v.list)
    PROVE  Gathers(v)
<1> DEFINE n == Len(w.stack)
           x == Leave(w)
           path == w.stack[1].path
           finds == ListFinds(w)
<1>1. Len(x.stack) = n - 1 /\ \A i \in 1..(n - 1) : x.stack[i] = w.stack[i + 1]
  BY LeaveIs
<1> HIDE DEF x
<1>2. Len(v.stack) = n - 1 /\ \A i \in 1..(n - 1) : v.stack[i] = w.stack[i + 1]
  BY <1>1 DEF x
<1>3. /\ n \in Nat \ {0} /\ n # 1 /\ DOMAIN w.stack = 1..n /\ DOMAIN v.stack = 1..(n - 1)
      /\ Top(w) = w.stack[1] /\ Range(v.list) = Range(w.list) \cup {path}
  BY <1>2, WalkIs
<1>4. Range(w.stack[1].left) = {}
  BY <1>3 DEF Range
<1> HIDE DEF n, path, finds
<1>5. Base(v) = Base(w)
  <2>1. n - 1 \in 1..(n - 1) /\ (n - 1) + 1 = n
    BY <1>3
  <2>2. Base(v) = v.stack[n - 1]
    BY <1>2 DEF Base
  <2>3. Base(w) = w.stack[n]
    BY DEF Base, n
  <2> QED BY <1>2, <2>1, <2>2, <2>3
<1>6. ListFinds(v) = finds
  BY <1>5 DEF ListFinds, finds
<1>7. /\ OneContext(w) /\ GoneThrough(w, finds) /\ ListedNeeds(w, finds)
      /\ OnlyNeeded(w, finds) /\ Entered(w, finds)
  BY DEF Gathers, finds
<1>8. \A name \in Range(Needed(path)) : finds[name] \subseteq Range(w.list)
  <2>1. 1 \in DOMAIN w.stack
    BY <1>3
  <2> QED BY <1>4, <1>7, <2>1 DEF GoneThrough, Awaited, path
<1>9. OneContext(v)
  <2> SUFFICES ASSUME NEW i \in 1..(n - 1) PROVE v.stack[i].context = Base(w).context
    BY <1>3, <1>5 DEF OneContext
  <2>1. i + 1 \in DOMAIN w.stack
    BY <1>3
  <2> QED BY <1>2, <1>7, <2>1 DEF OneContext
<1>10. GoneThrough(v, finds)
  <2> SUFFICES ASSUME NEW i \in 1..(n - 1)
               PROVE  /\ Range(v.stack[i].left) \subseteq Range(Needed(v.stack[i].path))
                      /\ \A name \in Range(Needed(v.stack[i].path)) \ Range(v.stack[i].left) :
                            finds[name] \subseteq Range(v.list) \cup Awaited(v, i)
    BY <1>3 DEF GoneThrough
  <2>1. i + 1 \in DOMAIN w.stack /\ v.stack[i] = w.stack[i + 1] /\ i + 1 # 1 /\ (i + 1) - 1 = i
    BY <1>2, <1>3
  <2>2. /\ Range(v.stack[i].left) \subseteq Range(Needed(v.stack[i].path))
        /\ \A name \in Range(Needed(v.stack[i].path)) \ Range(v.stack[i].left) :
              finds[name] \subseteq Range(w.list) \cup Awaited(w, i + 1)
    BY <1>7, <2>1 DEF GoneThrough
  <2>3. Awaited(w, i + 1) = {w.stack[i].path}
    BY <2>1 DEF Awaited
  <2>4. CASE i = 1
    BY <1>3, <2>2, <2>3, <2>4 DEF path
  <2>5. CASE i # 1
    <3>1. i - 1 \in 1..(n - 1) /\ (i - 1) + 1 = i
      BY <1>3, <2>5
    <3>2. v.stack[i - 1] = w.stack[i]
      BY <1>2, <3>1
    <3>3. Awaited(v, i) = Awaited(w, i + 1)
      BY <2>3, <2>5, <3>2 DEF Awaited
    <3> QED BY <1>3, <2>2, <3>3
  <2> QED BY <2>4, <2>5
<1>11. ASSUME NEW i \in 1..(n - 2)
       PROVE  /\ i + 1 \in 1..(n - 1) /\ v.stack[i] = w.stack[i + 1]
              /\ v.stack[i + 1] = w.stack[i + 2]
  <2>1. i \in 1..(n - 1) /\ i + 1 \in 1..(n - 1) /\ (i + 1) + 1 = i + 2
    BY <1>3
  <2> QED BY <1>2, <2>1
<1>12. Len(v.stack) - 1 = n - 2
  BY <1>2, <1>3
<1>13. ListedNeeds(v, finds)
  <2> SUFFICES ASSUME NEW p \in Range(v.list)
               PROVE  \/ \A name \in Range(Needed(p)) : finds[name] \subseteq Range(v.list)
                      \/ \E i \in 1..(n - 2) : v.stack[i].path = p
    BY <1>12 DEF ListedNeeds
  <2>1. CASE p = path
    BY <1>3, <1>8, <2>1
  <2>2. CASE p # path
    <3>1. p \in Range(w.list)
      BY <1>3, <2>2
    <3>2. CASE \A name \in Range(Needed(p)) : finds[name] \subseteq Range(w.list)
      BY <1>3, <3>2
    <3>3. CASE \E i \in 1..(n - 1) : w.stack[i].path = p
      <4>1. PICK i \in 1..(n - 1) : w.stack[i].path = p
        BY <3>3
      <4>2. i # 1
        BY <2>2, <4>1 DEF path
      <4>3. i - 1 \in 1..(n - 2) /\ (i - 1) + 1 = i
        BY <1>3, <4>2
      <4>4. v.stack[i - 1].path = p
        BY <1>11, <4>1, <4>3
      <4> QED BY <4>3, <4>4
    <3> QED BY <1>7, <3>1, <3>2, <3>3 DEF ListedNeeds, n
  <2> QED BY <2>1, <2>2
<1>14. OnlyNeeded(v, finds)
  <2> SUFFICES ASSUME NEW C \in SUBSET Files, Whole(C, Base(w).path, finds)
               PROVE  Range(v.list) \subseteq C /\ \A i \in 1..(n - 2) : v.stack[i].path \in C
    BY <1>5, <1>12 DEF OnlyNeeded
  <2>1. Range(w.list) \subseteq C /\ \A i \in 1..(n - 1) : w.stack[i].path \in C
    BY <1>7 DEF OnlyNeeded, n
  <2>2. path \in C
    <3>1. 1 \in 1..(n - 1)
      BY <1>3
    <3> QED BY <2>1, <3>1 DEF path
  <2> QED BY <1>3, <1>11, <2>1, <2>2
<1>15. Entered(v, finds)
  <2> SUFFICES ASSUME NEW i \in 1..(n - 2)
               PROVE  /\ v.kind = "preload" => v.stack[i].path \in Range(v.list)
                      /\ v.kind = "ldd" =>
                            /\ v.stack[i].path \notin Range(v.list)
                            /\ \E name \in Range(Needed(v.stack[i + 1].path)) :
                                  finds[name] = {v.stack[i].path}
    BY <1>12 DEF Entered
  <2>1. \A j \in 1..(n - 1) :
           /\ w.kind = "preload" => w.stack[j].path \in Range(w.list)
           /\ w.kind = "ldd" =>
                 /\ w.stack[j].path \notin Range(w.list)
                 /\ \E name \in Range(Needed(w.stack[j + 1].path)) : finds[name] = {w.stack[j].path}
    BY <1>7 DEF Entered, n
  <2>2. /\ i + 1 \in 1..(n - 1) /\ i \in 1..(n - 1) /\ (i + 1) + 1 = i + 2
        /\ v.stack[i] = w.stack[i + 1] /\ v.stack[i + 1] = w.stack[i + 2]
    BY <1>3, <1>11
  <2>3. CASE w.kind = "preload"
    BY <1>3, <2>1, <2>2, <2>3
  <2>4. CASE w.kind = "ldd"
    <3>1. /\ w.stack[i].path \notin Range(w.list) /\ w.stack[i + 1].path \notin Range(w.list)
          /\ \E name \in Range(Needed(w.stack[i + 1].path)) : finds[name] = {w.stack[i].path}
          /\ \E name \in Range(Needed(w.stack[i + 2].path)) : finds[name] = {w.stack[i + 1].path}
      BY <2>1, <2>2, <2>4
    <3>2. w.stack[i + 1].path # path
      BY <1>8, <3>1
    <3> QED BY <1>3, <2>2, <2>4, <3>1, <3>2
  <2> QED BY <2>3, <2>4
<1> QED BY <1>6, <1>9, <1>10, <1>13, <1>14, <1>15 DEF Gathers
\* What is listed for the first time is listed once.
LEMMA ListOnce ==
    ASSUME NEW w, WalkTyped(w), NEW path \in Files, IsInjective(w.list), path \notin Range(w.list)
    PROVE  IsInjective(List(w, path).list)
<1> DEFINE list == w.list
           more == Append(list, path)
<1>1. list \in Seq(Files) /\ w = [kind |-> w.kind, stack |-> w.stack, list |-> list]
  BY WalkIs
<1>2. List(w, path).list = more
  BY <1>1 DEF List
<1> HIDE DEF list
<1>3. /\ DOMAIN more = 1..(Len(list) + 1) /\ DOMAIN list = 1..Len(list) /\ Len(list) \in Nat
      /\ more[Len(list) + 1] = path /\ \A i \in 1..Len(list) : more[i] = list[i]
  BY <1>1
<1> HIDE DEF more
<1>4. ASSUME NEW i \in DOMAIN more, NEW j \in DOMAIN more, more[i] = more[j] PROVE i = j
  <2>1. \A k \in 1..Len(list) : list[k] # path
    BY <1>3 DEF Range, list
  <2>2. CASE i \in 1..Len(list) /\ j \in 1..Len(list)
    BY <1>3, <1>4, <2>2 DEF IsInjective, list
  <2>3. CASE i \notin 1..Len(list) \/ j \notin 1..Len(list)
    BY <1>3, <1>4, <2>1, <2>3
  <2> QED BY <2>2, <2>3
<1> QED BY <1>2, <1>4 DEF IsInjective

-----------------------------------------------------------------------------
(* The steps of the lists *)

Lists == {"preload", "ldd"}

AllGather == \A t \in Threads : walk[t] # NULL /\ walk[t].kind \in Lists => Gathers(walk[t])

LEMMA BecomesGathers ==
    ASSUME IInv, AllGather, NEW t \in Threads, NEW w, Becomes(t, w),
           w # NULL /\ w.kind \in Lists => Gathers(w)
    PROVE  AllGather'
<1>1. walk \in [Threads -> WalkType \cup {NULL}] /\ walk' = [walk EXCEPT ![t] = w]
  BY DEF IInv, Becomes
<1>2. ASSUME NEW u \in Threads, walk'[u] # NULL, walk'[u].kind \in Lists PROVE Gathers(walk'[u])
  <2>1. CASE u = t
    BY <1>1, <1>2, <2>1
  <2>2. CASE u # t
    <3>1. walk'[u] = walk[u]
      BY <1>1, <2>2
    <3> QED BY <1>2, <3>1 DEF AllGather
  <2> QED BY <2>1, <2>2
<1> QED BY <1>2 DEF AllGather

LEMMA AbandonGathers ==
    ASSUME IInv, AllGather, NEW t \in Threads, Abandon(t)
    PROVE  AllGather'
BY BecomesGathers DEF Abandon, Walks

\* The context of the program is that of the frame on top.
LEMMA TopContext ==
    ASSUME NEW w, WalkTyped(w), Gathers(w)
    PROVE  Base(w).context = Top(w).context /\ OneContext(w)
BY WalkIs DEF Gathers, OneContext

LEMMA WantedIs ==
    ASSUME NEW w, WalkTyped(w), Top(w).left # <<>>
    PROVE  Wanted(w) \in Names
<1>1. Top(w).left \in Seq(Names)
  BY WalkIs, FrameIs
<1> QED BY <1>1, LeftIs DEF Wanted

LEMMA PreloadGathers ==
    ASSUME IInv, AllGather, NEW t \in Threads, __ldso_preload_needed(t)
    PROVE  AllGather'
<1> DEFINE w == walk[t]
           c == Top(w).context
           at == __path_access(Wanted(w), c.deflib)
<1>1. WalkTyped(w) /\ Gathers(w) /\ w.kind = "preload" /\ Top(w).left # <<>>
  BY DEF __ldso_preload_needed, Goes, IInv, WalkHolds, AllGather, Lists
<1>2. \/ Abandon(t)
      \/ Wanted(w) \in Slashed \cup NotLibs /\ Becomes(t, Skip(w))
      \/ /\ Wanted(w) \notin Slashed \cup NotLibs /\ at.errno = ""
         /\ \/ at.path \in Range(w.list) /\ Becomes(t, Skip(w))
            \/ at.path \notin Range(w.list) /\ Becomes(t, Preload(w, at.path))
  BY DEF __ldso_preload_needed, AlreadyListed, Walks
<1> HIDE DEF w
<1>3. Base(w).context = c /\ OneContext(w) /\ Wanted(w) \in Names
  BY <1>1, TopContext, WantedIs
<1>4. c.deflib \in Seq(Jail)
  <2>1. Top(w).context \in ContextType
    BY <1>1, WalkIs, FrameIs
  <2> QED BY <2>1 DEF ContextType
<1>5. at.errno = "" => at.path \in Files
  BY <1>4, PathAccessIs
<1> HIDE DEF c
<1>6. /\ Wanted(w) \in Slashed \cup NotLibs => ListFinds(w)[Wanted(w)] = {}
      /\ Wanted(w) \notin Slashed \cup NotLibs /\ at.errno = ""
         => ListFinds(w)[Wanted(w)] = {at.path}
  BY <1>1, <1>3, FindsIs
<1> HIDE DEF at
<1>7. ASSUME ListFinds(w)[Wanted(w)] \subseteq Range(w.list), Becomes(t, Skip(w)) PROVE AllGather'
  <2>1. Gathers(Skip(w))
    BY <1>1, <1>7, SkipGathers
  <2> QED BY <1>7, <2>1, BecomesGathers
<1>8. CASE Abandon(t)
  BY <1>8, AbandonGathers
<1>9. CASE Wanted(w) \in Slashed \cup NotLibs /\ Becomes(t, Skip(w))
  BY <1>6, <1>7, <1>9
<1>10. CASE /\ Wanted(w) \notin Slashed \cup NotLibs /\ at.errno = ""
            /\ at.path \in Range(w.list) /\ Becomes(t, Skip(w))
  BY <1>6, <1>7, <1>10
<1>11. CASE /\ Wanted(w) \notin Slashed \cup NotLibs /\ at.errno = ""
            /\ at.path \notin Range(w.list) /\ Becomes(t, Preload(w, at.path))
  <2> DEFINE x == Enter(w, InContext(w, at.path))
             v == List(x, at.path)
  <2>1. at.path \in Files /\ ListFinds(w)[Wanted(w)] = {at.path}
    BY <1>5, <1>6, <1>11
  <2>2. InContext(w, at.path) \in FrameType
    BY <1>1, <2>1, InContextIs
  <2>3. WalkTyped(x) /\ x.kind = w.kind /\ x.list = w.list
    BY <1>1, <2>2, EnterIs
  <2>4. x.stack = Enter(w, InContext(w, at.path)).stack
    OBVIOUS
  <2> HIDE DEF x
  <2>5. WalkTyped(v) /\ v.kind = x.kind /\ v.stack = x.stack /\ Range(v.list) = Range(x.list) \cup {at.path}
    BY <2>1, <2>3, ListIs
  <2>6. IsInjective(v.list)
    BY <1>1, <1>11, <2>1, <2>3, ListOnce DEF Gathers
  <2> HIDE DEF v
  <2>7. Range(v.list) = Range(w.list) \cup (IF w.kind = "preload" THEN {at.path} ELSE {})
    BY <1>1, <2>3, <2>5
  <2>8. v.kind = w.kind /\ v.stack = Enter(w, InContext(w, at.path)).stack
    BY <2>3, <2>4, <2>5
  <2>9. Gathers(v)
    BY <1>1, <1>11, <2>1, <2>5, <2>6, <2>7, <2>8, EnterGathers
  <2>10. Becomes(t, v)
    BY <1>11 DEF Preload, v, x
  <2> QED BY <2>9, <2>10, BecomesGathers
<1> QED BY <1>2, <1>8, <1>9, <1>10, <1>11

LEMMA LddGathers ==
    ASSUME IInv, AllGather, NEW t \in Threads, __ld_trace_loader_objects_needed(t)
    PROVE  AllGather'
<1> DEFINE w == walk[t]
           c == Top(w).context
           at == __ldso_access(Wanted(w), c)
           nothing == at.errno # "" \/ Wanted(w) \in NotLibs
           v == Enter(w, InContext(w, at.path))
<1>1. WalkTyped(w) /\ Gathers(w) /\ w.kind = "ldd" /\ Top(w).left # <<>>
  BY DEF __ld_trace_loader_objects_needed, Goes, IInv, WalkHolds, AllGather, Lists
<1>2. \/ Abandon(t)
      \/ nothing /\ Becomes(t, Skip(w))
      \/ ~nothing /\ at.path \in Range(w.list) /\ Becomes(t, Skip(w))
      \/ ~nothing /\ at.path \notin Range(w.list) /\ Opens(at.path) /\ Becomes(t, v)
  BY DEF __ld_trace_loader_objects_needed, AlreadyListed, Walks
<1> HIDE DEF w
<1>3. Base(w).context = c /\ OneContext(w) /\ Wanted(w) \in Names
  BY <1>1, TopContext, WantedIs
<1> HIDE DEF c
<1>4. /\ nothing => ListFinds(w)[Wanted(w)] = {}
      /\ ~nothing => ListFinds(w)[Wanted(w)] = {at.path}
  BY <1>1, <1>3, FindsIs
<1> HIDE DEF at, nothing
<1>5. ASSUME ListFinds(w)[Wanted(w)] \subseteq Range(w.list), Becomes(t, Skip(w)) PROVE AllGather'
  <2>1. Gathers(Skip(w))
    BY <1>1, <1>5, SkipGathers
  <2> QED BY <1>5, <2>1, BecomesGathers
<1>6. CASE Abandon(t)
  BY <1>6, AbandonGathers
<1>7. CASE nothing /\ Becomes(t, Skip(w))
  BY <1>4, <1>5, <1>7
<1>8. CASE ~nothing /\ at.path \in Range(w.list) /\ Becomes(t, Skip(w))
  BY <1>4, <1>5, <1>8
<1>9. CASE ~nothing /\ at.path \notin Range(w.list) /\ Opens(at.path) /\ Becomes(t, v)
  <2>1. at.path \in Files /\ ListFinds(w)[Wanted(w)] = {at.path}
    BY <1>4, <1>9, RealIs
  <2>2. InContext(w, at.path) \in FrameType
    BY <1>1, <2>1, InContextIs
  <2>3. WalkTyped(v) /\ v.kind = w.kind /\ v.list = w.list
    BY <1>1, <2>2, EnterIs
  <2>4. v.stack = Enter(w, InContext(w, at.path)).stack
    OBVIOUS
  <2> HIDE DEF v
  <2>5. /\ Range(v.list) = Range(w.list) \cup (IF w.kind = "preload" THEN {at.path} ELSE {})
        /\ IsInjective(v.list)
    BY <1>1, <2>3 DEF Gathers
  <2>6. w.kind \in {"preload", "ldd"} /\ at.path \notin Range(w.list)
    BY <1>1, <1>9
  <2>7. Gathers(v)
    BY <1>1, <2>1, <2>3, <2>4, <2>5, <2>6, EnterGathers
  <2> QED BY <1>9, <2>7, BecomesGathers
<1> QED BY <1>2, <1>6, <1>7, <1>8, <1>9

LEMMA BackGathers ==
    ASSUME IInv, AllGather, NEW t \in Threads, Back(t)
    PROVE  AllGather'
<1> DEFINE w == walk[t]
           x == Leave(w)
           path == Top(w).path
           n == Len(w.stack)
           v == IF w.kind = "ldd" THEN List(x, path) ELSE x
<1>1. /\ WalkTyped(w) /\ Gathers(w) /\ w.kind \in {"preload", "ldd"} /\ Top(w).left = <<>>
      /\ Len(w.stack) > 1 /\ Becomes(t, v)
  BY DEF Back, GoesBack, IInv, WalkHolds, AllGather, Lists, Walks
<1> HIDE DEF w
<1>2. n \in Nat /\ n > 1
  BY <1>1 DEF WalkTyped
<1> HIDE DEF n
<1>3. n # 1 /\ 1 \in 1..(n - 1)
  BY <1>2
<1>4. WalkTyped(x) /\ x.kind = w.kind /\ x.list = w.list /\ path \in Files /\ path = w.stack[1].path
  BY <1>1, <1>3, LeaveIs, WalkIs, FrameIs DEF n
<1>5. x.stack = Leave(w).stack
  OBVIOUS
<1>6. /\ w.kind = "preload" => path \in Range(w.list)
      /\ w.kind = "ldd" => path \notin Range(w.list)
  BY <1>1, <1>3, <1>4 DEF Gathers, Entered, n
<1> HIDE DEF x, path
<1>7. /\ WalkTyped(v) /\ v.kind = w.kind /\ v.stack = x.stack /\ IsInjective(v.list)
      /\ Range(v.list) = Range(w.list) \cup {path}
  <2>1. CASE w.kind = "ldd"
    <3>1. v = List(x, path)
      BY <2>1
    <3>2. /\ WalkTyped(List(x, path)) /\ List(x, path).kind = x.kind
          /\ List(x, path).stack = x.stack
          /\ Range(List(x, path).list) = Range(x.list) \cup {path}
      BY <1>4, ListIs
    <3>3. IsInjective(List(x, path).list)
      BY <1>1, <1>4, <1>6, <2>1, ListOnce DEF Gathers
    <3> HIDE DEF v
    <3> QED BY <1>4, <3>1, <3>2, <3>3
  <2>2. CASE w.kind = "preload"
    <3>1. v = x
      BY <2>2
    <3> HIDE DEF v
    <3> QED BY <1>1, <1>4, <1>6, <2>2, <3>1 DEF Gathers
  <2> QED BY <1>1, <2>1, <2>2
<1> HIDE DEF v
<1>8. v.stack = Leave(w).stack /\ Range(v.list) = Range(w.list) \cup {Top(w).path}
      /\ Len(w.stack) # 1
  BY <1>3, <1>5, <1>7 DEF path, n
<1>9. Gathers(v)
  BY <1>1, <1>7, <1>8, LeaveGathers
<1> QED BY <1>1, <1>9, BecomesGathers

LEMMA DlopenGathers ==
    ASSUME IInv, AllGather, NEW t \in Threads, __ld_open_needed(t) \/ next_dlopen(t)
    PROVE  AllGather'
<1> DEFINE w == walk[t]
<1>1. WalkTyped(w) /\ w.kind = "dlopen"
  BY DEF __ld_open_needed, next_dlopen, Goes, GoesBack, IInv, WalkHolds
<1>2. CASE __ld_open_needed(t)
  <2> DEFINE at == __ldso_access(Wanted(w), Top(w).context)
  <2>1. Top(w).left # <<>>
    BY <1>2 DEF __ld_open_needed, Goes
  <2>2. \/ Abandon(t)
        \/ Opens(at.path) /\ Becomes(t, Enter(w, __fld_open_needed(at.path)))
    BY <1>2 DEF __ld_open_needed, NotFound, Walks
  <2> HIDE DEF w, at
  <2>3. CASE Abandon(t)
    BY <2>3, AbandonGathers
  <2>4. CASE Opens(at.path) /\ Becomes(t, Enter(w, __fld_open_needed(at.path)))
    <3>1. __fld_open_needed(at.path) \in FrameType
      <4>1. at.path \in Files
        BY <2>4, RealIs
      <4>2. Loaded(opened)
        BY DEF IInv
      <4> QED BY <4>1, <4>2, OpenFrame
    <3>2. Enter(w, __fld_open_needed(at.path)).kind = "dlopen"
      BY <1>1, <2>1, <3>1, EnterIs
    <3> QED BY <2>4, <3>2, BecomesGathers DEF Lists
  <2> QED BY <2>2, <2>3, <2>4
<1>3. CASE next_dlopen(t)
  <2>1. Abandon(t) \/ Becomes(t, NULL) \/ (Len(w.stack) # 1 /\ Becomes(t, Leave(w)))
    BY <1>3 DEF next_dlopen
  <2> HIDE DEF w
  <2>2. Len(w.stack) # 1 => Leave(w).kind = "dlopen"
    BY <1>1, LeaveIs
  <2> QED BY <2>1, <2>2, AbandonGathers, BecomesGathers DEF Lists
<1> QED BY <1>2, <1>3

\* A list starts empty, with all that the program needs left.
LEMMA BeginGathers ==
    ASSUME NEW kind \in Kinds, NEW path \in Files, NEW context \in ContextType
    PROVE  Gathers(Walk(kind, path, Needed(path), context))
<1> DEFINE w == Walk(kind, path, Needed(path), context)
<1>1. Needed(path) \in Seq(Names)
  BY NeededIs
<1>2. /\ WalkTyped(w) /\ w.kind = kind /\ DOMAIN w.stack = {1} /\ Len(w.stack) = 1
      /\ w.stack[1].path = path /\ w.stack[1].left = Needed(path) /\ Range(w.list) = {}
  BY <1>1, WalkBegins
<1>3. w.list = <<>>
  BY DEF Walk
<1> HIDE DEF w
<1>4. 1..(Len(w.stack) - 1) = {} /\ Base(w) = w.stack[1]
  BY <1>2 DEF Base
<1>5. IsInjective(w.list)
  BY <1>3 DEF IsInjective
<1>6. OneContext(w)
  BY <1>2, <1>4 DEF OneContext
<1>7. \A finds : GoneThrough(w, finds)
  BY <1>2 DEF GoneThrough
<1>8. \A finds : ListedNeeds(w, finds)
  BY <1>2 DEF ListedNeeds
<1>9. \A finds : OnlyNeeded(w, finds)
  BY <1>2, <1>4 DEF OnlyNeeded
<1>10. \A finds : Entered(w, finds)
  BY <1>4 DEF Entered
<1>11. Gathers(w)
  BY <1>5, <1>6, <1>7, <1>8, <1>9, <1>10 DEF Gathers
<1> QED BY <1>11 DEF w

LEMMA CallsGather ==
    ASSUME IInv, AllGather, NEW t \in Threads,
           \/ dlopen(t)
           \/ \E program \in Programs : execve(t, program)
           \/ \E program \in Listed : ldd(t, program)
    PROVE  AllGather'
<1>1. CASE dlopen(t)
  <2>1. PICK path : Dlopen(t, path)
    BY <1>1 DEF dlopen
  <2> DEFINE frame == __fld_open_needed(path)
             w == Walk("dlopen", path, frame.left, frame.context)
  <2>2. Becomes(t, w)
    BY <2>1 DEF Dlopen, Begin, Walks
  <2>3. w.kind = "dlopen"
    BY DEF Walk
  <2> HIDE DEF w
  <2>4. w.kind \notin Lists
    BY <2>3 DEF Lists
  <2> QED BY <2>2, <2>4, BecomesGathers
<1>2. ASSUME NEW program \in Programs, execve(t, program) PROVE AllGather'
  <2> DEFINE own == __felf_so_context(program)
             c == [own EXCEPT !.deflib = __ld_lib_path(program)]
             w == Walk("preload", program, Needed(program), c)
  <2>1. program \in Files
    BY ProgramIs
  <2>2. own \in ContextType
    BY <2>1, ContextIs
  <2>3. Becomes(t, w)
    BY <1>2 DEF execve, Begin, Walks
  <2>4. __ld_lib_path(program) = ((own.deflib \o own.runpath) \o own.libpath) \o own.rpath
    BY DEF __ld_lib_path
  <2> HIDE DEF own
  <2>5. __ld_lib_path(program) \in Seq(Jail)
    <3>1. /\ own.deflib \in Seq(Jail) /\ own.runpath \in Seq(Jail)
          /\ own.libpath \in Seq(Jail) /\ own.rpath \in Seq(Jail)
      BY <2>2 DEF ContextType
    <3> QED BY <2>4, <3>1
  <2>6. c \in ContextType /\ "preload" \in Kinds
    BY <2>2, <2>5 DEF ContextType, Kinds
  <2> HIDE DEF c
  <2>7. Gathers(w)
    BY <2>1, <2>6, BeginGathers
  <2> HIDE DEF w
  <2> QED BY <2>3, <2>7, BecomesGathers
<1>3. ASSUME NEW program \in Listed, ldd(t, program) PROVE AllGather'
  <2> DEFINE c == __felf_so_context(program)
             context == [c EXCEPT !.rpath = <<>>, !.exec_rpath = c.rpath]
             w == Walk("ldd", program, Needed(program), context)
  <2>1. program \in Files
    BY ProgramIs, LibrariesAssumption
  <2>2. c \in ContextType
    BY <2>1, ContextIs
  <2>3. Becomes(t, w)
    BY <1>3 DEF ldd, Begin, Walks
  <2> HIDE DEF c
  <2>4. context \in ContextType /\ "ldd" \in Kinds
    BY <2>2, ExecutableRpath DEF Kinds
  <2> HIDE DEF context
  <2>5. Gathers(w)
    BY <2>1, <2>4, BeginGathers
  <2> HIDE DEF w
  <2> QED BY <2>3, <2>5, BecomesGathers
<1> QED BY <1>1, <1>2, <1>3

LEMMA StepGathers == IInv /\ AllGather /\ [Next]_vars => AllGather'
<1> SUFFICES ASSUME IInv, AllGather, [Next]_vars PROVE AllGather'
  OBVIOUS
<1>1. CASE Next
  <2>1. PICK t \in Threads :
           \/ Walking(t)
           \/ dlopen(t)
           \/ \E program \in Programs : execve(t, program)
           \/ \E program \in Listed : ldd(t, program)
    BY <1>1 DEF Next
  <2>2. CASE Walking(t)
    <3>1. CASE Executed(t)
      <4>1. Abandon(t) \/ walk' = [u \in Threads |-> NULL]
        BY <3>1 DEF Executed
      <4> QED BY <4>1, AbandonGathers DEF AllGather
    <3>2. CASE Printed(t)
      BY <3>2, AbandonGathers DEF Printed
    <3> QED BY <2>2, <3>1, <3>2, PreloadGathers, LddGathers, BackGathers, DlopenGathers DEF Walking
  <2>3. CASE ~Walking(t)
    BY <2>1, <2>3, CallsGather
  <2> QED BY <2>2, <2>3
<1>2. CASE UNCHANGED vars
  BY <1>2 DEF vars, AllGather
<1> QED BY <1>1, <1>2

(***************************************************************************)
(* The list to preload, and that of ldd, is the least set of files that    *)
(* has what the program and each file in it need, each file once, whenever *)
(* the walk of __ldso_preload_needed() or of                               *)
(* __ld_trace_loader_objects_needed() ends: for an exec through whatever   *)
(* cycles, and for ldd if it ends at all.                                  *)
(***************************************************************************)
THEOREM CompleteLists == Spec => []ListsComplete
<1>1. Init => AllGather
  BY DEF Init, AllGather
<1>2. IInv /\ AllGather => ListsComplete
  <2> SUFFICES ASSUME IInv, AllGather, NEW t \in Threads, NEW kind \in {"preload", "ldd"},
                      Ended(t, kind)
               PROVE  /\ Range(walk[t].list)
                            = Closure(Top(walk[t]).path, Finds(kind, Top(walk[t]).context))
                      /\ IsInjective(walk[t].list)
    BY DEF ListsComplete
  <2> DEFINE w == walk[t]
  <2>1. /\ WalkTyped(w) /\ Gathers(w) /\ w.kind = kind /\ Len(w.stack) = 1
        /\ Top(w).left = <<>>
    BY DEF Ended, GoesBack, IInv, WalkHolds, AllGather, Lists
  <2> HIDE DEF w
  <2>2. Range(w.list) = Closure(Top(w).path, Finds(w.kind, Top(w).context))
    BY <2>1, GatheredAll
  <2> QED BY <2>1, <2>2 DEF Gathers, w
<1> QED BY <1>1, <1>2, InitHolds, StepHolds, StepGathers, PTL DEF Spec
=============================================================================
