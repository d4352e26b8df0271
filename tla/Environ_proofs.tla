---------------------------- MODULE Environ_proofs ----------------------------
(***************************************************************************)
(* Theorems about Environ and Credentials: the types, the ownership of the *)
(* strings of setenv(), and that the environment is the map of EnvMap.     *)
(***************************************************************************)
EXTENDS Credentials, Lists_proofs, SequenceTheorems

\* Strings environ(7) may point to, and the environments of them.
Placed   == Heap \cup [name : Names, value : Values]
Environs == [environ : Seq(Placed), heap : [Heap -> Texts], env_alloced : SUBSET Heap]

LEMMA EnvTyped == EnvironTypeOK <=> Env \in Environs /\ reset \in BOOLEAN
BY DEF EnvironTypeOK, Env, Environs, Placed

LEMMA FreedTyped == Freed \in Texts /\ Freed.name = "" /\ Freed.value = NULL /\ ~Freed.live
BY DEF Freed, Texts

(***************************************************************************)
(* A string in the heap reads as the heap has it, another one as itself.   *)
(***************************************************************************)
LEMMA TextRead ==
    ASSUME NEW e \in Environs, NEW s \in Placed
    PROVE  /\ s \in Heap => Text(e, s) = e.heap[s] /\ Text(e, s) \in Texts
           /\ s \notin Heap => Text(e, s) = s /\ s \in [name : Names, value : Values]
           /\ Text(e, s).name \in Names => Text(e, s).value \in Values
<1>1. e.heap \in [Heap -> Texts]
  BY DEF Environs
<1>2. CASE s \in Heap
  <2>1. Text(e, s) = e.heap[s] /\ e.heap[s] \in Texts
    BY <1>1, <1>2 DEF Text
  <2>2. e.heap[s].name \in Names => e.heap[s].value \in Values
    <3>1. e.heap[s] \in [name : Names, value : Values, live : BOOLEAN] \/ e.heap[s] = Freed
      BY <2>1 DEF Texts
    <3>2. Freed.name \notin Names
      BY FreedTyped, EnvironAssumption
    <3> QED BY <3>1, <3>2
  <2> QED BY <1>2, <2>1, <2>2
<1>3. CASE s \notin Heap
  <2>1. Text(e, s) = s /\ s \in [name : Names, value : Values]
    BY <1>3 DEF Text, Placed
  <2> QED BY <1>3, <2>1
<1> QED BY <1>2, <1>3

(***************************************************************************)
(* The first of some places is one of them, and none is before it.         *)
(***************************************************************************)
LEMMA FirstIs ==
    ASSUME NEW T \in SUBSET Nat, T # {}
    PROVE  First(T) \in T /\ \A j \in T : First(T) <= j
<1>1. \E i \in T : \A j \in T : i <= j
  BY Least
<1> QED BY <1>1 DEF First

LEMMA FirstUnique ==
    ASSUME NEW T \in SUBSET Nat, NEW i \in T, \A j \in T : i <= j
    PROVE  First(T) = i
<1>1. First(T) \in T /\ First(T) <= i
  BY FirstIs
<1>2. First(T) \in Nat /\ i \in Nat /\ i <= First(T)
  BY <1>1
<1> QED BY <1>1, <1>2

LEMMA LiveChanged ==
    ASSUME NEW A, NEW B, NEW x \in [name : A, value : B, live : BOOLEAN],
           NEW live \in BOOLEAN
    PROVE  [x EXCEPT !.live = live] = [name |-> x.name, value |-> x.value, live |-> live]
OBVIOUS

(***************************************************************************)
(* free() changes the strings it is given and no other.                    *)
(***************************************************************************)
LEMMA FreeIs ==
    \A e \in Environs : \A S, wiped :
        /\ free(e, S, wiped) \in Environs
        /\ free(e, S, wiped).environ = e.environ
        /\ free(e, S, wiped).env_alloced = e.env_alloced
        /\ \A s \in Heap \ S : free(e, S, wiped).heap[s] = e.heap[s]
<1> TAKE e \in Environs
<1> TAKE S, wiped
<1> DEFINE text(s) == IF s \notin S THEN e.heap[s]
                      ELSE IF s \in wiped THEN Freed ELSE [e.heap[s] EXCEPT !.live = FALSE]
           h == [s \in Heap |-> text(s)]
<1>1. /\ e \in [environ : Seq(Placed), heap : [Heap -> Texts], env_alloced : SUBSET Heap]
      /\ e.environ \in Seq(Placed) /\ e.heap \in [Heap -> Texts]
      /\ e.env_alloced \in SUBSET Heap
  BY DEF Environs
<1>2. ASSUME NEW s \in Heap
      PROVE  text(s) \in Texts
  <2>1. e.heap[s] \in Texts
    BY <1>1
  <2> DEFINE x == e.heap[s]
             y == [x EXCEPT !.live = FALSE]
  <2>2. y \in Texts
    <3> HIDE DEF x
    <3>1. CASE x \in [name : Names, value : Values, live : BOOLEAN]
      BY <3>1 DEF Texts
    <3>2. CASE x = Freed
      <4>1. x \in [name : {""}, value : {NULL}, live : BOOLEAN]
        BY <3>2 DEF Freed
      <4>2. y = [name |-> x.name, value |-> x.value, live |-> FALSE]
        BY <4>1, LiveChanged
      <4>3. y = Freed
        BY <4>1, <4>2 DEF Freed
      <4> QED BY <3>2, <4>3, FreedTyped
    <3> QED BY <2>1, <3>1, <3>2 DEF Texts, x
  <2> HIDE DEF y
  <2>3. text(s) = IF s \notin S THEN x ELSE IF s \in wiped THEN Freed ELSE y
    BY DEF y
  <2> QED BY <2>1, <2>2, <2>3, FreedTyped
<1>3. h \in [Heap -> Texts]
  BY <1>2
<1>4. free(e, S, wiped) = [e EXCEPT !.heap = h]
  BY DEF free
<1> HIDE DEF text
<1>5. \A s \in Heap : h[s] = text(s)
  OBVIOUS
<1> HIDE DEF h
<1>6. [e EXCEPT !.heap = h] = [environ |-> e.environ, heap |-> h, env_alloced |-> e.env_alloced]
  BY <1>1
<1> DEFINE g == [environ |-> e.environ, heap |-> h, env_alloced |-> e.env_alloced]
<1>7. g.environ = e.environ /\ g.heap = h /\ g.env_alloced = e.env_alloced /\ g \in Environs
  BY <1>1, <1>3 DEF Environs
<1>8. free(e, S, wiped) = g
  BY <1>4, <1>6
<1> HIDE DEF g
<1>9. \A s \in Heap \ S : h[s] = e.heap[s]
  BY <1>5 DEF text
<1> QED BY <1>5, <1>7, <1>8, <1>9

\* The name of a freed string is the one it had, or none.
Fades(text, old) == text.name = "" \/ text.name = old.name

LEMMA FreeFades ==
    \A e \in Environs : \A S, wiped : \A s \in Heap :
        Fades(free(e, S, wiped).heap[s], e.heap[s])
<1> TAKE e \in Environs
<1> TAKE S, wiped
<1> TAKE s \in Heap
<1> DEFINE x == e.heap[s]
<1>1. e.heap[s] \in Texts
  BY DEF Environs
<1>2. [x EXCEPT !.live = FALSE].name = x.name
  BY <1>1 DEF Texts, Freed
<1>3. free(e, S, wiped).heap
      = [r \in Heap |-> IF r \notin S THEN e.heap[r] ELSE
            IF r \in wiped THEN Freed ELSE [e.heap[r] EXCEPT !.live = FALSE]]
  BY DEF free, Environs
<1> HIDE DEF x
<1>4. free(e, S, wiped).heap[s]
      = IF s \notin S THEN x ELSE IF s \in wiped THEN Freed ELSE [x EXCEPT !.live = FALSE]
  BY <1>3 DEF x
<1> QED BY <1>2, <1>4, FreedTyped DEF x, Fades

(***************************************************************************)
(* The fields of an environment, one of them changed.                      *)
(***************************************************************************)
LEMMA EnvironChanged ==
    ASSUME NEW e \in Environs, NEW q \in Seq(Placed)
    PROVE  LET d == [e EXCEPT !.environ = q]
           IN  /\ d \in Environs
               /\ d.environ = q /\ d.heap = e.heap /\ d.env_alloced = e.env_alloced
BY DEF Environs

LEMMA HeapChanged ==
    ASSUME NEW e \in Environs, NEW h \in [Heap -> Texts]
    PROVE  LET d == [e EXCEPT !.heap = h]
           IN  /\ d \in Environs
               /\ d.environ = e.environ /\ d.heap = h /\ d.env_alloced = e.env_alloced
BY DEF Environs

LEMMA AllocedChanged ==
    ASSUME NEW e \in Environs, NEW a \in SUBSET Heap
    PROVE  LET d == [e EXCEPT !.env_alloced = a]
           IN  /\ d \in Environs
               /\ d.environ = e.environ /\ d.heap = e.heap /\ d.env_alloced = a
BY DEF Environs

LEMMA FieldsTyped ==
    ASSUME NEW e \in Environs
    PROVE  /\ e.environ \in Seq(Placed) /\ e.heap \in [Heap -> Texts]
           /\ e.env_alloced \in SUBSET Heap
BY DEF Environs

(***************************************************************************)
(* __env_rm_add() frees the old string if it was remembered, and remembers *)
(* no more than the new one.                                               *)
(***************************************************************************)
LEMMA RmAddIs ==
    \A e \in Environs, new \in Heap \cup {NULL} : \A old, failure, wiped :
        /\ __env_rm_add(e, old, new, failure, wiped) \in Environs
        /\ __env_rm_add(e, old, new, failure, wiped).environ = e.environ
        /\ \A s \in Heap \ ({old} \cap e.env_alloced) :
              __env_rm_add(e, old, new, failure, wiped).heap[s] = e.heap[s]
        /\ \A s \in Heap : Fades(__env_rm_add(e, old, new, failure, wiped).heap[s], e.heap[s])
        /\ __env_rm_add(e, old, new, failure, wiped).env_alloced
           \subseteq (e.env_alloced \ {old}) \cup ({new} \ {NULL})
<1> TAKE e \in Environs, new \in Heap \cup {NULL}
<1> TAKE old, failure, wiped
<1> DEFINE f == free(e, {old} \cap e.env_alloced, wiped)
           a == (e.env_alloced \ {old}) \cup
                (IF failure = "env_alloced" /\ old \notin e.env_alloced THEN {}
                 ELSE {new} \ {NULL})
<1>1. f \in Environs /\ f.environ = e.environ /\ f.env_alloced = e.env_alloced
  BY FreeIs
<1>f. /\ \A s \in Heap \ ({old} \cap e.env_alloced) : f.heap[s] = e.heap[s]
      /\ \A s \in Heap : Fades(f.heap[s], e.heap[s])
  BY FreeIs, FreeFades
<1>2. e.env_alloced \in SUBSET Heap
  BY FieldsTyped
<1>3. a \in SUBSET Heap /\ a \subseteq (e.env_alloced \ {old}) \cup ({new} \ {NULL})
  BY <1>2
<1>4. __env_rm_add(e, old, new, failure, wiped) = [f EXCEPT !.env_alloced = a]
  BY <1>1 DEF __env_rm_add
<1> HIDE DEF f, a
<1>5. LET d == [f EXCEPT !.env_alloced = a]
      IN  d \in Environs /\ d.environ = f.environ /\ d.heap = f.heap /\ d.env_alloced = a
  BY <1>1, <1>3, AllocedChanged
<1> QED BY <1>1, <1>3, <1>4, <1>5, <1>f

LEMMA RemoveAllIs ==
    \A e \in Environs : \A strings, wiped :
        /\ RemoveAll(e, strings, wiped) \in Environs
        /\ RemoveAll(e, strings, wiped).environ = e.environ
        /\ \A s \in Heap \ (strings \cap e.env_alloced) :
              RemoveAll(e, strings, wiped).heap[s] = e.heap[s]
        /\ \A s \in Heap : Fades(RemoveAll(e, strings, wiped).heap[s], e.heap[s])
        /\ RemoveAll(e, strings, wiped).env_alloced = e.env_alloced \ strings
<1> TAKE e \in Environs
<1> TAKE strings, wiped
<1> DEFINE f == free(e, strings \cap e.env_alloced, wiped)
           a == e.env_alloced \ strings
<1>1. f \in Environs /\ f.environ = e.environ /\ f.env_alloced = e.env_alloced
  BY FreeIs
<1>f. /\ \A s \in Heap \ (strings \cap e.env_alloced) : f.heap[s] = e.heap[s]
      /\ \A s \in Heap : Fades(f.heap[s], e.heap[s])
  BY FreeIs, FreeFades
<1>2. a \in SUBSET Heap
  BY FieldsTyped
<1>3. RemoveAll(e, strings, wiped) = [f EXCEPT !.env_alloced = a]
  BY <1>1 DEF RemoveAll
<1> HIDE DEF f, a
<1>4. LET d == [f EXCEPT !.env_alloced = a]
      IN  d \in Environs /\ d.environ = f.environ /\ d.heap = f.heap /\ d.env_alloced = a
  BY <1>1, <1>2, AllocedChanged
<1> QED BY <1>1, <1>3, <1>4, <1>f DEF a

LEMMA MatchesArePlaces ==
    ASSUME NEW e \in Environs, NEW name
    PROVE  /\ Matches(e, name) \subseteq 1..Len(e.environ)
           /\ Matches(e, name) \in SUBSET Nat
BY FieldsTyped DEF Matches

(***************************************************************************)
(* __putenv() gives the string the place of the first one of its name, or  *)
(* a place at the end, or frees what was allocated for it.                 *)
(***************************************************************************)
Puts(e, d, s, r, places) ==
    LET old == IF places = {} THEN NULL ELSE e.environ[First(places)]
    IN  /\ d \in Environs
        /\ d.environ = IF places = {} THEN Append(e.environ, s)
                       ELSE [e.environ EXCEPT ![First(places)] = s]
        /\ \A x \in Heap \ ({old} \cap e.env_alloced) : d.heap[x] = e.heap[x]
        /\ \A x \in Heap : Fades(d.heap[x], e.heap[x])
        /\ d.env_alloced \subseteq (e.env_alloced \ {old}) \cup ({r} \ {NULL})

LEMMA PutenvPuts ==
    ASSUME NEW e \in Environs, NEW s \in Placed, NEW r \in Heap \cup {NULL}, NEW failure,
           Matches(e, Text(e, s).name) # {} \/ failure # "environ"
    PROVE  Puts(e, __putenv(e, s, r, failure), s, r, Matches(e, Text(e, s).name))
<1> DEFINE places == Matches(e, Text(e, s).name)
           old    == IF places = {} THEN NULL ELSE e.environ[First(places)]
           q      == IF places = {} THEN Append(e.environ, s)
                     ELSE [e.environ EXCEPT ![First(places)] = s]
           c      == [e EXCEPT !.environ = q]
           d      == __env_rm_add(c, old, r, failure, Heap)
<1>1. e.environ \in Seq(Placed) /\ places \in SUBSET Nat /\ places \subseteq 1..Len(e.environ)
  BY FieldsTyped, MatchesArePlaces
<1>2. q \in Seq(Placed)
  <2>1. CASE places = {}
    BY <1>1, <2>1
  <2>2. CASE places # {}
    <3>1. First(places) \in 1..Len(e.environ)
      BY <1>1, <2>2, FirstIs
    <3> HIDE DEF places
    <3>2. [e.environ EXCEPT ![First(places)] = s] \in Seq(Placed)
      BY <1>1, <3>1, ExceptSeq
    <3> QED BY <2>2, <3>2
  <2> QED BY <2>1, <2>2
<1>3. __putenv(e, s, r, failure) = d
  <2>1. CASE places = {}
    BY <2>1 DEF __putenv
  <2>2. CASE places # {}
    <3>1. c = [e EXCEPT !.environ[First(places)] = s]
      BY <2>2
    <3>2. __putenv(e, s, r, failure)
          = __env_rm_add([e EXCEPT !.environ[First(places)] = s],
                         e.environ[First(places)], r, failure, Heap)
      BY <2>2 DEF __putenv
    <3> HIDE DEF c, places
    <3> QED BY <2>2, <3>1, <3>2
  <2> QED BY <2>1, <2>2
<1> HIDE DEF places, q
<1>4. c \in Environs /\ c.environ = q /\ c.heap = e.heap /\ c.env_alloced = e.env_alloced
  BY <1>2, EnvironChanged
<1> HIDE DEF c, old
<1>5. d \in Environs /\ d.environ = c.environ
  BY <1>4, RmAddIs
<1>6. d.env_alloced \subseteq (c.env_alloced \ {old}) \cup ({r} \ {NULL})
  BY <1>4, RmAddIs
<1>7. /\ \A x \in Heap \ ({old} \cap c.env_alloced) : d.heap[x] = c.heap[x]
      /\ \A x \in Heap : Fades(d.heap[x], c.heap[x])
  BY <1>4, RmAddIs
<1> HIDE DEF d
<1>8. Puts(e, d, s, r, places)
  BY <1>4, <1>5, <1>6, <1>7 DEF Puts, old, q
<1> QED BY <1>3, <1>8 DEF places

LEMMA PutenvFails ==
    ASSUME NEW e \in Environs, NEW s \in Placed, NEW r \in Heap \cup {NULL},
           Matches(e, Text(e, s).name) = {}
    PROVE  LET d == __putenv(e, s, r, "environ")
           IN  /\ d \in Environs
               /\ d.environ = e.environ /\ d.env_alloced = e.env_alloced
               /\ \A x \in Heap \ {r} : d.heap[x] = e.heap[x]
<1>1. __putenv(e, s, r, "environ") = free(e, {r}, Heap)
  BY DEF __putenv
<1> QED BY <1>1, FreeIs

(***************************************************************************)
(* The strings of a name are removed, and no other.                        *)
(***************************************************************************)
Gone(e, name) == {s \in ToSet(e.environ) : Text(e, s).name = name}

LEMMA UnsetenvRemoves ==
    ASSUME NEW e \in Environs, NEW name
    PROVE  LET d == _unsetenv(e, name)
               left == ToSet(e.environ) \ Gone(e, name)
           IN  /\ d \in Environs
               /\ \E h : Picks(d.environ, e.environ, Len(e.environ), left, h)
               /\ \A x \in Heap \ Gone(e, name) : d.heap[x] = e.heap[x]
               /\ d.env_alloced = e.env_alloced \ Gone(e, name)
<1> DEFINE gone == Gone(e, name)
           left == ToSet(e.environ) \ gone
           q    == Only(e.environ, left)
           c    == [e EXCEPT !.environ = q]
           d    == RemoveAll(c, gone, Heap)
<1>1. _unsetenv(e, name) = d
  BY DEF _unsetenv, Gone
<1> HIDE DEF gone
<1>2. q \in Seq(Placed) /\ \E h : Picks(q, e.environ, Len(e.environ), left, h)
  <2>1. e.environ \in Seq(Placed)
    BY FieldsTyped
  <2> HIDE DEF left
  <2> QED BY <2>1, OnlyPicks
<1> HIDE DEF q
<1>3. c \in Environs /\ c.environ = q /\ c.heap = e.heap /\ c.env_alloced = e.env_alloced
  BY <1>2, EnvironChanged
<1> HIDE DEF c
<1>4. d \in Environs /\ d.environ = c.environ
  BY <1>3, RemoveAllIs
<1>5. d.env_alloced = c.env_alloced \ gone
  BY <1>3, RemoveAllIs
<1>6. \A x \in Heap \ (gone \cap c.env_alloced) : d.heap[x] = c.heap[x]
  BY <1>3, RemoveAllIs
<1> HIDE DEF d
<1> QED BY <1>1, <1>2, <1>3, <1>4, <1>5, <1>6 DEF gone

(***************************************************************************)
(* The strings a program may give: one without "=" names a variable, any   *)
(* other may take a place in environ.                                      *)
(***************************************************************************)
Given == Strings \cup Placed

LEMMA GivenRead ==
    ASSUME NEW e \in Environs, NEW s \in Given
    PROVE  /\ s \in Strings => Text(e, s) = s
           /\ Text(e, s).value # NULL => s \in Placed
<1>1. CASE s \in Strings
  <2>1. s \in [name : Names, value : Values \cup {NULL}] /\ s \notin Heap
    BY <1>1, EnvironAssumption
  <2>2. s.value # NULL => s \in [name : Names, value : Values]
    BY <2>1
  <2> QED BY <2>1, <2>2 DEF Text, Placed
<1>2. CASE s \notin Strings
  BY <1>2 DEF Given
<1> QED BY <1>1, <1>2

LEMMA PutenvTyped ==
    ASSUME NEW e \in Environs, NEW s \in Placed, NEW r \in Heap \cup {NULL}, NEW failure
    PROVE  __putenv(e, s, r, failure) \in Environs
<1>1. CASE Matches(e, Text(e, s).name) # {} \/ failure # "environ"
  BY <1>1, PutenvPuts DEF Puts
<1>2. CASE Matches(e, Text(e, s).name) = {} /\ failure = "environ"
  BY <1>2, PutenvFails
<1> QED BY <1>1, <1>2

LEMMA GivenPut ==
    ASSUME NEW e \in Environs, NEW s \in Given, NEW failure
    PROVE  _putenv(e, s, failure) \in Environs
<1>1. CASE Text(e, s).value = NULL
  BY <1>1, UnsetenvRemoves DEF _putenv
<1>2. CASE Text(e, s).value # NULL
  <2>1. s \in Placed
    BY <1>2, GivenRead
  <2> QED BY <1>2, <2>1, PutenvTyped DEF _putenv
<1> QED BY <1>1, <1>2

(***************************************************************************)
(* PutAll() puts the strings one after the other.                          *)
(***************************************************************************)
At(lacking, i) == IF i \in lacking THEN "environ" ELSE ""

Putting(f, e, envp, lacking) ==
    /\ f[0] = e
    /\ \A i \in 1..Len(envp) : f[i] = _putenv(f[i - 1], envp[i], At(lacking, i))
    /\ PutAll(e, envp, lacking) = f[Len(envp)]

LEMMA PutAllIsRecursive ==
    ASSUME NEW e \in Environs, NEW envp \in Seq(Given), NEW lacking
    PROVE  \E f \in [0..Len(envp) -> Environs] : Putting(f, e, envp, lacking)
<1> DEFINE step == [i \in 1..Len(envp) |-> [d \in Environs |-> _putenv(d, envp[i], At(lacking, i))]]
           F(f) == [i \in 0..Len(envp) |->
                       IF i = 0 THEN e ELSE _putenv(f[i - 1], envp[i], At(lacking, i))]
<1>1. Len(envp) \in Nat /\ \A i \in 1..Len(envp) : envp[i] \in Given
  OBVIOUS
<1>2. step \in [1..Len(envp) -> [Environs -> Environs]]
  BY <1>1, GivenPut
<1>3. PICK f \in [0..Len(envp) -> Environs] : Steps(f, Len(envp), e, step)
  <2>1. \A n, T, a, g :
           n \in Nat /\ a \in T /\ g \in [1..n -> [T -> T]]
           => \E f \in [0..n -> T] : Steps(f, n, a, g)
    BY Recursion
  <2> HIDE DEF step
  <2> QED BY <1>1, <1>2, <2>1
<1>4. ASSUME NEW i \in 1..Len(envp) PROVE f[i] = _putenv(f[i - 1], envp[i], At(lacking, i))
  <2>1. i - 1 \in 0..Len(envp)
    BY <1>1
  <2>2. f[i - 1] \in Environs
    BY <2>1
  <2>3. step[i][f[i - 1]] = _putenv(f[i - 1], envp[i], At(lacking, i))
    BY <2>2
  <2> QED BY <1>3, <2>3 DEF Steps
<1>5. f[0] = e
  BY <1>3 DEF Steps
<1> HIDE DEF step
<1>6. f = F(f)
  BY <1>1, <1>4, <1>5
<1> DEFINE after == CHOOSE g : g = F(g)
<1>7. after = F(after)
  BY <1>6
<1>8. PutAll(e, envp, lacking) = after[Len(envp)]
  BY DEF PutAll, At
<1> HIDE DEF after
<1>9. ASSUME NEW i \in 0..Len(envp) PROVE after[i] = f[i]
  <2> DEFINE T == {m \in Nat : m <= Len(envp) => after[m] = f[m]}
  <2>1. 0 \in T
    BY <1>1, <1>5, <1>7
  <2>2. ASSUME NEW m \in Nat, m \in T PROVE m + 1 \in T
    BY <1>1, <1>4, <1>7, <2>2
  <2> HIDE DEF T
  <2>3. Nat \subseteq T
    BY <2>1, <2>2, Induction
  <2> QED BY <1>1, <2>3 DEF T
<1>10. PutAll(e, envp, lacking) = f[Len(envp)]
  BY <1>1, <1>8, <1>9
<1> QED BY <1>4, <1>5, <1>10 DEF Putting

LEMMA PutAllTyped ==
    ASSUME NEW e \in Environs, NEW envp \in Seq(Given), NEW lacking
    PROVE  PutAll(e, envp, lacking) \in Environs
<1>1. PICK f \in [0..Len(envp) -> Environs] : Putting(f, e, envp, lacking)
  BY PutAllIsRecursive
<1>2. Len(envp) \in 0..Len(envp)
  OBVIOUS
<1> QED BY <1>1, <1>2 DEF Putting

LEMMA ClearenvIs ==
    ASSUME NEW e \in Environs
    PROVE  /\ _clearenv(e) \in Environs
           /\ _clearenv(e).environ = <<>>
           /\ _clearenv(e).env_alloced = e.env_alloced \ ToSet(e.environ)
<1> DEFINE c == [e EXCEPT !.environ = <<>>]
<1>1. <<>> \in Seq(Placed)
  OBVIOUS
<1>2. c \in Environs /\ c.environ = <<>> /\ c.heap = e.heap /\ c.env_alloced = e.env_alloced
  BY <1>1, EnvironChanged
<1> HIDE DEF c
<1>3. _clearenv(e) = RemoveAll(c, ToSet(e.environ), Heap)
  BY DEF _clearenv, c
<1> QED BY <1>2, <1>3, RemoveAllIs

(***************************************************************************)
(* A new image has the texts of the strings that have a value, in their    *)
(* order, and nothing in the heap.                                         *)
(***************************************************************************)
ReadAs(e, i) == [name  |-> Text(e, e.environ[i]).name, value |-> Text(e, e.environ[i]).value]

LEMMA ImageIs ==
    ASSUME NEW e \in Environs
    PROVE  LET texts == [i \in 1..Len(e.environ) |-> ReadAs(e, i)]
               kept  == {t \in ToSet(texts) : t.value # NULL}
           IN  /\ Image(e) \in Environs
               /\ Image(e).environ \in Seq([name : Names, value : Values])
               /\ Image(e).env_alloced = {}
               /\ \E h : Picks(Image(e).environ, texts, Len(e.environ), kept, h)
<1> DEFINE texts == [i \in 1..Len(e.environ) |-> ReadAs(e, i)]
           kept  == {t \in ToSet(texts) : t.value # NULL}
           q     == Only(texts, kept)
           D     == [name : Names, value : Values]
           h0    == [s \in Heap |-> Freed]
<1>1. e.environ \in Seq(Placed) /\ Len(e.environ) \in Nat
  BY FieldsTyped
<1>2. DOMAIN e.environ = 1..Len(e.environ)
  BY <1>1
<1>3. ASSUME NEW i \in 1..Len(e.environ)
      PROVE  ReadAs(e, i) \in D \/ ReadAs(e, i).value = NULL
  <2>1. e.environ[i] \in Placed
    BY <1>1
  <2>2. Text(e, e.environ[i]) \in Texts \/ Text(e, e.environ[i]) \in D
    BY <2>1, TextRead
  <2>3. CASE Text(e, e.environ[i]) \in D
    BY <2>3 DEF ReadAs
  <2>4. CASE Text(e, e.environ[i]) = Freed
    BY <2>4, FreedTyped DEF ReadAs
  <2>5. CASE Text(e, e.environ[i]) \in [name : Names, value : Values, live : BOOLEAN]
    BY <2>5 DEF ReadAs
  <2> QED BY <2>2, <2>3, <2>4, <2>5 DEF Texts
<1>4. texts \in Seq(ToSet(texts)) /\ Len(texts) = Len(e.environ)
      /\ \A i \in 1..Len(e.environ) : texts[i] = ReadAs(e, i)
  <2>1. \A i \in 1..Len(e.environ) : texts[i] \in ToSet(texts)
    BY DEF ToSet
  <2> QED BY <1>1, <2>1
<1>5. Image(e) = [environ |-> q, heap |-> h0, env_alloced |-> {}]
  BY <1>2 DEF Image, ReadAs
<1>6. \A t \in ToSet(texts) : \E i \in 1..Len(e.environ) : t = ReadAs(e, i)
  BY DEF ToSet
<1>7. kept \subseteq D
  BY <1>3, <1>6
<1> HIDE DEF texts, kept
<1>8. q \in Seq(ToSet(texts)) /\ \E h : Picks(q, texts, Len(texts), kept, h)
  BY <1>4, OnlyPicks
<1> HIDE DEF q
<1>9. q \in Seq(D)
  <2>1. PICK h : Picks(q, texts, Len(texts), kept, h)
    BY <1>8
  <2>2. \A i \in 1..Len(q) : q[i] \in D
    BY <1>7, <2>1 DEF Picks
  <2>3. Len(q) \in Nat /\ q \in [1..Len(q) -> ToSet(texts)]
    BY <1>8
  <2>4. q \in [1..Len(q) -> D]
    BY <2>2, <2>3
  <2> HIDE DEF D
  <2> QED BY <2>3, <2>4, SeqDef
<1>10. q \in Seq(Placed)
  BY <1>9, SeqMonotonic DEF Placed
<1>11. h0 \in [Heap -> Texts]
  BY FreedTyped
<1> HIDE DEF h0
<1>12. Image(e) \in Environs /\ Image(e).environ = q /\ Image(e).env_alloced = {}
  BY <1>5, <1>10, <1>11 DEF Environs
<1> QED BY <1>4, <1>8, <1>9, <1>12 DEF texts, kept

LEMMA ResetenvTyped ==
    ASSUME NEW e \in Environs, NEW envp \in Seq(Given), NEW wiped, NEW lacking
    PROVE  _resetenv(e, envp, wiped, lacking) \in Environs
BY RemoveAllIs, PutAllTyped DEF _resetenv

(***************************************************************************)
(* getenv() reads the first string of the name.                            *)
(***************************************************************************)
LEMMA GetenvFirst ==
    ASSUME NEW e \in Environs, NEW name, NEW i \in Matches(e, name),
           \A j \in Matches(e, name) : i <= j
    PROVE  getenv(e, name) = Text(e, e.environ[i]).value
<1>1. First(Matches(e, name)) = i
  BY MatchesArePlaces, FirstUnique
<1> QED BY <1>1 DEF getenv

LEMMA GetenvIs ==
    ASSUME NEW e \in Environs, NEW name
    PROVE  \/ Matches(e, name) = {} /\ getenv(e, name) = NULL
           \/ \E i \in Matches(e, name) :
                 /\ \A j \in Matches(e, name) : i <= j
                 /\ getenv(e, name) = Text(e, e.environ[i]).value
<1>1. CASE Matches(e, name) = {}
  BY <1>1 DEF getenv
<1>2. CASE Matches(e, name) # {}
  <2>1. First(Matches(e, name)) \in Matches(e, name)
        /\ \A j \in Matches(e, name) : First(Matches(e, name)) <= j
    BY <1>2, MatchesArePlaces, FirstIs
  <2> QED BY <1>2, <2>1 DEF getenv
<1> QED BY <1>1, <1>2

LEMMA GetenvTyped ==
    ASSUME NEW e \in Environs, NEW name \in Names
    PROVE  getenv(e, name) \in Values \cup {NULL}
<1>1. ASSUME NEW i \in Matches(e, name) PROVE Text(e, e.environ[i]).value \in Values
  <2>1. e.environ[i] \in Placed /\ Text(e, e.environ[i]).name = name
    BY FieldsTyped, MatchesArePlaces DEF Matches
  <2> QED BY <2>1, TextRead
<1> QED BY <1>1, GetenvIs

\* Two environments with the same strings of a name at the same places.
LEMMA GetenvSame ==
    ASSUME NEW e \in Environs, NEW d \in Environs, NEW name,
           Matches(d, name) = Matches(e, name),
           \A i \in Matches(e, name) :
              Text(d, d.environ[i]).value = Text(e, e.environ[i]).value
    PROVE  getenv(d, name) = getenv(e, name)
<1>1. CASE Matches(e, name) = {}
  BY <1>1 DEF getenv
<1>2. CASE Matches(e, name) # {}
  <2>1. PICK i \in Matches(e, name) :
           /\ \A j \in Matches(e, name) : i <= j
           /\ getenv(e, name) = Text(e, e.environ[i]).value
    BY <1>2, GetenvIs
  <2>2. getenv(d, name) = Text(d, d.environ[i]).value
    BY <2>1, GetenvFirst
  <2> QED BY <2>1, <2>2
<1> QED BY <1>1, <1>2

\* One environment has some strings of the other, all those of the name included.
LEMMA GetenvPicked ==
    ASSUME NEW e \in Environs, NEW d \in Environs, NEW name,
           NEW h \in [1..Len(d.environ) -> 1..Len(e.environ)],
           \A i, j \in 1..Len(d.environ) : i < j => h[i] < h[j],
           \A i \in 1..Len(d.environ) :
              /\ Text(d, d.environ[i]).name = Text(e, e.environ[h[i]]).name
              /\ Text(d, d.environ[i]).value = Text(e, e.environ[h[i]]).value,
           \A j \in Matches(e, name) : \E i \in 1..Len(d.environ) : h[i] = j
    PROVE  getenv(d, name) = getenv(e, name)
<1>1. /\ Len(d.environ) \in Nat /\ Len(e.environ) \in Nat
      /\ DOMAIN d.environ = 1..Len(d.environ) /\ DOMAIN e.environ = 1..Len(e.environ)
  BY FieldsTyped
<1>2. \A i \in Matches(d, name) : i \in 1..Len(d.environ) /\ h[i] \in Matches(e, name)
  BY <1>1 DEF Matches
<1>3. CASE Matches(e, name) = {}
  <2>1. Matches(d, name) = {}
    BY <1>2, <1>3
  <2> QED BY <1>3, <2>1 DEF getenv
<1>4. CASE Matches(e, name) # {}
  <2>1. PICK j \in Matches(e, name) :
           /\ \A k \in Matches(e, name) : j <= k
           /\ getenv(e, name) = Text(e, e.environ[j]).value
    BY <1>4, GetenvIs
  <2>2. PICK i \in 1..Len(d.environ) : h[i] = j
    BY <2>1
  <2>3. i \in Matches(d, name)
    BY <1>1, <2>1, <2>2 DEF Matches
  <2>4. ASSUME NEW k \in Matches(d, name) PROVE i <= k
    <3>1. k \in 1..Len(d.environ) /\ h[k] \in Matches(e, name)
      BY <1>2
    <3>2. j <= h[k] /\ j \in 1..Len(e.environ) /\ h[k] \in 1..Len(e.environ)
      BY <2>1, <2>2, <3>1
    <3>3. ~(h[k] < h[i])
      BY <2>2, <3>2
    <3>4. ~(k < i)
      BY <3>1, <3>3
    <3> QED BY <1>1, <3>1, <3>4
  <2>5. getenv(d, name) = Text(d, d.environ[i]).value
    BY <2>3, <2>4, GetenvFirst
  <2> QED BY <2>1, <2>2, <2>5
<1> QED BY <1>3, <1>4

(***************************************************************************)
(* What the functions do to the map of names and values.                   *)
(***************************************************************************)
LEMMA PutGives ==
    ASSUME NEW e \in Environs, NEW d, NEW s \in Placed, NEW r,
           Text(e, s).name \in Names,
           Puts(e, d, s, r, Matches(e, Text(e, s).name)),
           Text(d, s) = Text(e, s)
    PROVE  GetMap(d) = [GetMap(e) EXCEPT ![Text(e, s).name] = Text(e, s).value]
<1> DEFINE name   == Text(e, s).name
           places == Matches(e, name)
           old    == IF places = {} THEN NULL ELSE e.environ[First(places)]
           at     == IF places = {} THEN Len(e.environ) + 1 ELSE First(places)
           n      == Len(e.environ)
<1>1. /\ n \in Nat /\ e.environ \in Seq(Placed)
      /\ DOMAIN e.environ = 1..n
      /\ places \subseteq 1..n
  BY FieldsTyped, MatchesArePlaces
<1>2. /\ places # {} => at \in places /\ \A j \in places : at <= j
      /\ places = {} => at = n + 1
      /\ at \in Nat
  <2>1. CASE places = {}
    BY <1>1, <2>1
  <2>2. CASE places # {}
    BY <1>1, <2>2, MatchesArePlaces, FirstIs
  <2> QED BY <2>1, <2>2
<1>3. /\ d \in Environs
      /\ d.environ = IF places = {} THEN Append(e.environ, s) ELSE [e.environ EXCEPT ![at] = s]
      /\ \A x \in Heap \ {old} : d.heap[x] = e.heap[x]
      /\ \A x \in Heap : Fades(d.heap[x], e.heap[x])
  BY DEF Puts
<1>4. /\ DOMAIN d.environ = 1..n \cup {at}
      /\ d.environ[at] = s
      /\ \A i \in 1..n : i # at => d.environ[i] = e.environ[i]
  <2> HIDE DEF places, at
  <2>1. CASE places = {}
    BY <1>1, <1>2, <1>3, <2>1
  <2>2. CASE places # {}
    BY <1>1, <1>2, <1>3, <2>2
  <2> QED BY <2>1, <2>2
<1>5. places # {} => old = e.environ[at] /\ Text(e, old).name = name
  BY <1>2 DEF Matches
<1>n. name \in Names /\ name # "" /\ NULL \notin Heap
  BY EnvironAssumption
<1>6. \A x \in Placed : x \notin Heap \/ x # old => Text(d, x) = Text(e, x)
  BY <1>3 DEF Text
<1>7. \A x \in Placed : Text(d, x).name \in {"", Text(e, x).name}
  BY <1>3 DEF Text, Fades
<1> HIDE DEF old, at, places, n
<1>8. \A i \in 1..n : e.environ[i] \in Placed
  BY <1>1
<1>9. getenv(d, name) = Text(e, s).value
  <2>1. at \in Matches(d, name)
    BY <1>4 DEF Matches
  <2>2. ASSUME NEW j \in Matches(d, name) PROVE at <= j
    <3>1. CASE places = {}
      <4>1. ASSUME j # at PROVE FALSE
        <5>1. j \in 1..n /\ d.environ[j] = e.environ[j] /\ Text(d, d.environ[j]).name = name
          BY <1>4, <4>1 DEF Matches
        <5>2. Text(e, e.environ[j]).name = name
          BY <1>7, <1>8, <1>n, <5>1
        <5>3. j \in places
          BY <1>1, <5>1, <5>2 DEF Matches, places
        <5> QED BY <3>1, <5>3
      <4> QED BY <1>2, <4>1
    <3>2. CASE places # {} /\ j # at
      <4>1. j \in 1..n /\ d.environ[j] = e.environ[j] /\ Text(d, d.environ[j]).name = name
        BY <1>1, <1>2, <1>4, <3>2 DEF Matches
      <4>2. Text(e, e.environ[j]).name = name
        BY <1>7, <1>8, <1>n, <4>1
      <4>3. j \in places
        BY <1>1, <4>1, <4>2 DEF Matches, places
      <4> QED BY <1>2, <3>2, <4>3
    <3>3. CASE j = at
      BY <1>2, <3>3
    <3> QED BY <3>1, <3>2, <3>3
  <2>3. getenv(d, name) = Text(d, d.environ[at]).value
    <3> HIDE DEF name
    <3>1. d \in Environs
      BY <1>3
    <3> QED BY <2>1, <2>2, <3>1, GetenvFirst
  <2> QED BY <1>4, <2>3
<1>10. ASSUME NEW m \in Names, m # name PROVE getenv(d, m) = getenv(e, m)
  <2>m. m # ""
    BY EnvironAssumption
  <2>1. ASSUME NEW i \in Matches(e, m)
        PROVE  i \in Matches(d, m) /\ Text(d, d.environ[i]).value = Text(e, e.environ[i]).value
    <3>1. i \in 1..n /\ Text(e, e.environ[i]).name = m
      BY <1>1 DEF Matches
    <3>2. i # at
      <4>1. at \in 1..n => at \in places
        BY <1>1, <1>2
      <4>2. at \in places => Text(e, e.environ[at]).name = name
        BY DEF places, Matches
      <4> QED BY <1>10, <3>1, <4>1, <4>2
    <3>3. e.environ[i] \notin Heap \/ e.environ[i] # old
      <4>1. CASE places = {}
        BY <1>n, <4>1 DEF old
      <4>2. CASE places # {}
        BY <1>5, <1>10, <3>1, <4>2
      <4> QED BY <4>1, <4>2
    <3> QED BY <1>4, <1>6, <1>8, <3>1, <3>2, <3>3 DEF Matches
  <2>2. ASSUME NEW i \in Matches(d, m) PROVE i \in Matches(e, m)
    <3>1. i \in 1..n \cup {at} /\ Text(d, d.environ[i]).name = m
      BY <1>4 DEF Matches
    <3>2. i # at
      BY <1>4, <1>10, <3>1
    <3>3. i \in 1..n /\ d.environ[i] = e.environ[i]
      BY <1>4, <3>1, <3>2
    <3>4. Text(e, e.environ[i]).name = m
      BY <1>7, <1>8, <2>m, <3>1, <3>3
    <3> QED BY <1>1, <3>3, <3>4 DEF Matches
  <2>3. Matches(d, m) = Matches(e, m)
    BY <2>1, <2>2
  <2> QED BY <1>3, <2>1, <2>3, GetenvSame
<1> QED BY <1>9, <1>10, <1>n DEF GetMap

LEMMA UnsetGives ==
    ASSUME NEW e \in Environs, NEW name
    PROVE  /\ \A m \in Names : m # name => getenv(_unsetenv(e, name), m) = getenv(e, m)
           /\ getenv(_unsetenv(e, name), name) = NULL
<1> DEFINE d    == _unsetenv(e, name)
           gone == Gone(e, name)
           left == ToSet(e.environ) \ gone
           n    == Len(e.environ)
<1>1. /\ n \in Nat /\ DOMAIN e.environ = 1..n
      /\ \A i \in 1..n : e.environ[i] \in Placed /\ e.environ[i] \in ToSet(e.environ)
  BY FieldsTyped DEF ToSet
<1>2. /\ d \in Environs
      /\ \A x \in Heap \ gone : d.heap[x] = e.heap[x]
  BY UnsetenvRemoves
<1>3. PICK h : Picks(d.environ, e.environ, n, left, h)
  BY UnsetenvRemoves
<1> HIDE DEF d
<1>4. /\ h \in [1..Len(d.environ) -> 1..n]
      /\ \A i, j \in 1..Len(d.environ) : i < j => h[i] < h[j]
      /\ \A i \in 1..Len(d.environ) : d.environ[i] = e.environ[h[i]] /\ e.environ[h[i]] \in left
      /\ \A j \in 1..n : e.environ[j] \in left => \E i \in 1..Len(d.environ) : h[i] = j
  BY <1>3 DEF Picks
<1>5. \A x \in left : Text(d, x) = Text(e, x) /\ Text(e, x).name # name
  BY <1>2 DEF Text, Gone
<1>6. \A i \in 1..Len(d.environ) : Text(d, d.environ[i]) = Text(e, e.environ[h[i]])
                                   /\ Text(d, d.environ[i]).name # name
  BY <1>4, <1>5
<1>7. ASSUME NEW m \in Names, m # name PROVE getenv(d, m) = getenv(e, m)
  <2>1. ASSUME NEW j \in Matches(e, m) PROVE \E i \in 1..Len(d.environ) : h[i] = j
    <3>1. j \in 1..n /\ Text(e, e.environ[j]).name = m
      BY <1>1 DEF Matches
    <3>2. e.environ[j] \in left
      BY <1>1, <1>7, <3>1 DEF Gone
    <3> QED BY <1>4, <3>1, <3>2
  <2>2. /\ h \in [1..Len(d.environ) -> 1..Len(e.environ)]
        /\ \A i \in 1..Len(d.environ) :
              /\ Text(d, d.environ[i]).name = Text(e, e.environ[h[i]]).name
              /\ Text(d, d.environ[i]).value = Text(e, e.environ[h[i]]).value
    BY <1>4, <1>6
  <2>3. \A i, j \in 1..Len(d.environ) : i < j => h[i] < h[j]
    BY <1>4
  <2> HIDE DEF left, n
  <2> QED BY <1>2, <2>1, <2>2, <2>3, GetenvPicked
<1>8. getenv(d, name) = NULL
  <2>1. DOMAIN d.environ = 1..Len(d.environ)
    BY <1>2, FieldsTyped
  <2>2. Matches(d, name) = {}
    BY <1>6, <2>1 DEF Matches
  <2> QED BY <2>2 DEF getenv
<1> QED BY <1>7, <1>8 DEF d

LEMMA UnsetMap ==
    ASSUME NEW e \in Environs, NEW name \in Names
    PROVE  GetMap(_unsetenv(e, name)) = [GetMap(e) EXCEPT ![name] = NULL]
BY UnsetGives DEF GetMap

LEMMA ClearMap ==
    ASSUME NEW e \in Environs
    PROVE  GetMap(_clearenv(e)) = [name \in Names |-> NULL]
<1> DEFINE d == _clearenv(e)
<1>1. d \in Environs /\ d.environ = <<>>
  BY ClearenvIs
<1> HIDE DEF d
<1>2. \A name \in Names : Matches(d, name) = {}
  BY <1>1 DEF Matches
<1> QED BY <1>2 DEF GetMap, getenv, d

(***************************************************************************)
(* A new image, and strings freed, leave the other variables as they were. *)
(***************************************************************************)
LEMMA ImageMap ==
    ASSUME NEW e \in Environs
    PROVE  GetMap(Image(e)) = GetMap(e)
<1> DEFINE d     == Image(e)
           n     == Len(e.environ)
           texts == [i \in 1..n |-> ReadAs(e, i)]
           kept  == {t \in ToSet(texts) : t.value # NULL}
<1>1. /\ n \in Nat /\ DOMAIN e.environ = 1..n
      /\ \A i \in 1..n : e.environ[i] \in Placed
  BY FieldsTyped
<1>2. d \in Environs /\ d.environ \in Seq([name : Names, value : Values])
  BY ImageIs
<1>3. PICK h : Picks(d.environ, texts, n, kept, h)
  BY ImageIs
<1> HIDE DEF d
<1>4. /\ h \in [1..Len(d.environ) -> 1..n]
      /\ \A i, j \in 1..Len(d.environ) : i < j => h[i] < h[j]
      /\ \A i \in 1..Len(d.environ) : d.environ[i] = texts[h[i]]
      /\ \A j \in 1..n : texts[j] \in kept => \E i \in 1..Len(d.environ) : h[i] = j
  BY <1>3 DEF Picks
<1>5. \A j \in 1..n : texts[j] = ReadAs(e, j) /\ texts[j] \in ToSet(texts)
  BY DEF ToSet
<1>6. \A i \in 1..Len(d.environ) :
         /\ Text(d, d.environ[i]).name = Text(e, e.environ[h[i]]).name
         /\ Text(d, d.environ[i]).value = Text(e, e.environ[h[i]]).value
  <2> SUFFICES ASSUME NEW i \in 1..Len(d.environ)
               PROVE  /\ Text(d, d.environ[i]).name = Text(e, e.environ[h[i]]).name
                      /\ Text(d, d.environ[i]).value = Text(e, e.environ[h[i]]).value
    OBVIOUS
  <2>1. d.environ[i] \in [name : Names, value : Values]
    <3>1. \A S : d.environ \in Seq(S) => d.environ[i] \in S
      BY ElementOfSeq
    <3> QED BY <1>2, <3>1
  <2>2. d.environ[i] \notin Heap
    <3>1. d.environ[i] \in [name : Names, value : Values \cup {NULL}]
      BY <2>1
    <3> QED BY <3>1, EnvironAssumption
  <2>3. Text(d, d.environ[i]) = d.environ[i]
    BY <2>2 DEF Text
  <2>4. d.environ[i] = ReadAs(e, h[i])
    BY <1>4, <1>5
  <2> QED BY <2>3, <2>4 DEF ReadAs
<1>7. ASSUME NEW m \in Names PROVE getenv(d, m) = getenv(e, m)
  <2>1. ASSUME NEW j \in Matches(e, m) PROVE \E i \in 1..Len(d.environ) : h[i] = j
    <3>1. j \in 1..n /\ Text(e, e.environ[j]).name = m
      BY <1>1 DEF Matches
    <3>2. Text(e, e.environ[j]).value \in Values
      BY <1>1, <3>1, TextRead
    <3>3. texts[j].value # NULL
      BY <1>5, <3>1, <3>2, EnvironAssumption DEF ReadAs
    <3>4. texts[j] \in kept
      BY <1>5, <3>1, <3>3
    <3> QED BY <1>4, <3>1, <3>4
  <2> HIDE DEF texts, kept
  <2> QED BY <1>2, <1>4, <1>6, <2>1, GetenvPicked
<1> QED BY <1>7 DEF GetMap, d

LEMMA RemoveAllKeeps ==
    ASSUME NEW e \in Environs, NEW strings, NEW wiped, NEW name \in Names,
           \A s \in strings : Text(e, s).name # name
    PROVE  getenv(RemoveAll(e, strings, wiped), name) = getenv(e, name)
<1> DEFINE d == RemoveAll(e, strings, wiped)
<1>1. d \in Environs /\ d.environ = e.environ
  BY RemoveAllIs
<1>2. /\ \A s \in Heap \ strings : d.heap[s] = e.heap[s]
      /\ \A s \in Heap : Fades(d.heap[s], e.heap[s])
  BY RemoveAllIs
<1> HIDE DEF d
<1>3. name # ""
  BY EnvironAssumption
<1>4. \A s \in Placed : Text(e, s).name = name => Text(d, s) = Text(e, s)
  BY <1>2 DEF Text
<1>5. \A s \in Placed : Text(d, s).name = name => Text(e, s).name = name
  BY <1>2, <1>3 DEF Text, Fades
<1>6. \A i \in DOMAIN e.environ : e.environ[i] \in Placed
  BY FieldsTyped
<1>7. Matches(d, name) = Matches(e, name)
  BY <1>1, <1>4, <1>5, <1>6 DEF Matches
<1>8. \A i \in Matches(e, name) : Text(d, d.environ[i]).value = Text(e, e.environ[i]).value
  BY <1>1, <1>4, <1>6 DEF Matches
<1> QED BY <1>1, <1>7, <1>8, GetenvSame DEF d

(***************************************************************************)
(* OwnedOnce of an environment: what a step must keep.                     *)
(***************************************************************************)
Sole(q, x, i) == i \in DOMAIN q /\ q[i] = x /\ \A j \in DOMAIN q : q[j] = x => j = i

Owned(e) ==
    /\ \A s \in Heap \cap (ToSet(e.environ) \cup e.env_alloced) : e.heap[s].live
    /\ \A s \in e.env_alloced : \E i : Sole(e.environ, s, i)

LEMMA OwnedNow == OwnedOnce <=> (~reset => Owned(Env))
<1>1. Env.environ = environ /\ Env.heap = heap /\ Env.env_alloced = env_alloced
  BY DEF Env
<1> HIDE DEF Env
<1> QED BY <1>1 DEF OwnedOnce, Owned, Sole

\* The string put is of the program, or allocated and nowhere yet.
LEMMA PutOwned ==
    ASSUME NEW e \in Environs, NEW d, NEW s \in Placed, NEW r, NEW name,
           Owned(e), Puts(e, d, s, r, Matches(e, name)),
           \/ r = NULL /\ s \notin Heap
           \/ r = s /\ s \in Heap /\ s \notin ToSet(e.environ) \cup e.env_alloced
              /\ e.heap[s].live
    PROVE  Owned(d)
<1> DEFINE places == Matches(e, name)
           old    == IF places = {} THEN NULL ELSE e.environ[First(places)]
           at     == IF places = {} THEN Len(e.environ) + 1 ELSE First(places)
           n      == Len(e.environ)
<1>1. /\ n \in Nat /\ e.environ \in Seq(Placed)
      /\ DOMAIN e.environ = 1..n
      /\ places \subseteq 1..n
      /\ e.env_alloced \subseteq Heap
  BY FieldsTyped, MatchesArePlaces
<1>n. NULL \notin Heap
  BY EnvironAssumption
<1>2. /\ places # {} => at \in 1..n /\ old = e.environ[at]
      /\ places = {} => at = n + 1 /\ old = NULL
  BY <1>1, MatchesArePlaces, FirstIs
<1>3. /\ d.environ = IF places = {} THEN Append(e.environ, s) ELSE [e.environ EXCEPT ![at] = s]
      /\ \A x \in Heap \ ({old} \cap e.env_alloced) : d.heap[x] = e.heap[x]
      /\ d.env_alloced \subseteq (e.env_alloced \ {old}) \cup ({r} \ {NULL})
  BY DEF Puts
<1> HIDE DEF places, old, at
<1>4. /\ DOMAIN d.environ = 1..n \cup {at}
      /\ d.environ[at] = s
      /\ \A i \in 1..n : i # at => d.environ[i] = e.environ[i]
  <2>1. CASE places = {}
    BY <1>1, <1>2, <1>3, <2>1
  <2>2. CASE places # {}
    BY <1>1, <1>2, <1>3, <2>2
  <2> QED BY <2>1, <2>2
<1>5. ASSUME NEW x \in Heap, x \in ToSet(d.environ) \cup d.env_alloced
      PROVE  d.heap[x].live
  <2>1. CASE x = s
    <3>1. x \notin {old} \cap e.env_alloced /\ e.heap[x].live
      BY <2>1
    <3> QED BY <1>3, <3>1
  <2>2. CASE x # s
    <3>1. x \in ToSet(e.environ) \cup e.env_alloced
      <4>1. CASE x \in ToSet(d.environ)
        <5>1. PICK i \in DOMAIN d.environ : d.environ[i] = x
          BY <4>1 DEF ToSet
        <5> QED BY <1>1, <1>4, <2>2, <5>1 DEF ToSet
      <4>2. CASE x \in d.env_alloced
        BY <1>3, <2>2, <4>2
      <4> QED BY <1>5, <4>1, <4>2
    <3>2. x \notin {old} \cap e.env_alloced
      <4> SUFFICES ASSUME x = old, x \in e.env_alloced PROVE FALSE
        OBVIOUS
      <4>1. old = e.environ[at] /\ at \in 1..n
        BY <1>2, <1>n
      <4>2. \A j \in 1..n : e.environ[j] = x => j = at
        BY <1>1, <4>1 DEF Owned, Sole
      <4>3. x \notin ToSet(d.environ)
        <5> SUFFICES ASSUME NEW i \in DOMAIN d.environ, d.environ[i] = x PROVE FALSE
          BY DEF ToSet
        <5> QED BY <1>4, <2>2, <4>2
      <4>4. x \in d.env_alloced
        BY <1>5, <4>3
      <4> QED BY <1>3, <2>2, <4>4
    <3> QED BY <1>3, <3>1, <3>2 DEF Owned
  <2> QED BY <2>1, <2>2
<1>6. ASSUME NEW x \in d.env_alloced
      PROVE  \E i : Sole(d.environ, x, i)
  <2>1. CASE x = s
    <3>1. \A i \in 1..n : e.environ[i] # s
      <4>1. s \in Heap /\ s \notin ToSet(e.environ)
        BY <1>1, <1>3, <1>6, <1>n, <2>1
      <4> QED BY <1>1, <4>1 DEF ToSet
    <3>2. Sole(d.environ, x, at)
      BY <1>4, <2>1, <3>1 DEF Sole
    <3> QED BY <3>2
  <2>2. CASE x # s
    <3>1. x \in e.env_alloced /\ x # old
      BY <1>3, <2>2
    <3>2. PICK i : Sole(e.environ, x, i)
      BY <3>1 DEF Owned
    <3>3. i # at
      <4>1. at \in 1..n => e.environ[at] = old
        BY <1>1, <1>2
      <4> QED BY <1>1, <3>1, <3>2, <4>1 DEF Sole
    <3>4. Sole(d.environ, x, i)
      BY <1>1, <1>4, <2>2, <3>2, <3>3 DEF Sole
    <3> QED BY <3>4
  <2> QED BY <2>1, <2>2
<1> QED BY <1>5, <1>6 DEF Owned

LEMMA UnsetOwned ==
    ASSUME NEW e \in Environs, NEW name, Owned(e)
    PROVE  Owned(_unsetenv(e, name))
<1> DEFINE d    == _unsetenv(e, name)
           gone == Gone(e, name)
           left == ToSet(e.environ) \ gone
           n    == Len(e.environ)
<1>1. n \in Nat /\ DOMAIN e.environ = 1..n
  BY FieldsTyped
<1>2. /\ d \in Environs
      /\ \A x \in Heap \ gone : d.heap[x] = e.heap[x]
      /\ d.env_alloced = e.env_alloced \ gone
  BY UnsetenvRemoves
<1>3. PICK h : Picks(d.environ, e.environ, n, left, h)
  BY UnsetenvRemoves
<1> HIDE DEF d
<1>4. /\ h \in [1..Len(d.environ) -> 1..n]
      /\ \A i, j \in 1..Len(d.environ) : i < j => h[i] < h[j]
      /\ \A i \in 1..Len(d.environ) : d.environ[i] = e.environ[h[i]] /\ e.environ[h[i]] \in left
      /\ \A j \in 1..n : e.environ[j] \in left => \E i \in 1..Len(d.environ) : h[i] = j
  BY <1>3 DEF Picks
<1>5. DOMAIN d.environ = 1..Len(d.environ) /\ Len(d.environ) \in Nat
  BY <1>2, FieldsTyped
<1>6. ToSet(d.environ) \subseteq left
  BY <1>4, <1>5 DEF ToSet
<1>7. \A x \in Heap \cap (ToSet(d.environ) \cup d.env_alloced) : d.heap[x].live
  BY <1>2, <1>6 DEF Owned
<1>8. ASSUME NEW x \in d.env_alloced
      PROVE  \E i : Sole(d.environ, x, i)
  <2>1. PICK k : Sole(e.environ, x, k)
    BY <1>2 DEF Owned
  <2>2. k \in 1..n /\ e.environ[k] \in left
    BY <1>1, <1>2, <2>1 DEF ToSet, Sole
  <2>3. PICK i \in 1..Len(d.environ) : h[i] = k
    BY <1>4, <2>2
  <2>4. ASSUME NEW j \in 1..Len(d.environ) PROVE d.environ[j] = x <=> j = i
    <3>1. d.environ[j] = e.environ[h[j]] /\ h[j] \in 1..n
      BY <1>4
    <3>2. d.environ[j] = x <=> h[j] = h[i]
      BY <1>1, <2>1, <2>3, <3>1 DEF Sole
    <3>3. h[j] = h[i] => j = i
      <4>1. h[j] \in Nat /\ h[i] \in Nat
        <5> HIDE DEF n
        <5>1. n \in Nat /\ h[j] \in 1..n /\ h[i] \in 1..n
          BY <1>1, <1>4, <2>3
        <5> QED BY <5>1
      <4>2. ~(j < i /\ h[j] = h[i]) /\ ~(i < j /\ h[j] = h[i])
        BY <1>4, <4>1
      <4> QED BY <1>5, <4>2
    <3> QED BY <3>2, <3>3
  <2>5. Sole(d.environ, x, i)
    BY <1>5, <2>3, <2>4 DEF Sole
  <2> QED BY <2>5
<1> QED BY <1>7, <1>8 DEF Owned, d

LEMMA ClearOwned ==
    ASSUME NEW e \in Environs, Owned(e)
    PROVE  Owned(_clearenv(e))
<1> DEFINE d == _clearenv(e)
<1>1. d.environ = <<>> /\ d.env_alloced = e.env_alloced \ ToSet(e.environ)
  BY ClearenvIs
<1> HIDE DEF d
<1>2. e.env_alloced \subseteq ToSet(e.environ)
  BY DEF Owned, ToSet, Sole
<1>3. d.env_alloced = {} /\ ToSet(d.environ) = {}
  BY <1>1, <1>2 DEF ToSet
<1> QED BY <1>3 DEF Owned, d

LEMMA ImageOwned ==
    ASSUME NEW e \in Environs
    PROVE  Owned(Image(e))
<1> DEFINE d == Image(e)
<1>1. d.environ \in Seq([name : Names, value : Values]) /\ d.env_alloced = {}
  BY ImageIs
<1> HIDE DEF d
<1>2. \A s \in ToSet(d.environ) : s \in [name : Names, value : Values]
  <2> DEFINE D == [name : Names, value : Values]
  <2> HIDE DEF D
  <2>1. d.environ \in Seq(D)
    BY <1>1 DEF D
  <2>2. \A s \in ToSet(d.environ) : s \in D
    BY <2>1 DEF ToSet
  <2> QED BY <2>2 DEF D
<1>3. \A s \in ToSet(d.environ) : s \notin Heap
  <2>1. [name : Names, value : Values] \subseteq [name : Names, value : Values \cup {NULL}]
    OBVIOUS
  <2> QED BY <1>2, <2>1, EnvironAssumption
<1> QED BY <1>1, <1>3 DEF Owned, d

(***************************************************************************)
(* The calls.  Each leaves an environment, whose strings are owned as they *)
(* were, and a map that the call changed at its name or not at all.        *)
(***************************************************************************)
LEMMA BecomeIs ==
    ASSUME NEW e \in Environs, Become(e)
    PROVE  Env' = e
<1>1. environ' = e.environ /\ heap' = e.heap /\ env_alloced' = e.env_alloced
  BY DEF Become
<1>2. e = [environ |-> e.environ, heap |-> e.heap, env_alloced |-> e.env_alloced]
  BY DEF Environs
<1> QED BY <1>1, <1>2 DEF Env

\* A string of the heap that is nowhere may read as anything.
LEMMA UnusedChanged ==
    ASSUME NEW e \in Environs, NEW d \in Environs, NEW s,
           s \notin ToSet(e.environ), s \notin e.env_alloced,
           d.environ = e.environ, d.env_alloced = e.env_alloced,
           \A x \in Heap \ {s} : d.heap[x] = e.heap[x]
    PROVE  GetMap(d) = GetMap(e) /\ (Owned(e) => Owned(d))
<1>1. \A i \in DOMAIN e.environ : e.environ[i] \in Placed /\ e.environ[i] # s
  BY FieldsTyped DEF ToSet
<1>2. \A i \in DOMAIN e.environ : Text(d, d.environ[i]) = Text(e, e.environ[i])
  BY <1>1 DEF Text
<1>3. ASSUME NEW m \in Names PROVE getenv(d, m) = getenv(e, m)
  <2>1. Matches(d, m) = Matches(e, m)
    BY <1>2 DEF Matches
  <2>2. \A i \in Matches(e, m) : Text(d, d.environ[i]).value = Text(e, e.environ[i]).value
    BY <1>2 DEF Matches
  <2> QED BY <2>1, <2>2, GetenvSame
<1>4. GetMap(d) = GetMap(e)
  BY <1>3 DEF GetMap
<1> QED BY <1>4 DEF Owned

LEMMA SetenvStep ==
    ASSUME Env \in Environs, Owned(Env),
           NEW name \in Names, NEW value \in Values, NEW overwrite, NEW failure,
           _setenv(name, value, overwrite, failure)
    PROVE  /\ Env' \in Environs
           /\ Owned(Env')
           /\ \/ GetMap(Env') = GetMap(Env)
              \/ GetMap(Env') = [GetMap(Env) EXCEPT ![name] = value]
<1>f. Env.environ = environ /\ Env.heap = heap /\ Env.env_alloced = env_alloced
  BY DEF Env
<1>1. CASE Become(Env)
  <2>1. Env' = Env
    BY <1>1, BecomeIs
  <2> HIDE DEF Env
  <2>2. GetMap(Env') = GetMap(Env)
    BY <2>1
  <2> QED BY <2>1, <2>2
<1> DEFINE text == [name |-> name, value |-> value, live |-> TRUE]
           h(s) == [heap EXCEPT ![s] = text]
           new(s) == [Env EXCEPT !.heap = h(s)]
<1>2. ASSUME NEW s \in Heap, ~heap[s].live, Become(__putenv(new(s), s, s, failure))
      PROVE  /\ Env' \in Environs
             /\ Owned(Env')
             /\ \/ GetMap(Env') = GetMap(Env)
                \/ GetMap(Env') = [GetMap(Env) EXCEPT ![name] = value]
  <2> DEFINE e == new(s)
             d == __putenv(e, s, s, failure)
  <2>1. text \in Texts /\ text.name = name /\ text.value = value /\ text.live
    BY DEF Texts
  <2>2. heap \in [Heap -> Texts]
    BY <1>f, FieldsTyped
  <2>3. h(s) \in [Heap -> Texts] /\ h(s)[s] = text /\ \A x \in Heap \ {s} : h(s)[x] = heap[x]
    BY <2>1, <2>2
  <2> HIDE DEF text, h, Env
  <2>4. e \in Environs /\ e.environ = Env.environ /\ e.heap = h(s)
        /\ e.env_alloced = Env.env_alloced
    BY <2>3, HeapChanged
  <2> HIDE DEF new
  <2>5. s \notin ToSet(Env.environ) /\ s \notin Env.env_alloced
    BY <1>f, <1>2 DEF Owned
  <2>6. GetMap(e) = GetMap(Env) /\ Owned(e)
    BY <1>f, <2>3, <2>4, <2>5, UnusedChanged
  <2>7. s \in Placed /\ Text(e, s) = text
    BY <2>3, <2>4 DEF Placed, Text
  <2> DEFINE places == Matches(e, Text(e, s).name)
  <2>8. CASE places # {} \/ failure # "environ"
    <3>1. Puts(e, d, s, s, places)
      BY <2>4, <2>7, <2>8, PutenvPuts
    <3>2. d \in Environs
      BY <3>1 DEF Puts
    <3>3. Text(d, s) = text
      <4>1. s \notin e.env_alloced
        BY <2>4, <2>5
      <4>2. d.heap[s] = e.heap[s]
        BY <3>1, <4>1 DEF Puts
      <4> QED BY <2>3, <2>4, <4>2 DEF Text
    <3> HIDE DEF d
    <3>4. GetMap(d) = [GetMap(e) EXCEPT ![name] = value]
      BY <2>1, <2>4, <2>7, <3>1, <3>3, PutGives
    <3>5. e.heap[s].live
      BY <2>1, <2>3, <2>4
    <3>6. Owned(d)
      BY <2>4, <2>5, <2>6, <2>7, <3>1, <3>5, PutOwned
    <3>7. Env' = d
      BY <1>2, <3>2, BecomeIs DEF d
    <3>8. GetMap(Env') = [GetMap(Env) EXCEPT ![name] = value]
      BY <2>6, <3>4, <3>7
    <3> QED BY <3>2, <3>6, <3>7, <3>8
  <2>9. CASE places = {} /\ failure = "environ"
    <3>1. /\ d \in Environs
          /\ d.environ = e.environ /\ d.env_alloced = e.env_alloced
          /\ \A x \in Heap \ {s} : d.heap[x] = e.heap[x]
      BY <2>4, <2>7, <2>9, PutenvFails
    <3> HIDE DEF d
    <3>2. GetMap(d) = GetMap(e) /\ Owned(d)
      BY <2>4, <2>5, <2>6, <3>1, UnusedChanged
    <3>3. Env' = d
      BY <1>2, <3>1, BecomeIs DEF d
    <3>4. GetMap(Env') = GetMap(Env)
      BY <2>6, <3>2, <3>3
    <3> QED BY <3>1, <3>2, <3>3, <3>4
  <2> QED BY <2>8, <2>9
<1>3. CASE ~Become(Env)
  <2>1. PICK s \in Heap :
           /\ ~heap[s].live
           /\ Become(__putenv([Env EXCEPT !.heap[s] = text], s, s, failure))
    BY <1>3 DEF _setenv
  <2>2. [Env EXCEPT !.heap[s] = text] = new(s)
    BY <1>f
  <2> HIDE DEF new, text, Env
  <2>3. Become(__putenv(new(s), s, s, failure))
    BY <2>1, <2>2
  <2> QED BY <1>2, <2>1, <2>3
<1> QED BY <1>1, <1>3

LEMMA PutenvStep ==
    ASSUME Env \in Environs, Owned(Env), NEW string \in Strings, putenv(string)
    PROVE  /\ Env' \in Environs
           /\ Owned(Env')
           /\ \/ GetMap(Env') = GetMap(Env)
              \/ GetMap(Env') = [GetMap(Env) EXCEPT ![string.name] = string.value]
<1>1. PICK failure \in Failures :
         Become(_putenv(Env, string, failure))
  BY DEF putenv
<1>2. string \in Given /\ Text(Env, string) = string /\ string.name \in Names
  BY GivenRead, EnvironAssumption DEF Given
<1> HIDE DEF Env
<1>3. CASE string.value = NULL
  <2> DEFINE d == _unsetenv(Env, string.name)
  <2>1. d \in Environs
    BY UnsetenvRemoves
  <2>2. Become(d)
    BY <1>1, <1>2, <1>3 DEF _putenv
  <2>3. Env' = d
    BY <2>1, <2>2, BecomeIs
  <2>4. Owned(d) /\ GetMap(d) = [GetMap(Env) EXCEPT ![string.name] = NULL]
    BY <1>2, UnsetOwned, UnsetMap
  <2> HIDE DEF d
  <2> QED BY <1>3, <2>1, <2>3, <2>4
<1>4. CASE string.value # NULL
  <2> DEFINE d == __putenv(Env, string, NULL, failure)
             places == Matches(Env, Text(Env, string).name)
  <2>1. string \in Placed /\ string \notin Heap
    <3>1. string \in [name : Names, value : Values \cup {NULL}]
      BY EnvironAssumption
    <3>2. string \notin Heap
      BY <3>1, EnvironAssumption
    <3> QED BY <1>2, <1>4, <3>2, GivenRead
  <2>2. d \in Environs
    BY <2>1, PutenvTyped
  <2>3. Env' = d
    BY <1>1, <1>2, <1>4, <2>2, BecomeIs DEF _putenv
  <2>4. CASE places # {} \/ failure # "environ"
    <3>1. Puts(Env, d, string, NULL, places)
      BY <2>1, <2>4, PutenvPuts
    <3>2. Text(d, string) = Text(Env, string)
      BY <2>1 DEF Text
    <3> HIDE DEF d
    <3>3. GetMap(d) = [GetMap(Env) EXCEPT ![string.name] = string.value]
      <4>1. Text(Env, string) = string
        BY <2>1 DEF Text
      <4>2. Text(Env, string).name \in Names
        BY <1>2, <2>1, <4>1 DEF Placed
      <4>3. GetMap(d) = [GetMap(Env) EXCEPT ![Text(Env, string).name] = Text(Env, string).value]
        BY <1>2, <2>1, <3>1, <3>2, <4>2, PutGives
      <4> QED BY <4>1, <4>3
    <3>4. Owned(d)
      BY <2>1, <3>1, PutOwned
    <3> QED BY <2>2, <2>3, <3>3, <3>4
  <2>5. CASE places = {} /\ failure = "environ"
    <3>1. /\ d.environ = Env.environ /\ d.env_alloced = Env.env_alloced
          /\ \A x \in Heap \ {NULL} : d.heap[x] = Env.heap[x]
      BY <2>1, <2>5, PutenvFails
    <3> HIDE DEF d
    <3>2. d.heap = Env.heap
      <4>1. d.heap \in [Heap -> Texts] /\ Env.heap \in [Heap -> Texts]
        BY <2>2, FieldsTyped
      <4>2. NULL \notin Heap
        BY EnvironAssumption
      <4> QED BY <3>1, <4>1, <4>2
    <3>3. d = Env
      BY <2>2, <3>1, <3>2 DEF Environs
    <3> QED BY <2>3, <3>3
  <2> QED BY <2>4, <2>5
<1> QED BY <1>3, <1>4

LEMMA UnsetenvStep ==
    ASSUME Env \in Environs, Owned(Env), NEW name \in Names, unsetenv(name)
    PROVE  /\ Env' \in Environs
           /\ Owned(Env')
           /\ GetMap(Env') = [GetMap(Env) EXCEPT ![name] = NULL]
<1> DEFINE d == _unsetenv(Env, name)
<1> HIDE DEF Env
<1>1. d \in Environs
  BY UnsetenvRemoves
<1>2. Env' = d
  BY <1>1, BecomeIs DEF unsetenv
<1>3. Owned(d) /\ GetMap(d) = [GetMap(Env) EXCEPT ![name] = NULL]
  BY UnsetOwned, UnsetMap
<1> HIDE DEF d
<1> QED BY <1>1, <1>2, <1>3

LEMMA ClearenvStep ==
    ASSUME Env \in Environs, Owned(Env), clearenv
    PROVE  /\ Env' \in Environs
           /\ Owned(Env')
           /\ GetMap(Env') = [name \in Names |-> NULL]
<1> DEFINE d == _clearenv(Env)
<1> HIDE DEF Env
<1>1. d \in Environs
  BY ClearenvIs
<1>2. Env' = d
  BY <1>1, BecomeIs DEF clearenv
<1>3. Owned(d) /\ GetMap(d) = [name \in Names |-> NULL]
  BY ClearOwned, ClearMap
<1> HIDE DEF d
<1> QED BY <1>1, <1>2, <1>3

LEMMA ExecveEnvironStep ==
    ASSUME Env \in Environs, execve_environ
    PROVE  Env' \in Environs /\ Owned(Env') /\ GetMap(Env') = GetMap(Env)
<1> DEFINE d == Image(Env)
<1> HIDE DEF Env
<1>1. d \in Environs
  BY ImageIs
<1>2. Env' = d
  BY <1>1, BecomeIs DEF execve_environ
<1>3. Owned(d) /\ GetMap(d) = GetMap(Env)
  BY ImageOwned, ImageMap
<1> HIDE DEF d
<1> QED BY <1>1, <1>2, <1>3

\* What a failed execve() leaves may be read, and nothing more is said of it here.
LEMMA ExecveTyped ==
    ASSUME Env \in Environs, NEW envp \in Envp, NEW wiped, NEW lacking, NEW fails \in BOOLEAN,
           execve_envp(envp, wiped, lacking, fails)
    PROVE  Env' \in Environs /\ (reset' \/ Owned(Env')) /\ reset' \in BOOLEAN
<1>1. /\ Become(IF fails THEN _resetenv(Env, envp, wiped, lacking)
                ELSE Image(_resetenv(Env, envp, wiped, lacking)))
      /\ reset' = fails
  BY DEF execve_envp
<1> DEFINE d == _resetenv(Env, envp, wiped, lacking)
<1>2. envp \in Seq(Given)
  <2>1. ToSet(environ) \subseteq Placed
    <3>1. environ \in Seq(Placed)
      BY DEF Env, Environs
    <3> QED BY <3>1 DEF ToSet
  <2> DEFINE S == Strings \cup (IF SharesStrings THEN ToSet(environ) ELSE {})
  <2>2. S \subseteq Given
    BY <2>1 DEF Given
  <2>3. PICK m \in 0..MaxEnvp : envp \in [1..m -> S]
    BY DEF Envp, SeqOf
  <2> HIDE DEF S
  <2>4. m \in Nat
    <3>1. MaxEnvp \in Nat
      BY EnvironAssumption
    <3> QED BY <3>1
  <2>5. envp \in [1..m -> Given]
    BY <2>2, <2>3
  <2> QED BY <2>4, <2>5, SeqDef
<1> HIDE DEF Env
<1>3. d \in Environs
  BY <1>2, ResetenvTyped
<1> HIDE DEF d
<1>4. CASE fails
  <2>1. Env' = d
    BY <1>1, <1>3, <1>4, BecomeIs DEF d
  <2> QED BY <1>1, <1>3, <1>4, <2>1
<1>5. CASE ~fails
  <2>1. Image(d) \in Environs /\ Owned(Image(d))
    BY <1>3, ImageIs, ImageOwned
  <2>2. Env' = Image(d)
    BY <1>1, <1>5, <2>1, BecomeIs DEF d
  <2> QED BY <1>1, <2>1, <2>2
<1> QED BY <1>4, <1>5

(***************************************************************************)
(* The variables a call has still to set have names and values, and no     *)
(* call is in progress after an execve() that failed.                      *)
(***************************************************************************)
Assignments == [name : Names, value : Values]

TodoOK ==
    /\ todo \in Seq(Assignments)
    /\ todo # <<>> => ~reset

IInv == EnvironTypeOK /\ OwnedOnce /\ TodoOK

LEMMA IInvNow ==
    IInv <=> /\ Env \in Environs /\ reset \in BOOLEAN
             /\ ~reset => Owned(Env)
             /\ TodoOK
BY EnvTyped, OwnedNow DEF IInv

LEMMA IInvNext ==
    IInv' <=> /\ Env' \in Environs /\ reset' \in BOOLEAN
              /\ ~reset' => Owned(Env')
              /\ TodoOK'
<1>1. EnvironTypeOK' <=> Env' \in Environs /\ reset' \in BOOLEAN
  BY DEF EnvironTypeOK, Env, Environs, Placed
<1>2. Env'.environ = environ' /\ Env'.heap = heap' /\ Env'.env_alloced = env_alloced'
  BY DEF Env
<1>3. OwnedOnce' <=> (~reset' => Owned(Env'))
  <2> HIDE DEF Env
  <2> QED BY <1>2 DEF OwnedOnce, Owned, Sole
<1> QED BY <1>1, <1>3 DEF IInv

LEMMA SettingTyped ==
    ASSUME NEW A, NEW list \in Seq(A), Setting(list), IInv,
           \A i \in 1..Len(list) : list[i].value # <<NoId>> => list[i] \in Assignments
    PROVE  TodoOK'
<1> DEFINE S == {set \in ToSet(list) : set.value # <<NoId>>}
<1>1. todo' = Only(list, S) /\ reset' = reset /\ ~reset
  BY DEF Setting, envvars
<1>2. S \subseteq Assignments
  BY DEF ToSet
<1> HIDE DEF S
<1> DEFINE r == Only(list, S)
<1>3. r \in Seq(A) /\ \E h : Picks(r, list, Len(list), S, h)
  BY OnlyPicks
<1> HIDE DEF r
<1>4. \A i \in 1..Len(r) : r[i] \in Assignments
  BY <1>2, <1>3 DEF Picks
<1>5. Len(r) \in Nat /\ r \in [1..Len(r) -> A]
  BY <1>3
<1>6. r \in [1..Len(r) -> Assignments]
  BY <1>4, <1>5
<1>7. r \in Seq(Assignments)
  BY <1>5, <1>6, SeqDef
<1> QED BY <1>1, <1>7 DEF TodoOK, r

LEMMA IdNamesTyped ==
    ASSUME NEW name \in IdNames \cup {"IAMROOT_GROUPS", "IAMROOT_UMASK"}
    PROVE  name \in Names
<1>1. name \in Iamroot
  BY CredentialsAssumption
<1>2. Iamroot \subseteq Names
  BY EnvironAssumption
<1> QED BY <1>1, <1>2

LEMMA VariableTyped ==
    ASSUME NEW name \in IdNames, NEW id \in Keeping(Ids)
    PROVE  /\ Variable(name, id) \in [name : Names, value : Seq(Int)]
           /\ Variable(name, id).value # <<NoId>> => Variable(name, id) \in Assignments
<1>1. name \in Names
  BY IdNamesTyped
<1>2. id \in Int /\ (id # NoId => <<id>> \in Values)
  BY CredentialsAssumption DEF Keeping, NoId
<1>3. Variable(name, id) = [name |-> name, value |-> <<id>>]
  BY DEF Variable
<1>4. <<id>> \in Seq(Int)
  BY <1>2
<1>5. id = NoId => <<id>> = <<NoId>>
  OBVIOUS
<1> QED BY <1>1, <1>2, <1>3, <1>4, <1>5 DEF Assignments

\* The calls that set ids and the mask.
SetsIds(list) ==
    /\ list \in Seq([name : Names, value : Seq(Int)])
    /\ \A i \in 1..Len(list) : list[i].value # <<NoId>> => list[i] \in Assignments

LEMMA IdsSet ==
    ASSUME NEW a \in IdNames, NEW b \in IdNames, NEW c \in IdNames,
           NEW i \in Keeping(Ids), NEW j \in Keeping(Ids), NEW k \in Keeping(Ids)
    PROVE  /\ SetsIds(<<Variable(a, i)>>)
           /\ SetsIds(<<Variable(a, i), Variable(b, j)>>)
           /\ SetsIds(<<Variable(a, i), Variable(b, j), Variable(c, k)>>)
<1> DEFINE A == [name : Names, value : Seq(Int)]
           Fine(v) == v \in A /\ (v.value # <<NoId>> => v \in Assignments)
<1>1. Fine(Variable(a, i)) /\ Fine(Variable(b, j)) /\ Fine(Variable(c, k))
  BY VariableTyped
<1> HIDE DEF A
<1>2. ASSUME NEW u, NEW v, NEW w, Fine(u), Fine(v), Fine(w)
      PROVE  /\ SetsIds(<<u>>)
             /\ SetsIds(<<u, v>>)
             /\ SetsIds(<<u, v, w>>)
  <2>1. <<u>> \in Seq(A) /\ <<u, v>> \in Seq(A) /\ <<u, v, w>> \in Seq(A)
    BY <1>2
  <2>2. ASSUME NEW s \in {<<u>>, <<u, v>>, <<u, v, w>>}, NEW l \in 1..Len(s)
        PROVE  s[l] \in {u, v, w}
    BY <2>2
  <2>3. ASSUME NEW s \in {<<u>>, <<u, v>>, <<u, v, w>>} PROVE SetsIds(s)
    BY <1>2, <2>1, <2>2 DEF SetsIds, A
  <2> QED BY <2>3
<1> HIDE DEF Fine
<1> QED BY <1>1, <1>2

LEMMA SettingIds ==
    ASSUME NEW list, SetsIds(list), Setting(list), IInv
    PROVE  IInv'
<1>1. TodoOK'
  BY SettingTyped DEF SetsIds
<1>2. UNCHANGED envvars
  BY DEF Setting
<1> QED BY <1>1, <1>2 DEF IInv, EnvironTypeOK, OwnedOnce, envvars

LEMMA GroupsStep ==
    ASSUME NEW list \in Seq(Ids), setgroups(list), IInv
    PROVE  IInv'
<1>1. CASE list = <<>>
  <2>1. Idle /\ unsetenv("IAMROOT_GROUPS") /\ UNCHANGED todo /\ ~reset /\ reset' = reset
    BY <1>1 DEF setgroups, unsetenv
  <2>2. "IAMROOT_GROUPS" \in Names
    BY IdNamesTyped
  <2>3. Env \in Environs /\ Owned(Env)
    BY <2>1, IInvNow
  <2>4. Env' \in Environs /\ Owned(Env')
    BY <2>1, <2>2, <2>3, UnsetenvStep
  <2>5. TodoOK'
    BY <2>1, IInvNow DEF TodoOK
  <2>6. reset' \in BOOLEAN
    BY <2>1, IInvNow
  <2> QED BY <2>4, <2>5, <2>6, IInvNext
<1>2. CASE list # <<>>
  <2> DEFINE v == [name |-> "IAMROOT_GROUPS", value |-> list]
  <2>1. Len(list) <= MAXGROUPS /\ Setting(<<v>>)
    BY <1>2 DEF setgroups
  <2>2. list \in SeqOf(Ids, MAXGROUPS)
    <3>1. Len(list) \in 0..MAXGROUPS /\ list \in [1..Len(list) -> Ids]
      BY <2>1, CredentialsAssumption
    <3> QED BY <3>1 DEF SeqOf
  <2>3. list \in Values
    BY <1>2, <2>2, CredentialsAssumption
  <2>4. list \in Seq(Int)
    <3>1. Ids \subseteq Int
      BY CredentialsAssumption
    <3> QED BY <3>1, SeqMonotonic
  <2>5. v \in [name : Names, value : Seq(Int)] /\ v \in Assignments
    BY <2>3, <2>4, IdNamesTyped DEF Assignments
  <2> HIDE DEF v
  <2>6. SetsIds(<<v>>)
    <3> DEFINE A == [name : Names, value : Seq(Int)]
    <3> HIDE DEF A
    <3>1. <<v>> \in Seq(A)
      BY <2>5 DEF A
    <3>2. \A i \in 1..Len(<<v>>) : <<v>>[i] = v
      OBVIOUS
    <3> QED BY <2>5, <3>1, <3>2 DEF SetsIds, A
  <2> QED BY <2>1, <2>6, SettingIds
<1> QED BY <1>1, <1>2

LEMMA MaskStep ==
    ASSUME NEW mask \in Masks, umask(mask), IInv
    PROVE  IInv'
<1> DEFINE v == Variable("IAMROOT_UMASK", mask)
<1>1. mask <= 511 /\ Setting(<<v>>)
  BY DEF umask
<1>2. <<mask>> \in Values /\ <<mask>> \in Seq(Int)
  BY <1>1, CredentialsAssumption
<1>3. v \in [name : Names, value : Seq(Int)] /\ v \in Assignments
  BY <1>2, IdNamesTyped DEF Assignments, Variable
<1> HIDE DEF v
<1>4. SetsIds(<<v>>)
  <2> DEFINE A == [name : Names, value : Seq(Int)]
  <2> HIDE DEF A
  <2>1. <<v>> \in Seq(A)
    BY <1>3 DEF A
  <2>2. \A i \in 1..Len(<<v>>) : <<v>>[i] = v
    OBVIOUS
  <2> QED BY <1>3, <2>1, <2>2 DEF SetsIds, A
<1> QED BY <1>1, <1>4, SettingIds

LEMMA SetNextStep ==
    ASSUME SetNext, IInv
    PROVE  /\ IInv'
           /\ \/ GetMap(Env') = GetMap(Env)
              \/ \E name \in Names, value \in Values :
                    GetMap(Env') = [GetMap(Env) EXCEPT ![name] = value]
           /\ ~reset /\ reset' = reset
<1>1. todo # <<>> /\ reset' = reset
  BY DEF SetNext, Idle
<1>2. PICK failure \in Failures :
         /\ _setenv(Head(todo).name, Head(todo).value, TRUE, failure)
         /\ todo' = IF Fails(Head(todo).name, failure) THEN <<>> ELSE Tail(todo)
  BY DEF SetNext
<1>3. ~reset /\ todo \in Seq(Assignments) /\ Env \in Environs /\ Owned(Env) /\ reset \in BOOLEAN
  BY <1>1, IInvNow DEF TodoOK
<1>4. Head(todo) \in Assignments /\ Tail(todo) \in Seq(Assignments)
  BY <1>1, <1>3
<1> DEFINE name == Head(todo).name
           value == Head(todo).value
<1>5. name \in Names /\ value \in Values
  BY <1>4 DEF Assignments
<1> HIDE DEF name, value
<1>6. \E overwrite : _setenv(name, value, overwrite, failure)
  BY <1>2 DEF name, value
<1>7. /\ Env' \in Environs
      /\ Owned(Env')
      /\ \/ GetMap(Env') = GetMap(Env)
         \/ GetMap(Env') = [GetMap(Env) EXCEPT ![name] = value]
  BY <1>3, <1>5, <1>6, SetenvStep
<1>8. todo' \in Seq(Assignments)
  BY <1>2, <1>4
<1>9. TodoOK'
  BY <1>1, <1>3, <1>8 DEF TodoOK
<1> QED BY <1>1, <1>3, <1>5, <1>7, <1>9, IInvNext

(***************************************************************************)
(* A string of a program sets its variable, or unsets it without "=", and  *)
(* the last of several strings of a name prevails.  Without memory for the *)
(* array a variable that is not set is lost.                               *)
(***************************************************************************)
LEMMA StringPut ==
    ASSUME NEW e \in Environs, NEW string \in Strings, NEW failure
    PROVE  \/ GetMap(_putenv(e, string, failure))
                 = [GetMap(e) EXCEPT ![string.name] = string.value]
           \/ /\ failure = "environ" /\ getenv(e, string.name) = NULL
              /\ GetMap(_putenv(e, string, failure)) = GetMap(e)
<1>1. string \in Given /\ Text(e, string) = string /\ string.name \in Names
  BY GivenRead, EnvironAssumption DEF Given
<1>2. CASE string.value = NULL
  BY <1>1, <1>2, UnsetMap DEF _putenv
<1>3. CASE string.value # NULL
  <2> DEFINE d == __putenv(e, string, NULL, failure)
             places == Matches(e, Text(e, string).name)
  <2>1. string \in Placed /\ string \notin Heap /\ NULL \notin Heap
    <3>1. string \in [name : Names, value : Values \cup {NULL}]
      BY EnvironAssumption
    <3>2. string \notin Heap
      BY <3>1, EnvironAssumption
    <3> QED BY <1>1, <1>3, <3>2, GivenRead, EnvironAssumption
  <2>2. _putenv(e, string, failure) = d
    BY <1>1, <1>3 DEF _putenv
  <2>3. CASE places # {} \/ failure # "environ"
    <3>1. Puts(e, d, string, NULL, places)
      BY <2>1, <2>3, PutenvPuts
    <3>2. Text(d, string) = Text(e, string)
      BY <2>1 DEF Text
    <3> HIDE DEF d
    <3> QED BY <1>1, <2>1, <2>2, <3>1, <3>2, PutGives
  <2>4. CASE places = {} /\ failure = "environ"
    <3>1. /\ d \in Environs /\ d.environ = e.environ /\ d.env_alloced = e.env_alloced
          /\ \A x \in Heap \ {NULL} : d.heap[x] = e.heap[x]
      BY <2>1, <2>4, PutenvFails
    <3> HIDE DEF d
    <3>2. d.heap = e.heap
      <4>1. d.heap \in [Heap -> Texts] /\ e.heap \in [Heap -> Texts]
        BY <3>1, FieldsTyped
      <4> QED BY <2>1, <3>1, <4>1
    <3>3. d = e
      BY <3>1, <3>2 DEF Environs
    <3>4. getenv(e, string.name) = NULL
      BY <1>1, <2>4 DEF getenv
    <3> QED BY <2>2, <2>4, <3>3, <3>4
  <2> QED BY <2>3, <2>4
<1> QED BY <1>2, <1>3

\* env is old but for the names of the first i strings of envp: a variable of one
\* is the last of its strings, or lost.
LastOf(envp, i, name, k) ==
    /\ k \in 1..i /\ envp[k].name = name
    /\ \A j \in 1..i : envp[j].name = name => j <= k

LostOf(env, old, envp, i, name) ==
    /\ \E k \in 1..i : envp[k].name = name
    /\ env[name] = NULL
    /\ old[name] # NULL => \E k \in 1..i : envp[k].name = name /\ envp[k].value = NULL

Mixed(env, old, envp, lacking, i) ==
    \A name \in Names :
        \/ \E k : LastOf(envp, i, name, k) /\ env[name] = envp[k].value
        \/ (\A k \in 1..i : envp[k].name # name) /\ env[name] = old[name]
        \/ lacking # {} /\ LostOf(env, old, envp, i, name)

LEMMA PutAllMerges ==
    ASSUME NEW e \in Environs, NEW envp \in Seq(Strings), NEW lacking
    PROVE  Mixed(GetMap(PutAll(e, envp, lacking)), GetMap(e), envp, lacking, Len(envp))
<1>0. envp \in Seq(Given)
  BY SeqMonotonic DEF Given
<1>1. PICK f \in [0..Len(envp) -> Environs] : Putting(f, e, envp, lacking)
  BY <1>0, PutAllIsRecursive
<1>2. Len(envp) \in Nat /\ \A i \in 1..Len(envp) : envp[i] \in Strings
  OBVIOUS
<1> DEFINE T == {i \in Nat : i <= Len(envp) => Mixed(GetMap(f[i]), GetMap(e), envp, lacking, i)}
<1>3. 0 \in T
  <2>1. f[0] = e
    BY <1>1 DEF Putting
  <2>2. Mixed(GetMap(e), GetMap(e), envp, lacking, 0)
    BY DEF Mixed
  <2> QED BY <2>1, <2>2
<1>4. ASSUME NEW m \in Nat, m \in T PROVE m + 1 \in T
  <2> SUFFICES ASSUME m + 1 <= Len(envp)
               PROVE  Mixed(GetMap(f[m + 1]), GetMap(e), envp, lacking, m + 1)
    OBVIOUS
  <2> DEFINE s == envp[m + 1]
             was == GetMap(e)
             old == GetMap(f[m])
             new == GetMap(f[m + 1])
  <2>1. Mixed(old, was, envp, lacking, m)
    BY <1>2, <1>4
  <2>2. m + 1 \in 1..Len(envp) /\ s \in Strings /\ f[m] \in Environs
    BY <1>2
  <2>3. f[m + 1] = _putenv(f[m], s, At(lacking, m + 1))
    BY <1>1, <2>2 DEF Putting
  <2>4. \/ new = [old EXCEPT ![s.name] = s.value]
        \/ lacking # {} /\ getenv(f[m], s.name) = NULL /\ new = old
    <3>1. At(lacking, m + 1) = "environ" => lacking # {}
      BY DEF At
    <3> HIDE DEF s
    <3> QED BY <2>2, <2>3, <3>1, StringPut
  <2>5. DOMAIN old = Names /\ \A name \in Names : old[name] = getenv(f[m], name)
    BY DEF GetMap
  <2> HIDE DEF s, was, old, new
  <2> SUFFICES ASSUME NEW name \in Names
               PROVE  \/ \E k : LastOf(envp, m + 1, name, k) /\ new[name] = envp[k].value
                      \/ /\ \A k \in 1..(m + 1) : envp[k].name # name
                         /\ new[name] = was[name]
                      \/ lacking # {} /\ LostOf(new, was, envp, m + 1, name)
    BY DEF Mixed, new, was
  <2>0. /\ \A k \in 1..(m + 1) : k \in 1..m \/ k = m + 1
        /\ \A k \in 1..m : k \in 1..(m + 1) /\ k <= m + 1
        /\ m + 1 \in 1..(m + 1)
    OBVIOUS
  <2>6. CASE s.name = name /\ new = [old EXCEPT ![s.name] = s.value]
    <3>1. LastOf(envp, m + 1, name, m + 1)
      BY <2>6 DEF LastOf, s
    <3>2. new[name] = envp[m + 1].value
      BY <2>5, <2>6 DEF s
    <3> QED BY <3>1, <3>2
  <2>7. CASE s.name = name /\ lacking # {} /\ getenv(f[m], s.name) = NULL /\ new = old
    <3>1. new[name] = NULL /\ old[name] = NULL
      BY <2>5, <2>7
    <3>2. envp[m + 1].name = name
      BY <2>7 DEF s
    <3>3. was[name] # NULL => \E k \in 1..(m + 1) : envp[k].name = name /\ envp[k].value = NULL
      <4>1. CASE \E k : LastOf(envp, m, name, k) /\ old[name] = envp[k].value
        BY <2>0, <3>1, <4>1 DEF LastOf
      <4>2. CASE (\A k \in 1..m : envp[k].name # name) /\ old[name] = was[name]
        BY <3>1, <4>2
      <4>3. CASE LostOf(old, was, envp, m, name)
        BY <2>0, <4>3 DEF LostOf
      <4> QED BY <2>1, <4>1, <4>2, <4>3 DEF Mixed
    <3> QED BY <2>0, <2>7, <3>1, <3>2, <3>3 DEF LostOf
  <2>8. CASE s.name # name
    <3>1. new[name] = old[name]
      BY <2>4, <2>5, <2>8
    <3>2. CASE \E k : LastOf(envp, m, name, k) /\ old[name] = envp[k].value
      <4>1. PICK k : LastOf(envp, m, name, k) /\ old[name] = envp[k].value
        BY <3>2
      <4>2. LastOf(envp, m + 1, name, k)
        BY <2>8, <4>1 DEF LastOf, s
      <4> QED BY <3>1, <4>1, <4>2
    <3>3. CASE (\A k \in 1..m : envp[k].name # name) /\ old[name] = was[name]
      BY <2>0, <2>8, <3>1, <3>3 DEF s
    <3>4. CASE lacking # {} /\ LostOf(old, was, envp, m, name)
      BY <2>0, <3>1, <3>4 DEF LostOf
    <3> QED BY <2>1, <3>2, <3>3, <3>4 DEF Mixed
  <2> QED BY <2>4, <2>6, <2>7, <2>8
<1> HIDE DEF T
<1>5. Nat \subseteq T
  BY <1>3, <1>4, Induction
<1>6. Mixed(GetMap(f[Len(envp)]), GetMap(e), envp, lacking, Len(envp))
  BY <1>2, <1>5 DEF T
<1> QED BY <1>1, <1>6 DEF Putting

(***************************************************************************)
(* _resetenv() merges envp, and keeps the variables of iamroot.            *)
(***************************************************************************)
LEMMA ResetenvMixes ==
    ASSUME NEW e \in Environs, NEW envp \in Seq(Strings), NEW wiped, NEW lacking
    PROVE  \E old : /\ \A name \in Iamroot : old[name] = getenv(e, name)
                    /\ Mixed(GetMap(_resetenv(e, envp, wiped, lacking)), old, envp, lacking,
                             Len(envp))
<1> DEFINE others == {s \in ToSet(e.environ) : Text(e, s).name \notin Iamroot}
           d == RemoveAll(e, others, wiped)
<1>1. d \in Environs
  BY RemoveAllIs
<1>2. \A name \in Iamroot : name \in Names /\ getenv(d, name) = getenv(e, name)
  <2> SUFFICES ASSUME NEW name \in Iamroot
               PROVE  name \in Names /\ getenv(d, name) = getenv(e, name)
    OBVIOUS
  <2>1. name \in Names
    BY EnvironAssumption
  <2>2. \A s \in others : Text(e, s).name # name
    OBVIOUS
  <2> HIDE DEF others
  <2> QED BY <2>1, <2>2, RemoveAllKeeps
<1>3. _resetenv(e, envp, wiped, lacking) = PutAll(d, envp, lacking)
  BY DEF _resetenv
<1> HIDE DEF d
<1>4. Mixed(GetMap(PutAll(d, envp, lacking)), GetMap(d), envp, lacking, Len(envp))
  BY <1>1, PutAllMerges
<1>5. \A name \in Iamroot : GetMap(d)[name] = getenv(e, name)
  BY <1>2 DEF GetMap
<1> QED BY <1>3, <1>4, <1>5

(***************************************************************************)
(* That is the merging of EnvMap.                                          *)
(***************************************************************************)
LEMMA ResetenvMerges ==
    ASSUME NEW e \in Environs, NEW envp \in Seq(Strings), NEW wiped, NEW lacking
    PROVE  Map!Merged(GetMap(e), GetMap(_resetenv(e, envp, wiped, lacking)), envp, lacking # {})
<1> DEFINE n == Len(envp)
           new == GetMap(_resetenv(e, envp, wiped, lacking))
<1>1. n \in Nat /\ DOMAIN envp = 1..n
  OBVIOUS
<1>2. PICK old : /\ \A name \in Iamroot : old[name] = getenv(e, name)
                 /\ Mixed(new, old, envp, lacking, n)
  BY ResetenvMixes
<1>3. \A name \in Names : GetMap(e)[name] = getenv(e, name)
  BY DEF GetMap
<1> HIDE DEF new, n
<1>4. ASSUME NEW name \in Names
      PROVE  LET Places == {i \in DOMAIN envp : envp[i].name = name}
                 last   == CHOOSE i \in Places : \A j \in Places : j <= i
                 lost   == /\ lacking # {} /\ new[name] = NULL
                           /\ name \in Iamroot /\ GetMap(e)[name] # NULL =>
                                 \E i \in Places : envp[i].value = NULL
             IN  IF Places # {} THEN new[name] = envp[last].value \/ lost
                 ELSE name \in Iamroot => new[name] = GetMap(e)[name]
  <2> DEFINE Places == {i \in DOMAIN envp : envp[i].name = name}
             last   == CHOOSE i \in Places : \A j \in Places : j <= i
  <2>1. CASE \E k : LastOf(envp, n, name, k) /\ new[name] = envp[k].value
    <3>1. PICK k : LastOf(envp, n, name, k) /\ new[name] = envp[k].value
      BY <2>1
    <3>2. k \in Places /\ \A j \in Places : j <= k
      BY <1>1, <3>1 DEF LastOf
    <3>3. last \in Places /\ \A j \in Places : j <= last
      BY <3>2
    <3>4. last = k
      <4>1. last <= k /\ k <= last
        BY <3>2, <3>3
      <4>2. \A j \in Places : j \in Nat
        BY <1>1
      <4>3. last \in Nat /\ k \in Nat
        BY <3>2, <3>3, <4>2
      <4> QED BY <4>1, <4>3
    <3> QED BY <3>1, <3>2, <3>4
  <2>2. CASE (\A k \in 1..n : envp[k].name # name) /\ new[name] = old[name]
    <3>1. Places = {}
      BY <1>1, <2>2
    <3>2. name \in Iamroot => new[name] = GetMap(e)[name]
      BY <1>2, <1>3, <2>2
    <3> QED BY <3>1, <3>2
  <2>3. CASE lacking # {} /\ LostOf(new, old, envp, n, name)
    <3>1. Places # {}
      BY <1>1, <2>3 DEF LostOf
    <3>2. new[name] = NULL
      BY <2>3 DEF LostOf
    <3>3. old[name] # NULL => \E i \in Places : envp[i].value = NULL
      BY <1>1, <2>3 DEF LostOf
    <3>4. name \in Iamroot => old[name] = GetMap(e)[name]
      BY <1>2, <1>3
    <3> QED BY <2>3, <3>1, <3>2, <3>3, <3>4
  <2> QED BY <1>2, <2>1, <2>2, <2>3 DEF Mixed
<1>5. Map!Merged(GetMap(e), new, envp, lacking # {})
  BY <1>4 DEF Map!Merged
<1> QED BY <1>5 DEF new

(***************************************************************************)
(* The steps of the program keep the invariant, and are steps of EnvMap.   *)
(***************************************************************************)
LEMMA InitIInv == Init => IInv
<1> SUFFICES ASSUME Init PROVE IInv
  OBVIOUS
<1>1. /\ environ = InitEnviron /\ heap = [s \in Heap |-> Freed]
      /\ env_alloced = {} /\ reset = FALSE /\ todo = <<>>
  BY DEF Init, EnvironInit
<1>2. InitEnviron \in Seq(Strings) /\ \A i \in DOMAIN InitEnviron : InitEnviron[i].value # NULL
  BY EnvironAssumption
<1>3. \A i \in 1..Len(InitEnviron) : InitEnviron[i] \in Assignments /\ InitEnviron[i] \notin Heap
  <2>1. Strings \subseteq [name : Names, value : Values \cup {NULL}]
        /\ Heap \cap [name : Names, value : Values \cup {NULL}] = {}
    BY EnvironAssumption
  <2>2. \A s \in Strings : (s.value # NULL => s \in Assignments) /\ s \notin Heap
    BY <2>1 DEF Assignments
  <2> QED BY <1>2, <2>2
<1>4. InitEnviron \in Seq(Placed)
  <2>1. InitEnviron \in [1..Len(InitEnviron) -> Placed] /\ Len(InitEnviron) \in Nat
    <3>1. InitEnviron \in [1..Len(InitEnviron) -> Strings] /\ Len(InitEnviron) \in Nat
      BY <1>2
    <3>2. \A i \in 1..Len(InitEnviron) : InitEnviron[i] \in Placed
      BY <1>3 DEF Placed, Assignments
    <3> QED BY <3>1, <3>2
  <2> QED BY <2>1, SeqDef
<1>5. EnvironTypeOK
  BY <1>1, <1>4, FreedTyped DEF EnvironTypeOK, Placed
<1>6. OwnedOnce
  <2>1. \A s \in ToSet(environ) : s \notin Heap
    BY <1>1, <1>2, <1>3 DEF ToSet
  <2> QED BY <1>1, <2>1 DEF OwnedOnce
<1>7. TodoOK
  BY <1>1 DEF TodoOK
<1> QED BY <1>5, <1>6, <1>7 DEF IInv

LEMMA ProgramStep ==
    ASSUME IInv, Program
    PROVE  IInv'
<1>1. /\ Idle /\ EnvironNext /\ todo' = <<>>
      /\ Env \in Environs /\ reset \in BOOLEAN /\ (~reset => Owned(Env))
  BY IInvNow DEF Program, Idle
<1>2. TodoOK'
  BY <1>1 DEF TodoOK
<1>3. ASSUME ~reset, reset' = reset, Env' \in Environs, Owned(Env') PROVE IInv'
  BY <1>1, <1>2, <1>3, IInvNext
<1>4. ASSUME NEW name \in Names \ Iamroot, NEW value \in Values, NEW overwrite \in BOOLEAN,
             setenv(name, value, overwrite)
      PROVE  IInv'
  <2>1. ~reset /\ reset' = reset /\ \E failure \in Failures : _setenv(name, value, overwrite, failure)
    BY <1>4 DEF setenv
  <2>2. Env' \in Environs /\ Owned(Env')
    BY <1>1, <2>1, SetenvStep
  <2> QED BY <1>3, <2>1, <2>2
<1>5. ASSUME NEW string \in Strings, putenv(string) PROVE IInv'
  <2>1. ~reset /\ reset' = reset
    BY <1>5 DEF putenv
  <2>2. Env' \in Environs /\ Owned(Env')
    BY <1>1, <1>5, <2>1, PutenvStep
  <2> QED BY <1>3, <2>1, <2>2
<1>6. ASSUME NEW name \in Names, unsetenv(name) PROVE IInv'
  <2>1. ~reset /\ reset' = reset
    BY <1>6 DEF unsetenv
  <2>2. Env' \in Environs /\ Owned(Env')
    BY <1>1, <1>6, <2>1, UnsetenvStep
  <2> QED BY <1>3, <2>1, <2>2
<1>7. CASE clearenv
  <2>1. ~reset /\ reset' = reset
    BY <1>7 DEF clearenv
  <2>2. Env' \in Environs /\ Owned(Env')
    BY <1>1, <1>7, <2>1, ClearenvStep
  <2> QED BY <1>3, <2>1, <2>2
<1>8. CASE execve_environ
  <2>1. ~reset /\ reset' = reset
    BY <1>8 DEF execve_environ
  <2>2. Env' \in Environs /\ Owned(Env')
    BY <1>1, <1>8, ExecveEnvironStep
  <2> QED BY <1>3, <2>1, <2>2
<1>9. ASSUME NEW envp \in Envp, NEW wiped, NEW lacking, NEW fails \in BOOLEAN,
             execve_envp(envp, wiped, lacking, fails)
      PROVE  IInv'
  BY <1>1, <1>2, <1>9, ExecveTyped, IInvNext
<1> QED BY <1>1, <1>4, <1>5, <1>6, <1>7, <1>8, <1>9 DEF EnvironNext

LEMMA NextIInv == IInv /\ [Next]_vars => IInv'
<1> SUFFICES ASSUME IInv, [Next]_vars PROVE IInv'
  OBVIOUS
<1>1. CASE UNCHANGED vars
  BY <1>1 DEF vars, IInv, EnvironTypeOK, OwnedOnce, TodoOK
<1>2. CASE Program
  BY <1>2, ProgramStep
<1>3. CASE SetNext
  BY <1>3, SetNextStep
<1>4. ASSUME NEW r \in Keeping(Ids), NEW e \in Keeping(Ids), NEW s \in Keeping(Ids),
             \/ setuid(r) \/ seteuid(r) \/ setfsuid(r)
             \/ setgid(r) \/ setegid(r) \/ setfsgid(r)
             \/ setreuid(r, e) \/ setresuid(r, e, s)
             \/ setregid(r, e) \/ setresgid(r, e, s)
      PROVE  IInv'
  <2>1. /\ setuid(r) => Setting(<<Variable("IAMROOT_UID", r)>>)
        /\ seteuid(r) => Setting(<<Variable("IAMROOT_EUID", r)>>)
        /\ setfsuid(r) => Setting(<<Variable("IAMROOT_FSUID", r)>>)
        /\ setgid(r) => Setting(<<Variable("IAMROOT_GID", r)>>)
        /\ setegid(r) => Setting(<<Variable("IAMROOT_EGID", r)>>)
        /\ setfsgid(r) => Setting(<<Variable("IAMROOT_FSGID", r)>>)
        /\ setreuid(r, e) => Setting(<<Variable("IAMROOT_EUID", e), Variable("IAMROOT_UID", r)>>)
        /\ setregid(r, e) => Setting(<<Variable("IAMROOT_EGID", e), Variable("IAMROOT_GID", r)>>)
        /\ setresuid(r, e, s) => Setting(<<Variable("IAMROOT_EUID", e), Variable("IAMROOT_UID", r),
                                           Variable("IAMROOT_SUID", s)>>)
        /\ setresgid(r, e, s) => Setting(<<Variable("IAMROOT_EGID", e), Variable("IAMROOT_GID", r),
                                           Variable("IAMROOT_SGID", s)>>)
    BY DEF setuid, seteuid, setfsuid, setgid, setegid, setfsgid, setreuid, setregid,
           setresuid, setresgid
  <2>2. \E list : SetsIds(list) /\ Setting(list)
    <3>1. \A a \in IdNames : SetsIds(<<Variable(a, r)>>)
      BY IdsSet
    <3>2. \A a, b \in IdNames : SetsIds(<<Variable(a, e), Variable(b, r)>>)
      BY IdsSet
    <3>3. \A a, b, c \in IdNames : SetsIds(<<Variable(a, e), Variable(b, r), Variable(c, s)>>)
      BY IdsSet
    <3>4. /\ "IAMROOT_UID" \in IdNames /\ "IAMROOT_EUID" \in IdNames
          /\ "IAMROOT_SUID" \in IdNames /\ "IAMROOT_FSUID" \in IdNames
          /\ "IAMROOT_GID" \in IdNames /\ "IAMROOT_EGID" \in IdNames
          /\ "IAMROOT_SGID" \in IdNames /\ "IAMROOT_FSGID" \in IdNames
      BY DEF IdNames
    <3> QED BY <1>4, <2>1, <3>1, <3>2, <3>3, <3>4, Zenon
  <2> QED BY <2>2, SettingIds
<1>5. ASSUME NEW list \in SeqOf(Ids, MAXGROUPS + 1), setgroups(list) PROVE IInv'
  <2>1. list \in Seq(Ids)
    BY CredentialsAssumption, SeqDef DEF SeqOf
  <2> QED BY <1>5, <2>1, GroupsStep
<1>6. ASSUME NEW list \in SeqOf(Ids, MAXGROUPS), NEW gid \in Ids, initgroups(list, gid)
      PROVE  IInv'
  <2>1. list \in Seq(Ids)
    BY CredentialsAssumption, SeqDef DEF SeqOf
  <2>2. <<gid>> \o list \in Seq(Ids)
    BY <2>1
  <2> QED BY <1>6, <2>2, GroupsStep DEF initgroups
<1>7. ASSUME NEW mask \in Masks, umask(mask) PROVE IInv'
  BY <1>7, MaskStep
<1>8. NoId \in Keeping(Ids)
  BY DEF Keeping
<1> QED BY <1>1, <1>2, <1>3, <1>4, <1>5, <1>6, <1>7, <1>8 DEF Next

(***************************************************************************)
(* The types of environ(7), of the heap and of env_alloced (env.c).        *)
(***************************************************************************)
THEOREM EnvironTyping == Spec => []EnvironTypeOK
<1>1. IInv => EnvironTypeOK
  BY DEF IInv
<1> QED BY <1>1, InitIInv, NextIInv, PTL DEF Spec

(***************************************************************************)
(* No string is freed while environ(7) or env_alloced has it, and each one *)
(* setenv() remembers is in environ(7) once (__env_rm_add() of env.c).     *)
(***************************************************************************)
THEOREM Ownership == Spec => []OwnedOnce
<1>1. IInv => OwnedOnce
  BY DEF IInv
<1> QED BY <1>1, InitIInv, NextIInv, PTL DEF Spec

(***************************************************************************)
(* An execve() is the one of EnvMap, if the strings it is given are the    *)
(* program's own.                                                          *)
(***************************************************************************)
LEMMA OwnStrings ==
    ASSUME ~SharesStrings, NEW envp \in Envp
    PROVE  \E n \in 0..MaxEnvp : envp \in [1..n -> Strings] /\ envp \in Seq(Strings)
<1>1. PICK n \in 0..MaxEnvp : envp \in [1..n -> Strings]
  BY DEF Envp, SeqOf
<1>2. n \in Nat
  <2>1. MaxEnvp \in Nat
    BY EnvironAssumption
  <2> QED BY <2>1
<1> QED BY <1>1, <1>2, SeqDef

LEMMA ExecveMaps ==
    ASSUME IInv, ~SharesStrings, NEW envp \in Envp, NEW wiped, NEW lacking,
           NEW fails \in BOOLEAN, execve_envp(envp, wiped, lacking, fails)
    PROVE  \E n \in 0..MaxEnvp : envp \in [1..n -> Strings] /\ Map!execve(envp)
<1>1. /\ Become(IF fails THEN _resetenv(Env, envp, wiped, lacking)
                ELSE Image(_resetenv(Env, envp, wiped, lacking)))
      /\ reset' = fails
  BY DEF execve_envp
<1>2. PICK n \in 0..MaxEnvp : envp \in [1..n -> Strings] /\ envp \in Seq(Strings)
  BY OwnStrings
<1> DEFINE d == _resetenv(Env, envp, wiped, lacking)
<1>4. Env \in Environs
  BY IInvNow
<1>5. d \in Environs
  <2>1. envp \in Seq(Given)
    BY <1>2, SeqMonotonic DEF Given
  <2> QED BY <1>4, <2>1, ResetenvTyped
<1>6. Map!Merged(GetMap(Env), GetMap(d), envp, lacking # {})
  BY <1>2, <1>4, ResetenvMerges
<1> HIDE DEF d
<1>7. Env' \in Environs /\ GetMap(Env') = GetMap(d)
  <2>1. CASE fails
    <3>1. Env' = d
      BY <1>1, <1>5, <2>1, BecomeIs DEF d
    <3> QED BY <1>5, <3>1
  <2>2. CASE ~fails
    <3>1. Image(d) \in Environs /\ GetMap(Image(d)) = GetMap(d)
      BY <1>5, ImageIs, ImageMap
    <3>2. Env' = Image(d)
      BY <1>1, <2>2, <3>1, BecomeIs DEF d
    <3> QED BY <3>1, <3>2
  <2> QED BY <2>1, <2>2
<1> HIDE DEF Env
<1> DEFINE env == [name \in Names |-> getenv(Env, name)]
<1>8. env = GetMap(Env) /\ env' = GetMap(Env')
  BY DEF GetMap
<1>9. env' \in [Names -> Values \cup {NULL}]
  BY <1>7, GetenvTyped
<1>10. \E b \in BOOLEAN : Map!Merged(env, env', envp, b)
  <2>1. (lacking # {}) \in BOOLEAN
    OBVIOUS
  <2> HIDE DEF env
  <2> QED BY <1>6, <1>7, <1>8, <2>1
<1>11. Map!execve(envp)
  BY <1>1, <1>9, <1>10 DEF Map!execve
<1> QED BY <1>2, <1>11

LEMMA NextMaps ==
    ASSUME IInv, [Next]_vars, ~SharesStrings
    PROVE  [Map!Next]_<<[name \in Names |-> getenv(Env, name)], reset>>
<1> DEFINE env == [name \in Names |-> getenv(Env, name)]
<1>1. env = GetMap(Env) /\ env' = GetMap(Env')
  BY DEF GetMap
<1>2. Env \in Environs /\ reset \in BOOLEAN /\ (~reset => Owned(Env))
  BY IInvNow
<1> SUFFICES Map!Next \/ (env' = env /\ reset' = reset)
  OBVIOUS
<1>3. ASSUME NEW name \in Names, NEW value \in Values \cup {NULL}, ~reset, reset' = reset,
             GetMap(Env') = [GetMap(Env) EXCEPT ![name] = value]
      PROVE  Map!Next
  <2>1. Map!Set(name, value)
    BY <1>1, <1>3 DEF Map!Set
  <2> QED BY <2>1 DEF Map!Next
<1>4. CASE UNCHANGED envvars
  BY <1>4 DEF envvars, Env
<1>5. ASSUME NEW name \in Names \ Iamroot, NEW value \in Values, NEW overwrite \in BOOLEAN,
             setenv(name, value, overwrite)
      PROVE  Map!Next \/ (env' = env /\ reset' = reset)
  <2>1. ~reset /\ reset' = reset /\ \E failure \in Failures : _setenv(name, value, overwrite, failure)
    BY <1>5 DEF setenv
  <2>2. \/ GetMap(Env') = GetMap(Env)
        \/ GetMap(Env') = [GetMap(Env) EXCEPT ![name] = value]
    BY <1>2, <2>1, SetenvStep
  <2> QED BY <1>1, <1>3, <2>1, <2>2
<1>6. ASSUME NEW string \in Strings, putenv(string)
      PROVE  Map!Next \/ (env' = env /\ reset' = reset)
  <2>1. ~reset /\ reset' = reset
    BY <1>6 DEF putenv
  <2>2. \/ GetMap(Env') = GetMap(Env)
        \/ GetMap(Env') = [GetMap(Env) EXCEPT ![string.name] = string.value]
    BY <1>2, <1>6, <2>1, PutenvStep
  <2>3. string \in [name : Names, value : Values \cup {NULL}]
    BY EnvironAssumption
  <2>4. string.name \in Names /\ string.value \in Values \cup {NULL}
    BY <2>3
  <2> QED BY <1>1, <1>3, <2>1, <2>2, <2>4
<1>7. ASSUME NEW name \in Names, unsetenv(name) PROVE Map!Next
  <2>1. ~reset /\ reset' = reset
    BY <1>7 DEF unsetenv
  <2>2. GetMap(Env') = [GetMap(Env) EXCEPT ![name] = NULL]
    BY <1>2, <1>7, <2>1, UnsetenvStep
  <2> QED BY <1>3, <2>1, <2>2
<1>8. CASE clearenv
  <2>1. ~reset /\ reset' = reset
    BY <1>8 DEF clearenv
  <2>2. GetMap(Env') = [name \in Names |-> NULL]
    BY <1>2, <1>8, <2>1, ClearenvStep
  <2>3. Map!Clear
    BY <1>1, <2>1, <2>2 DEF Map!Clear
  <2> QED BY <2>3 DEF Map!Next
<1>9. CASE execve_environ
  <2>1. reset' = reset /\ GetMap(Env') = GetMap(Env)
    BY <1>2, <1>9, ExecveEnvironStep DEF execve_environ
  <2> QED BY <1>1, <2>1
<1>10. ASSUME NEW envp \in Envp, NEW wiped, NEW lacking, NEW fails \in BOOLEAN,
              execve_envp(envp, wiped, lacking, fails)
       PROVE  Map!Next
  <2>1. PICK n \in 0..MaxEnvp : envp \in [1..n -> Strings] /\ Map!execve(envp)
    BY <1>10, ExecveMaps
  <2> QED BY <2>1 DEF Map!Next
<1>11. CASE Program
  BY <1>5, <1>6, <1>7, <1>8, <1>9, <1>10, <1>11 DEF Program, EnvironNext
<1>12. CASE SetNext
  <2>1. ~reset /\ reset' = reset
        /\ \/ GetMap(Env') = GetMap(Env)
           \/ \E name \in Names, value \in Values :
                 GetMap(Env') = [GetMap(Env) EXCEPT ![name] = value]
    BY <1>12, SetNextStep
  <2> QED BY <1>1, <1>3, <2>1
<1>13. ASSUME NEW list, setgroups(list) PROVE Map!Next \/ UNCHANGED envvars
  <2>1. CASE list = <<>>
    <3>1. unsetenv("IAMROOT_GROUPS")
      BY <1>13, <2>1 DEF setgroups
    <3>2. "IAMROOT_GROUPS" \in Names
      BY IdNamesTyped
    <3> QED BY <1>7, <3>1, <3>2
  <2>2. CASE list # <<>>
    BY <1>13, <2>2 DEF setgroups, Setting
  <2> QED BY <2>1, <2>2
<1>14. ASSUME NEW r, NEW e, NEW s, NEW mask,
              \/ setuid(r) \/ seteuid(r) \/ setfsuid(r)
              \/ setgid(r) \/ setegid(r) \/ setfsgid(r)
              \/ setreuid(r, e) \/ setresuid(r, e, s)
              \/ setregid(r, e) \/ setresgid(r, e, s)
              \/ umask(mask)
       PROVE  UNCHANGED envvars
  <2>1. \A list : Setting(list) => UNCHANGED envvars
    BY DEF Setting
  <2> QED BY <1>14, <2>1, Zenon
       DEF setuid, seteuid, setfsuid, setgid, setegid, setfsgid, setreuid, setregid,
           setresuid, setresgid, umask
<1>15. CASE UNCHANGED vars
  BY <1>4, <1>15 DEF vars, envvars
<1>16. CASE Next
  <2>1. CASE \E id \in Keeping(Ids) : \/ setuid(id) \/ seteuid(id) \/ setfsuid(id)
                                      \/ setgid(id) \/ setegid(id) \/ setfsgid(id)
    BY <1>4, <1>14, <2>1
  <2>2. CASE \E r, e, s \in Keeping(Ids) : \/ setreuid(r, e) \/ setresuid(r, e, s)
                                           \/ setregid(r, e) \/ setresgid(r, e, s)
    BY <1>4, <1>14, <2>2
  <2>3. CASE \E mask \in Masks : umask(mask)
    BY <1>4, <1>14, <2>3
  <2>4. CASE \/ \E list \in SeqOf(Ids, MAXGROUPS + 1) : setgroups(list)
             \/ \E list \in SeqOf(Ids, MAXGROUPS), gid \in Ids : initgroups(list, gid)
    BY <1>4, <1>13, <2>4 DEF initgroups
  <2> QED BY <1>11, <1>12, <1>16, <2>1, <2>2, <2>3, <2>4 DEF Next
<1> QED BY <1>15, <1>16

LEMMA InitMaps == Init => Map!Init
<1> SUFFICES ASSUME Init PROVE Map!Init
  OBVIOUS
<1>1. Env \in Environs
  BY InitIInv, IInvNow
<1>2. reset = FALSE
  BY DEF Init, EnvironInit
<1> HIDE DEF Env
<1> QED BY <1>1, <1>2, GetenvTyped DEF Map!Init

(***************************************************************************)
(* The environment functions are those of a map, whatever memory the calls *)
(* find, when no string given to execve() is one of environ(7) itself.     *)
(***************************************************************************)
THEOREM EnvironImplementsMap == ASSUME ~SharesStrings PROVE Spec => MapSpec
<1>1. IInv /\ [Next]_vars => [Map!Next]_<<[name \in Names |-> getenv(Env, name)], reset>>
  BY NextMaps
<1> QED BY <1>1, InitMaps, InitIInv, NextIInv, PTL DEF Spec, MapSpec, Map!Spec

(***************************************************************************)
(* With memory for the array, an execve() of any length loses nothing of   *)
(* what it is given, in the program as in the new image.                   *)
(***************************************************************************)
THEOREM ResetenvLosesNothing == ASSUME ~SharesStrings PROVE Spec => []EnvpMerged
<1>1. ASSUME IInv PROVE EnvpMerged
  <2> SUFFICES ASSUME NEW envp \in Envp, NEW wiped
               PROVE  LET e == _resetenv(Env, envp, wiped, {})
                      IN  /\ Map!Merged(GetMap(Env), GetMap(e), envp, FALSE)
                          /\ Map!Merged(GetMap(Env), GetMap(Image(e)), envp, FALSE)
    BY DEF EnvpMerged
  <2>1. Env \in Environs
    BY <1>1, IInvNow
  <2>2. envp \in Seq(Strings)
    BY OwnStrings
  <2> HIDE DEF Env
  <2> DEFINE e == _resetenv(Env, envp, wiped, {})
             none == {}
  <2>3. Map!Merged(GetMap(Env), GetMap(e), envp, FALSE)
    <3>1. Map!Merged(GetMap(Env), GetMap(_resetenv(Env, envp, wiped, none)), envp, none # {})
      <4> HIDE DEF none
      <4> QED BY <2>1, <2>2, ResetenvMerges
    <3>2. (none # {}) = FALSE
      OBVIOUS
    <3> QED BY <3>1, <3>2
  <2>4. e \in Environs
    <3>1. envp \in Seq(Given)
      BY <2>2, SeqMonotonic DEF Given
    <3> QED BY <2>1, <3>1, ResetenvTyped
  <2>5. GetMap(Image(e)) = GetMap(e)
    <3> HIDE DEF e
    <3> QED BY <2>4, ImageMap
  <2> QED BY <2>3, <2>5
<1> QED BY <1>1, InitIInv, NextIInv, PTL DEF Spec
=============================================================================
